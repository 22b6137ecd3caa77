---------------------------- MODULE MCTaskServer ----------------------------
(* Model-checking instance of TaskServer.                                  *)
EXTENDS TaskServer

\* Requests of zero to two workloads for executeWorkload / executeVm.
MCTwoWorkloads == 2

\* Two executions of an HTTP task id: the first, then a resubmission by a
\* caller who saw the task in a terminal status.
MCSubmissions == 2

=============================================================================
