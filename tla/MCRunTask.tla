----------------------------- MODULE MCRunTask -----------------------------
(* Model-checking instance of RunTask: the bounds the configurations use. *)
EXTENDS RunTask

\* Requests of up to two workloads: enough for one prober to finish while
\* another is still dispatching or probing, and for two collectors to race
\* on the append; zero is the empty request.
MCTwoWorkloads == 2

=============================================================================
