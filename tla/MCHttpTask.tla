----------------------------- MODULE MCHttpTask -----------------------------
(* Model-checking instance of HttpTask. *)
EXTENDS HttpTask

\* Two executions of the task id: the first, then a resubmission by a
\* caller who saw the task in a terminal status.
MCSubmissions == 2

=============================================================================
