--------------------------- MODULE TaskLifecycle ---------------------------
(***************************************************************************)
(* What the task row promises, as the specification states it (sections  *)
(* 4.1, 4.5, 5 and 7): the status goes initialize -> running -> finished, *)
(* or for a failed HTTP dispatch straight to terminated; a terminal       *)
(* status is never regressed; the first dispatch failure is recorded as    *)
(* success=false and a task with a recorded failure neither starts running *)
(* nor finishes successfully; a reused id starts afresh only from no row  *)
(* or a terminal one; DeleteHistory removes the row at any time.           *)
(*                                                                         *)
(* RunTask and HttpTask each instantiate this module with their task row  *)
(* as the refinement mapping and check that they implement Spec.          *)
(***************************************************************************)

VARIABLES
    status,   \* the row's Status, "none" while there is no row
    success   \* the row's Success: "null" (unset), "true" or "false"

vars == <<status, success>>

Status   == {"none", "initialize", "running", "terminated", "finished"}
Terminal == {"terminated", "finished"}
Active   == {"initialize", "running"}

Init == status = "none" /\ success = "null"

\* Submit: the row is (re)created at "initialize" with Success unset.
Submit ==
    /\ status \in {"none"} \cup Terminal
    /\ status' = "initialize" /\ success' = "null"

\* The first successful dispatch marks the task running, unless a dispatch
\* failure has already been recorded.
Start ==
    /\ status = "initialize" /\ success = "null"
    /\ status' = "running" /\ UNCHANGED success

\* A dispatch failure is recorded against the task while it is active.
RecordFailure ==
    /\ status \in Active
    /\ success' = "false" /\ UNCHANGED status

\* Aggregation writes the terminal "finished" row; success=true only for a
\* task with no recorded failure.
Finish ==
    /\ status \in Active
    /\ status' = "finished"
    /\ success' \in IF success = "false" THEN {"false"} ELSE {"true", "false"}

\* The HTTP backend's dispatch failure ends the task at "terminated".
Terminate ==
    /\ status = "initialize"
    /\ status' = "terminated" /\ success' = "false"

\* DeleteHistory removes the row.
Delete ==
    /\ status # "none"
    /\ status' = "none" /\ success' = "null"

Next == Submit \/ Start \/ RecordFailure \/ Finish \/ Terminate \/ Delete

Spec == Init /\ [][Next]_vars

=============================================================================
