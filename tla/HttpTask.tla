------------------------------ MODULE HttpTask ------------------------------
(***************************************************************************)
(* One task of the "HTTP" deploy type (runtasklogic.go): RunTask saves the *)
(* task row and starts executeHttp, which creates the single workload row,*)
(* calls Httpdeploy (httpd/httpdeploylogic.go), resolves an optional       *)
(* {{response$path}} marker of the check path against the deploy response,*)
(* marks the task running and starts getHttpStatus, which polls Httpcheck *)
(* (httpd/httpchecklogic.go) until it reports finished, fails, or the      *)
(* 300 s context deadline fires; setHttpStatus writes the terminal rows.  *)
(*                                                                         *)
(* The HTTP calls are nondeterministic choices over the outcomes the      *)
(* configuration allows; the JSON path and regexp evaluation inside them  *)
(* is abstracted to the outcome it yields.                                *)
(***************************************************************************)
EXTENDS Naturals, Functions

CONSTANTS
    Submissions,     \* RunTask requests carrying this task id (req.Id)
    AppLookup,       \* outcomes of the application lookup in RunTask
    DeployResults,   \* outcomes of Httpdeploy
    ResponseMarker,  \* the check path has no marker, or one that resolves or not
    CheckResults     \* outcomes of one Httpcheck call

ASSUME
    /\ Submissions \in Nat \ {0}
    /\ AppLookup \subseteq {"found", "missing"} /\ AppLookup # {}
    /\ DeployResults \subseteq {"ok", "err"} /\ DeployResults # {}
    /\ ResponseMarker \subseteq {"none", "resolved", "unresolved"}
    /\ ResponseMarker # {}
    /\ CheckResults \subseteq {"err", "running", "doneOk", "doneFail", "noCheck"}
    /\ CheckResults # {}

\* The executions of the task id: the e-th RunTask starts execution e.
Ex == 1..Submissions

VARIABLES
    task,      \* the task_history row, shared by every execution of the id
    row,       \* the task_history_workload row each execution created
    pc,        \* where each executeHttp / getHttpStatus goroutine is
    ctxDone,   \* each execution's check context's deadline has fired
    lastCheck, \* what each execution's last Httpcheck call returned (history)
    pending,   \* the message setHttpStatus is about to write to the row
    del        \* progress of DeleteHistory

vars == <<task, row, pc, ctxDone, lastCheck, pending, del>>

TaskStatus == {"none", "initialize", "running", "terminated", "finished"}
Terminal   == {"terminated", "finished"}
RowErr     == {"none", "deploy", "check", "timeout", "message"}
\* `by` is the execution whose write the row holds (history, 0 for none).
NoTask == [status |-> "none", success |-> "null", startWrites |-> 0, by |-> 0]
NoRow  == [exists |-> FALSE, err |-> "none"]

\* Mutant of UpdateTask: the row written with Save, an upsert.
UpdateTaskSave(e, new) == task' = [new EXCEPT !.by = e]

\* gorm Model(&x).Updates(...): UPDATE ... WHERE id = ?, which changes
\* nothing once the row has been deleted.
UpdateTask(e, new) ==
    task' = IF task.status = "none" THEN task ELSE [new EXCEPT !.by = e]
UpdateRow(e, m) ==
    row' = IF row[e].exists THEN [row EXCEPT ![e].err = m] ELSE row

Init ==
    /\ task = NoTask
    /\ row = [e \in Ex |-> NoRow]
    /\ pc = [e \in Ex |-> "idle"]
    /\ ctxDone = [e \in Ex |-> FALSE]
    /\ lastCheck = [e \in Ex |-> "none"]
    /\ pending = [e \in Ex |-> "none"]
    /\ del = "idle"

-----------------------------------------------------------------------------

\* Mutant: the workload rows are reset over 0..Submissions (off by one).
RunTaskRowsOffByOne(e) ==
    /\ pc[e] = "idle" /\ "crashed" \notin Range(pc)
    /\ e > 1 => pc[e - 1] # "idle" /\ task.status \in Terminal
    /\ \/ /\ "missing" \in AppLookup
          /\ pc' = [pc EXCEPT ![e] = "rejected"]
          /\ UNCHANGED <<task, row>>
       \/ /\ "found" \in AppLookup
          /\ task' = [NoTask EXCEPT !.status = "initialize", !.by = e]
          /\ row' = [x \in 0..Submissions |-> NoRow]
          /\ pc' = [pc EXCEPT ![e] = "create"]
    /\ UNCHANGED <<ctxDone, lastCheck, pending, del>>

\* RunTask: the application lookup, the task row Saved at "initialize",
\* the workload rows of the id deleted, the executeHttp goroutine started.
\* A caller resubmits the id only once the task shows a terminal status.
RunTask(e) ==
    /\ pc[e] = "idle" /\ "crashed" \notin Range(pc)
    /\ e > 1 => pc[e - 1] # "idle" /\ task.status \in Terminal
    /\ \/ /\ "missing" \in AppLookup
          /\ pc' = [pc EXCEPT ![e] = "rejected"]
          /\ UNCHANGED <<task, row>>
       \/ /\ "found" \in AppLookup
          /\ task' = [NoTask EXCEPT !.status = "initialize", !.by = e]
          /\ row' = [x \in Ex |-> NoRow]
          /\ pc' = [pc EXCEPT ![e] = "create"]
    /\ UNCHANGED <<ctxDone, lastCheck, pending, del>>

\* executeHttp: Create the workload row.
CreateRow(e) ==
    /\ pc[e] = "create"
    /\ row' = [row EXCEPT ![e] = [NoRow EXCEPT !.exists = TRUE]]
    /\ pc' = [pc EXCEPT ![e] = "deploy"]
    /\ UNCHANGED <<task, ctxDone, lastCheck, pending, del>>

\* Mutant: the deploy error is written to the row only, not to the task.
DeployFailedNoTaskUpdate(e) ==
    /\ pc[e] = "deploy" /\ "err" \in DeployResults
    /\ UpdateRow(e, "deploy")
    /\ pc' = [pc EXCEPT ![e] = "exited"]
    /\ UNCHANGED <<task, ctxDone, lastCheck, pending, del>>

\* Httpdeploy fails: the task is "terminated" with Success=false and a
\* StartAt, the row gets the error, and the goroutine returns before any
\* check starts.
DeployFailed(e) ==
    /\ pc[e] = "deploy" /\ "err" \in DeployResults
    /\ UpdateTask(e, [task EXCEPT !.status = "terminated",
                                          !.success = "false", !.startWrites = @ + 1])
    /\ UpdateRow(e, "deploy")
    /\ pc' = [pc EXCEPT ![e] = "exited"]
    /\ UNCHANGED <<ctxDone, lastCheck, pending, del>>

\* Httpdeploy succeeds and the check path has no {{response$...}} marker
\* or one whose JSON path resolves in the deploy response: the task is
\* marked "running" with a StartAt and getHttpStatus starts.
DeployOk(e) ==
    /\ pc[e] = "deploy" /\ "ok" \in DeployResults
    /\ ResponseMarker \ {"unresolved"} # {}
    /\ UpdateTask(e, [task EXCEPT !.status = "running", !.startWrites = @ + 1])
    /\ pc' = [pc EXCEPT ![e] = "check"]
    /\ UNCHANGED <<row, ctxDone, lastCheck, pending, del>>

\* The marker's JSON path does not resolve: the task is written
\* "terminated" with a StartAt, but executeHttp does not return.
DeployMarkerUnresolved(e) ==
    /\ pc[e] = "deploy" /\ "ok" \in DeployResults
    /\ "unresolved" \in ResponseMarker
    /\ UpdateTask(e, [task EXCEPT !.status = "terminated", !.startWrites = @ + 1])
    /\ pc' = [pc EXCEPT ![e] = "markRunning"]
    /\ UNCHANGED <<row, ctxDone, lastCheck, pending, del>>

\* ... it goes on with "<nil>" substituted for the marker, writes "running"
\* and a new StartAt, and starts getHttpStatus.
MarkRunning(e) ==
    /\ pc[e] = "markRunning"
    /\ UpdateTask(e, [task EXCEPT !.status = "running", !.startWrites = @ + 1])
    /\ pc' = [pc EXCEPT ![e] = "check"]
    /\ UNCHANGED <<row, ctxDone, lastCheck, pending, del>>

-----------------------------------------------------------------------------
(* getHttpStatus.  setHttpStatus writes the task row "finished" with the  *)
(* given success, then, as a second statement, the message into the row's *)
(* ErrMessage (SetRowMessage); getHttpStatus then returns.                *)

SetHttpStatus(e, success, m) ==
    /\ UpdateTask(e, [task EXCEPT !.status = "finished", !.success = success])
    /\ pc' = [pc EXCEPT ![e] = "setRow"]
    /\ pending' = [pending EXCEPT ![e] = m]
    /\ UNCHANGED row

SetRowMessage(e) ==
    /\ pc[e] = "setRow"
    /\ UpdateRow(e, pending[e])
    /\ pc' = [pc EXCEPT ![e] = "exited"]
    /\ UNCHANGED <<task, ctxDone, lastCheck, pending, del>>

\* The context deadline (created before getHttpStatus starts) fires.
Expire(e) ==
    /\ pc[e] \in {"markRunning", "check"} /\ ~ctxDone[e]
    /\ ctxDone' = [ctxDone EXCEPT ![e] = TRUE]
    /\ UNCHANGED <<task, row, pc, lastCheck, pending, del>>

\* Mutant: the ctx.Done case writes the task but neither the row nor returns.
CheckTimeoutNoReturn(e) ==
    /\ pc[e] = "check" /\ ctxDone[e]
    /\ UpdateTask(e, [task EXCEPT !.status = "finished", !.success = "false"])
    /\ UNCHANGED <<row, pc, pending, ctxDone, lastCheck, del>>

\* case <-ctx.Done(): setHttpStatus(false, "... TIMEOUT and TERMINATED").
CheckTimeout(e) ==
    /\ pc[e] = "check" /\ ctxDone[e]
    /\ SetHttpStatus(e, "false", "timeout")
    /\ UNCHANGED <<ctxDone, lastCheck, del>>

\* default: one Httpcheck call and what getHttpStatus does with its result:
\* an error ends the task as failed; Finished=false sleeps and polls again;
\* Finished=true ends it with the check's Success and message; a check
\* method other than get/post returns a Response without Data, and the
\* type assertion res.Data.(types.HttpcheckResponse) panics, which ends
\* the server process.
Check(e) ==
    /\ pc[e] = "check" /\ ~ctxDone[e]
    /\ \E r \in CheckResults :
          /\ lastCheck' = [lastCheck EXCEPT ![e] = r]
          /\ CASE r = "err"      -> SetHttpStatus(e, "false", "check")
               [] r = "running"  -> UNCHANGED <<task, row, pc, pending>>
               [] r = "doneOk"   -> SetHttpStatus(e, "true", "message")
               [] r = "doneFail" -> SetHttpStatus(e, "false", "message")
               [] r = "noCheck"  -> /\ pc' = [x \in Ex |->
                                           IF pc[x] = "idle" THEN "idle" ELSE "crashed"]
                                    /\ UNCHANGED <<task, row, pending>>
    /\ UNCHANGED <<ctxDone, del>>

(* DeleteHistory: DELETE the task row, then its workload rows.            *)

DeleteTask ==
    /\ del = "idle" /\ pc[1] # "idle"
    /\ task' = NoTask
    /\ del' = "taskDeleted"
    /\ UNCHANGED <<row, pc, ctxDone, lastCheck, pending>>

DeleteWorkloads ==
    /\ del = "taskDeleted"
    /\ row' = [e \in Ex |-> NoRow]
    /\ del' = "done"
    /\ UNCHANGED <<task, pc, ctxDone, lastCheck, pending>>

-----------------------------------------------------------------------------

Execution(e) ==
    \/ CreateRow(e)
    \/ DeployFailed(e)
    \/ DeployOk(e)
    \/ DeployMarkerUnresolved(e)
    \/ MarkRunning(e)
    \/ Expire(e)
    \/ CheckTimeout(e)
    \/ Check(e)
    \/ SetRowMessage(e)

Next ==
    \/ \E e \in Ex : RunTask(e) \/ Execution(e)
    \/ DeleteTask
    \/ DeleteWorkloads

(* Goroutines are scheduled fairly and a deadline always fires; neither   *)
(* the caller (RunTask) nor the DeleteHistory client need act.            *)
Spec == /\ Init /\ [][Next]_vars
        /\ \A e \in Ex : WF_vars(Execution(e)) /\ WF_vars(Expire(e))

-----------------------------------------------------------------------------
(* Properties.                                                             *)

Started == {e \in Ex : pc[e] \notin {"idle", "rejected"}}

TypeOK ==
    /\ task \in [status : TaskStatus, success : {"null", "true", "false"},
                 startWrites : 0..2, by : Ex \cup {0}]
    /\ row \in [Ex -> [exists : BOOLEAN, err : RowErr]]
    /\ pc \in [Ex -> {"idle", "rejected", "create", "deploy", "markRunning",
                      "check", "setRow", "exited", "crashed"}]
    /\ ctxDone \in [Ex -> BOOLEAN]
    /\ lastCheck \in [Ex -> CheckResults \cup {"none"}]
    /\ pending \in [Ex -> RowErr]
    /\ del \in {"idle", "taskDeleted", "done"}

\* A failed Httpdeploy short-circuits its execution (spec section 8,
\* scenario C): no check is ever made and, unless another execution wrote
\* the row since, the task is "terminated" and was never "running".
DeployFailureShortCircuits ==
    \A e \in Ex : row[e].err = "deploy" =>
        /\ pc[e] = "exited" /\ lastCheck[e] = "none"
        /\ task.by = e => task.status = "terminated" /\ task.startWrites = 1

\* A task written "terminated" or "finished" is never written back to a
\* non-terminal status (spec section 5: a terminal state is never
\* regressed); only DeleteHistory removes it and only a new RunTask of the
\* id starts it afresh.
TerminalNeverRegresses ==
    [][task.status \in Terminal =>
          task'.status \in {task.status, "none", "initialize"}]_vars

\* Every submitted HTTP task's execution completes with its terminal rows
\* written: the deploy fails, the check reports finished or fails, or the
\* deadline fires.
HttpTaskCompletes ==
    \A e \in Ex : pc[e] # "idle" ~> pc[e] \in {"rejected", "exited"}

\* An execution ends its task finished with Success=false only because its
\* check reported finished without success or its 300 s deadline fired: a
\* transport error or a non-2xx answer of one Httpcheck call is transient,
\* persisted and retried (spec sections 4.3 step 3 and 7 (c)).
FailureOnlyByCheckOrDeadline ==
    \A e \in Ex :
        (task.by = e /\ task.status = "finished" /\ task.success = "false")
            => ctxDone[e] \/ lastCheck[e] = "doneFail"

\* The task row seen as the specification's task state machine.
Lifecycle == INSTANCE TaskLifecycle
                WITH status <- task.status, success <- task.success

\* RunTask, executeHttp, getHttpStatus and DeleteHistory change the task
\* row only as the specification's state machine allows (TaskLifecycle):
\* "terminated" only straight from "initialize", "running" only from
\* "initialize", no write to a deleted row, a resubmission only over a
\* terminal row.
LifecycleRefined == Lifecycle!Spec

=============================================================================
