------------------------------ MODULE RunTask ------------------------------
(***************************************************************************)
(* One task of server/internal/logic/task/runtasklogic.go for the cluster  *)
(* ("容器") and virtual-machine ("虚拟机") deploy types: RunTask saves the  *)
(* task row and, by the application's deploy type, starts executeWorkload *)
(* or executeVm (or nothing, for a type it does not know), which          *)
(* dispatches the workloads one after another, starts one prober goroutine*)
(* (getWorkloadStatus / getVmStatus) per dispatched workload, one         *)
(* collector goroutine per workload reading its unbuffered result channel, *)
(* and waits on a sync.WaitGroup sized to the number of workloads before   *)
(* writing the terminal task row.  DeleteHistory (deletehistorylogic.go)  *)
(* is a concurrent request that deletes the task row, then its workload    *)
(* rows.                                                                   *)
(*                                                                         *)
(* Remote calls (agent lookup, the dispatch RPC, the probe RPC) are       *)
(* nondeterministic choices over the outcomes the configuration allows;   *)
(* wall-clock sleeps are left out, the 300 s context deadline is the       *)
(* action Expire, which may fire at any time while a prober runs.         *)
(***************************************************************************)
EXTENDS Integers, FiniteSets

CONSTANTS
    DeployTypes,      \* application.DeployType: "k8s" (容器), "vm" (虚拟机),
                      \* or "other", for which RunTask starts no execution
    MaxWorkloads,     \* the largest len(req.Workloads)
    AppLookup,        \* outcomes of the application lookup in RunTask
    AgentLookup,      \* outcomes of svcCtx.GetAgent(cluster, namespace)
    DispatchResults,  \* outcomes of PatchDeployment/RolloutDeployment/Deploy
    ProbeResults,     \* outcomes of one probe (GetPodStatus or Healthcheck)
    DeleteRequests    \* number of DeleteHistory requests for this task id

ASSUME
    /\ DeployTypes \subseteq {"k8s", "vm", "other"} /\ DeployTypes # {}
    /\ MaxWorkloads \in Nat
    /\ AppLookup \subseteq {"found", "missing"} /\ AppLookup # {}
    /\ AgentLookup \subseteq {"found", "missing"} /\ AgentLookup # {}
    /\ DispatchResults \subseteq {"ok", "err"} /\ DispatchResults # {}
    /\ ProbeResults \subseteq {"rpcErr", "notReady", "ready",  \* GetPodStatus
                              "healthErr", "healthOk"}       \* Healthcheck
    /\ ProbeResults # {}
    /\ DeleteRequests \in {0, 1}

Wl == 1..MaxWorkloads

VARIABLES
    task,           \* the task_history row
    rows,           \* the task_history_workload rows, one per workload
    orch,           \* the goroutine running executeWorkload / executeVm
    wg,             \* the sync.WaitGroup counter
    prober,         \* pc of each getWorkloadStatus / getVmStatus goroutine
    msg,            \* the ResultChan a prober is sending (or last sent)
    after,          \* what the prober does once its send completes
    ctxDone,        \* ctx.Done() of each prober's context has fired
    collector,      \* pc of each collector goroutine
    colRes,         \* the ResultChan each collector received
    colSnap,        \* the failedWorkload slice a collector read to append to
    failedWorkload, \* the shared failedWorkload slice (as the set it lists)
    del             \* progress of DeleteHistory

vars == <<task, rows, orch, wg, prober, msg, after, ctxDone, collector,
          colRes, colSnap, failedWorkload, del>>

TaskStatus == {"none", "initialize", "running", "finished"}
NullBool   == {"null", "true", "false"}
RowErr     == {"none", "dispatch", "probe", "timeout"}
RowStatus  == {"none", "notReady", "ready", "healthErr"}
Result     == [ok : BOOLEAN, err : {"none", "probe", "timeout"}]
NoResult   == [ok |-> FALSE, err |-> "none"]

\* The row values: task.status = "none" when the row does not exist.
\* errList is the workloads the JSON-encoded ErrMessage lists; startWrites
\* counts the updates that have written StartAt.
TaskRow == [status : TaskStatus, success : NullBool,
            err : {"none", "dispatch", "list"}, errList : SUBSET Wl,
            startWrites : 0..MaxWorkloads]
NoTask == [status |-> "none", success |-> "null", err |-> "none",
           errList |-> {}, startWrites |-> 0]
WlRow == [exists : BOOLEAN, err : RowErr, status : RowStatus]
NoRow == [exists |-> FALSE, err |-> "none", status |-> "none"]

-----------------------------------------------------------------------------
(* Row updates through gorm Model(&x).Updates(...): an UPDATE ... WHERE    *)
(* id = ? that changes nothing when the row has been deleted.             *)

UpdateTask(new) == task' = IF task.status = "none" THEN task ELSE new
UpdateRow(w, new) == rows' = [rows EXCEPT ![w] = IF @.exists THEN new ELSE @]

Init ==
    /\ task = NoTask
    /\ rows = [w \in Wl |-> NoRow]
    /\ orch = [pc |-> "idle", type |-> "none", n |-> 0, i |-> 1,
               firstFail |-> FALSE]
    /\ wg = 0
    /\ prober = [w \in Wl |-> "off"]
    /\ msg = [w \in Wl |-> NoResult]
    /\ after = [w \in Wl |-> "retry"]
    /\ ctxDone = [w \in Wl |-> FALSE]
    /\ collector = [w \in Wl |-> "off"]
    /\ colRes = [w \in Wl |-> NoResult]
    /\ colSnap = [w \in Wl |-> {}]
    /\ failedWorkload = {}
    /\ del = [pc |-> "idle", count |-> 0]

-----------------------------------------------------------------------------
(* RunTask: look the application up, Save the task row at "initialize",  *)
(* delete stale workload rows of the id, and start executeWorkload or      *)
(* executeVm, by the application's deploy type, on the request's           *)
(* workloads (no goroutine for any other type); the goroutine begins with  *)
(* wg.Add(len(workloads)).                                                  *)

\* The execute goroutine as RunTask starts it, for deploy type t and n
\* workloads.
Submitted(t, n) ==
    [pc |-> IF t = "other" THEN "detached" ELSE "dispatch",
     type |-> t, n |-> n, i |-> 1, firstFail |-> FALSE]

RunTask ==
    /\ orch.pc = "idle"
    /\ \/ /\ "missing" \in AppLookup
          /\ orch' = [orch EXCEPT !.pc = "rejected"]
          /\ UNCHANGED <<task, rows, wg>>
       \/ /\ "found" \in AppLookup
          /\ \E t \in DeployTypes, n \in 0..MaxWorkloads :
                /\ orch' = Submitted(t, n)
                /\ wg' = IF t = "other" THEN wg ELSE n
          /\ task' = [NoTask EXCEPT !.status = "initialize"]
          /\ rows' = [w \in Wl |-> NoRow]
    /\ UNCHANGED <<prober, msg, after, ctxDone, collector, colRes, colSnap,
                   failedWorkload, del>>

(* One iteration of the dispatch loop for workload orch.i: Create its row, *)
(* resolve the agent, call the dispatch RPC, record the outcome and start  *)
(* its prober.  The loop body is one goroutine's straight-line code; it   *)
(* interleaves with probers, collectors and DeleteHistory at iteration     *)
(* boundaries.                                                             *)

\* executeWorkload returns early when GetAgent fails; its deferred cancel()
\* calls fire the contexts of every prober started so far.
DispatchAgentMissing ==
    /\ orch.pc = "dispatch" /\ orch.i <= orch.n
    /\ orch.type = "k8s" /\ "missing" \in AgentLookup
    /\ rows' = [rows EXCEPT ![orch.i] = [NoRow EXCEPT !.exists = TRUE]]
    /\ orch' = [orch EXCEPT !.pc = "aborted"]
    /\ ctxDone' = [w \in Wl |-> ctxDone[w] \/ prober[w] # "off"]
    /\ UNCHANGED <<task, wg, prober, msg, after, collector, colRes, colSnap,
                   failedWorkload, del>>

\* The dispatch RPC fails: firstFail is set, the task row gets
\* Success=false, the error and a new StartAt, the workload row the error,
\* and the loop continues without starting a prober (and without wg.Done).
DispatchFailed ==
    LET i == orch.i IN
    /\ orch.pc = "dispatch" /\ i <= orch.n
    /\ orch.type = "vm" \/ "found" \in AgentLookup
    /\ "err" \in DispatchResults
    /\ UpdateTask([task EXCEPT !.success = "false", !.err = "dispatch",
                               !.startWrites = @ + 1])
    /\ rows' = [rows EXCEPT ![i] = [exists |-> TRUE, err |-> "dispatch",
                                    status |-> "none"]]
    /\ orch' = [orch EXCEPT !.i = i + 1, !.firstFail = TRUE]
    /\ UNCHANGED <<wg, prober, msg, after, ctxDone, collector, colRes, colSnap,
                   failedWorkload, del>>

\* Mutant of DispatchOk: the !firstFail test dropped.
DispatchOkIgnoreFirstFail ==
    LET i == orch.i IN
    /\ orch.pc = "dispatch" /\ i <= orch.n
    /\ orch.type = "vm" \/ "found" \in AgentLookup
    /\ "ok" \in DispatchResults
    /\ UpdateTask([task EXCEPT !.status = "running", !.startWrites = @ + 1])
    /\ rows' = [rows EXCEPT ![i] = [NoRow EXCEPT !.exists = TRUE]]
    /\ prober' = [prober EXCEPT ![i] = "loop"]
    /\ orch' = [orch EXCEPT !.i = i + 1]
    /\ UNCHANGED <<wg, msg, after, ctxDone, collector, colRes, colSnap,
                   failedWorkload, del>>

\* The dispatch RPC succeeds: unless an earlier workload failed, the task
\* row gets Status="running" and a new StartAt; the prober is started.
DispatchOk ==
    LET i == orch.i IN
    /\ orch.pc = "dispatch" /\ i <= orch.n
    /\ orch.type = "vm" \/ "found" \in AgentLookup
    /\ "ok" \in DispatchResults
    /\ IF orch.firstFail THEN UNCHANGED task
       ELSE UpdateTask([task EXCEPT !.status = "running",
                                    !.startWrites = @ + 1])
    /\ rows' = [rows EXCEPT ![i] = [NoRow EXCEPT !.exists = TRUE]]
    /\ prober' = [prober EXCEPT ![i] = "loop"]
    /\ orch' = [orch EXCEPT !.i = i + 1]
    /\ UNCHANGED <<wg, msg, after, ctxDone, collector, colRes, colSnap,
                   failedWorkload, del>>

\* After the loop one collector goroutine is started per workload; the
\* collector of a workload whose dispatch failed reads a nil channel.
\* Mutant of StartCollectors: the loop runs for i := 0; i <= len(workloads).
StartCollectorsOffByOne ==
    /\ orch.pc = "dispatch" /\ orch.i = orch.n + 1
    /\ collector' = [w \in 0..MaxWorkloads |-> IF w <= orch.n THEN "waiting" ELSE "off"]
    /\ orch' = [orch EXCEPT !.pc = "wait"]
    /\ UNCHANGED <<task, rows, wg, prober, msg, after, ctxDone, colRes, colSnap,
                   failedWorkload, del>>

StartCollectors ==
    /\ orch.pc = "dispatch" /\ orch.i = orch.n + 1
    /\ collector' = [w \in Wl |-> IF w <= orch.n THEN "waiting" ELSE "off"]
    /\ orch' = [orch EXCEPT !.pc = "wait"]
    /\ UNCHANGED <<task, rows, wg, prober, msg, after, ctxDone, colRes, colSnap,
                   failedWorkload, del>>

\* wg.Wait() returns; len(failedWorkload) decides the terminal row, and on
\* return the deferred cancel() calls fire every prober's context.
Finish ==
    /\ orch.pc = "wait" /\ wg = 0
    /\ UpdateTask(
          [task EXCEPT !.status = "finished",
                       !.success = IF failedWorkload = {} THEN "true" ELSE "false",
                       !.err = IF failedWorkload = {} THEN @ ELSE "list",
                       !.errList = IF failedWorkload = {} THEN @ ELSE failedWorkload])
    /\ orch' = [orch EXCEPT !.pc = "done"]
    /\ ctxDone' = [w \in Wl |-> ctxDone[w] \/ prober[w] # "off"]
    /\ UNCHANGED <<rows, wg, prober, msg, after, collector, colRes, colSnap,
                   failedWorkload, del>>

-----------------------------------------------------------------------------
(* The prober goroutines.  Each iteration of the for/select first checks *)
(* ctx.Done(), which wins over the default branch once it has fired.     *)

\* The context deadline (300 s) fires.
Expire(w) ==
    /\ prober[w] \notin {"off", "exited"}
    /\ ~ctxDone[w]
    /\ ctxDone' = [ctxDone EXCEPT ![w] = TRUE]
    /\ UNCHANGED <<task, rows, orch, wg, prober, msg, after, collector, colRes,
                   colSnap, failedWorkload, del>>

\* setStatus(taskWorkload, ok, pods, err, ch): update the workload row, then
\* block on the unbuffered channel send; `next` is what follows the send.
SetStatus(w, ok, err, row, next) ==
    /\ UpdateRow(w, row)
    /\ prober' = [prober EXCEPT ![w] = "sending"]
    /\ msg' = [msg EXCEPT ![w] = [ok |-> ok, err |-> err]]
    /\ after' = [after EXCEPT ![w] = next]

\* case <-ctx.Done(): setStatus(false, "TIMEOUT and TERMINATED"), then
\* sleep, wg.Done() and return.
ProbeTimeout(w) ==
    /\ prober[w] = "loop" /\ ctxDone[w]
    /\ SetStatus(w, FALSE, "timeout", [rows[w] EXCEPT !.err = "timeout"],
                 "exit")
    /\ UNCHANGED <<task, orch, wg, ctxDone, collector, colRes, colSnap,
                   failedWorkload, del>>

\* getWorkloadStatus: GetAgent fails inside the loop and the goroutine
\* returns without sending and without wg.Done().
ProbeAgentMissing(w) ==
    /\ prober[w] = "loop" /\ ~ctxDone[w]
    /\ orch.type = "k8s" /\ "missing" \in AgentLookup
    /\ prober' = [prober EXCEPT ![w] = "exited"]
    /\ UNCHANGED <<task, rows, orch, wg, msg, after, ctxDone, collector, colRes,
                   colSnap, failedWorkload, del>>

\* getWorkloadStatus: GetPodStatus returns an error; setStatus(false, err)
\* sends a failure on the channel and the loop continues (no wg.Done()).
ProbeRpcErr(w) ==
    /\ prober[w] = "loop" /\ ~ctxDone[w]
    /\ orch.type = "k8s" /\ "found" \in AgentLookup /\ "rpcErr" \in ProbeResults
    /\ SetStatus(w, FALSE, "probe", [rows[w] EXCEPT !.err = "probe"],
                 "retry")
    /\ UNCHANGED <<task, orch, wg, ctxDone, collector, colRes, colSnap,
                   failedWorkload, del>>

\* getWorkloadStatus: some pod has Ready == "False"; the pod statuses are
\* written to the row and the loop sleeps and retries.
ProbeNotReady(w) ==
    /\ prober[w] = "loop" /\ ~ctxDone[w]
    /\ orch.type = "k8s" /\ "found" \in AgentLookup /\ "notReady" \in ProbeResults
    /\ UpdateRow(w, [rows[w] EXCEPT !.status = "notReady"])
    /\ UNCHANGED <<task, orch, wg, prober, msg, after, ctxDone, collector,
                   colRes, colSnap, failedWorkload, del>>

\* Mutant of ProbeReady: wg.Done() forgotten after the success report.
ProbeReadyNoDone(w) ==
    /\ prober[w] = "loop" /\ ~ctxDone[w]
    /\ orch.type = "k8s" /\ "found" \in AgentLookup /\ "ready" \in ProbeResults
    /\ SetStatus(w, TRUE, "none", [rows[w] EXCEPT !.status = "ready"],
                 "retry")
    /\ UNCHANGED <<task, orch, wg, ctxDone, collector, colRes, colSnap,
                   failedWorkload, del>>

\* Mutant of ProbeReady: wg.Done() before the result is handed over.
ProbeReadyDoneFirst(w) ==
    /\ prober[w] = "loop" /\ ~ctxDone[w]
    /\ orch.type = "k8s" /\ "found" \in AgentLookup /\ "ready" \in ProbeResults
    /\ SetStatus(w, TRUE, "none", [rows[w] EXCEPT !.status = "ready"],
                 "again")
    /\ wg' = wg - 1
    /\ UNCHANGED <<task, orch, ctxDone, collector, colRes, colSnap,
                   failedWorkload, del>>

\* getWorkloadStatus: every pod is ready; the statuses are written, then
\* setStatus(true, pods, nil) sends, wg.Done() runs, and `break` leaves only
\* the select, so the goroutine goes round the for loop again.
ProbeReady(w) ==
    /\ prober[w] = "loop" /\ ~ctxDone[w]
    /\ orch.type = "k8s" /\ "found" \in AgentLookup /\ "ready" \in ProbeResults
    /\ SetStatus(w, TRUE, "none", [rows[w] EXCEPT !.status = "ready"],
                 "again")
    /\ UNCHANGED <<task, orch, wg, ctxDone, collector, colRes, colSnap,
                   failedWorkload, del>>

\* getVmStatus: the health check fails; the row's Status gets the error and
\* the loop sleeps and retries.
ProbeHealthErr(w) ==
    /\ prober[w] = "loop" /\ ~ctxDone[w]
    /\ orch.type = "vm" /\ "healthErr" \in ProbeResults
    /\ UpdateRow(w, [rows[w] EXCEPT !.status = "healthErr"])
    /\ UNCHANGED <<task, orch, wg, prober, msg, after, ctxDone, collector,
                   colRes, colSnap, failedWorkload, del>>

\* getVmStatus: the health check succeeds; setStatus(true, nil, nil) sends,
\* then sleep, wg.Done() and the same select-only `break`.
ProbeHealthOk(w) ==
    /\ prober[w] = "loop" /\ ~ctxDone[w]
    /\ orch.type = "vm" /\ "healthOk" \in ProbeResults
    /\ SetStatus(w, TRUE, "none", rows[w], "again")
    /\ UNCHANGED <<task, orch, wg, ctxDone, collector, colRes, colSnap,
                   failedWorkload, del>>

\* Mutant of Send: the collector ranges over its channel instead of
\* receiving once.
SendCollectorLoops(w) ==
    /\ prober[w] = "sending" /\ collector[w] = "waiting"
    /\ colRes' = [colRes EXCEPT ![w] = msg[w]]
    /\ collector' = [collector EXCEPT ![w] = IF msg[w].ok THEN "waiting" ELSE "got"]
    /\ prober' = [prober EXCEPT ![w] = IF after[w] = "retry" THEN "loop" ELSE "wgDone"]
    /\ UNCHANGED <<task, rows, orch, wg, msg, after, ctxDone, colSnap,
                   failedWorkload, del>>

\* The send `ch <- r` completes when the collector of the same workload is
\* receiving: res = <-ch_comsume.  A collector that received a success is
\* done; one that received a failure goes on to append it.
Send(w) ==
    /\ prober[w] = "sending" /\ collector[w] = "waiting"
    /\ colRes' = [colRes EXCEPT ![w] = msg[w]]
    /\ collector' = [collector EXCEPT ![w] = IF msg[w].ok THEN "exited" ELSE "got"]
    /\ prober' = [prober EXCEPT ![w] = IF after[w] = "retry" THEN "loop" ELSE "wgDone"]
    /\ UNCHANGED <<task, rows, orch, wg, msg, after, ctxDone, colSnap,
                   failedWorkload, del>>

\* wg.Done() after a completed send: back round the loop after a success,
\* return after a timeout.
WgDone(w) ==
    /\ prober[w] = "wgDone"
    /\ wg' = wg - 1
    /\ prober' = [prober EXCEPT ![w] = IF after[w] = "exit" THEN "exited" ELSE "loop"]
    /\ UNCHANGED <<task, rows, orch, msg, after, ctxDone, collector, colRes,
                   colSnap, failedWorkload, del>>

(* failedWorkload = append(failedWorkload, res.ToString()) runs in every   *)
(* collector goroutine without a lock: the read of the slice and the write *)
(* of the appended slice are separate steps, and the orchestrator reads    *)
(* len(failedWorkload) after wg.Wait() with no happens-before edge to it.  *)

CollectorRead(w) ==
    /\ collector[w] = "got"
    /\ colSnap' = [colSnap EXCEPT ![w] = failedWorkload]
    /\ collector' = [collector EXCEPT ![w] = "read"]
    /\ UNCHANGED <<task, rows, orch, wg, prober, msg, after, ctxDone, colRes,
                   failedWorkload, del>>

CollectorWrite(w) ==
    /\ collector[w] = "read"
    /\ failedWorkload' = colSnap[w] \cup {w}
    /\ collector' = [collector EXCEPT ![w] = "exited"]
    /\ UNCHANGED <<task, rows, orch, wg, prober, msg, after, ctxDone, colRes,
                   colSnap, del>>

-----------------------------------------------------------------------------
(* DeleteHistory: DELETE the task row by id, then DELETE its workload rows *)
(* by task_history_id, as two statements outside a transaction.           *)

DeleteTask ==
    /\ del.pc = "idle" /\ del.count < DeleteRequests
    /\ orch.pc # "idle"
    /\ task' = NoTask
    /\ del' = [pc |-> "taskDeleted", count |-> del.count + 1]
    /\ UNCHANGED <<rows, orch, wg, prober, msg, after, ctxDone, collector,
                   colRes, colSnap, failedWorkload>>

DeleteWorkloads ==
    /\ del.pc = "taskDeleted"
    /\ rows' = [w \in Wl |-> NoRow]
    /\ del' = [del EXCEPT !.pc = "idle"]
    /\ UNCHANGED <<task, orch, wg, prober, msg, after, ctxDone, collector,
                   colRes, colSnap, failedWorkload>>

-----------------------------------------------------------------------------

Prober(w) ==
    \/ Expire(w)
    \/ ProbeTimeout(w)
    \/ ProbeAgentMissing(w)
    \/ ProbeRpcErr(w)
    \/ ProbeNotReady(w)
    \/ ProbeReady(w)
    \/ ProbeHealthErr(w)
    \/ ProbeHealthOk(w)
    \/ Send(w)
    \/ WgDone(w)

Collector(w) == CollectorRead(w) \/ CollectorWrite(w)

Orchestrator ==
    \/ RunTask
    \/ DispatchAgentMissing
    \/ DispatchFailed
    \/ DispatchOk
    \/ StartCollectors
    \/ Finish

Next ==
    \/ Orchestrator
    \/ \E w \in Wl : Prober(w) \/ Collector(w)
    \/ DeleteTask
    \/ DeleteWorkloads

(* Goroutines are scheduled fairly by the Go runtime and a context         *)
(* deadline always fires; the DeleteHistory client need not act.          *)
Fairness ==
    /\ WF_vars(Orchestrator)
    /\ \A w \in Wl : /\ WF_vars(Prober(w))
                    /\ WF_vars(Expire(w))
                    /\ WF_vars(Collector(w))

Spec == Init /\ [][Next]_vars

FairSpec == Spec /\ Fairness

-----------------------------------------------------------------------------
(* Properties.                                                             *)

\* The collector of w has received a result from its channel.
Delivered(w) == colRes[w] # NoResult

TypeOK ==
    /\ task \in TaskRow
    /\ rows \in [Wl -> WlRow]
    /\ orch \in [pc : {"idle", "rejected", "detached", "dispatch", "aborted",
                       "wait", "done"},
                 type : DeployTypes \cup {"none"}, n : 0..MaxWorkloads,
                 i : 1..MaxWorkloads + 1, firstFail : BOOLEAN]
    /\ wg \in Int
    /\ prober \in [Wl -> {"off", "loop", "sending", "wgDone", "exited"}]
    /\ msg \in [Wl -> Result]
    /\ after \in [Wl -> {"retry", "again", "exit"}]
    /\ ctxDone \in [Wl -> BOOLEAN]
    /\ collector \in [Wl -> {"off", "waiting", "got", "read", "exited"}]
    /\ colRes \in [Wl -> Result]
    /\ colSnap \in [Wl -> SUBSET Wl]
    /\ failedWorkload \subseteq Wl
    /\ del \in [pc : {"idle", "taskDeleted"}, count : 0..DeleteRequests]

\* The WaitGroup counter never goes below zero (sync panics with "negative
\* WaitGroup counter").  A prober that reported success loops on (the
\* select-only `break` in getWorkloadStatus / getVmStatus) and may report
\* again; only the single receive of its collector keeps that second
\* report, and the wg.Done() after it, from happening.
WaitGroupNeverNegative == wg >= 0

\* When wg.Wait() has returned and the task row is written, every started
\* prober has handed its result to its collector: the terminal write is
\* not taken before some workload has reported.
WaitCoversEveryProber ==
    orch.pc = "done" => \A w \in Wl : prober[w] # "off" => Delivered(w)

\* Every submitted task's execution completes: executeWorkload / executeVm
\* returns after writing the terminal row (or RunTask rejects the request).
TaskCompletes == <>(orch.pc \in {"done", "rejected"})


\* A task finished with Success=true had no workload that reported a
\* failure (spec section 8, property 1).
AggregateCorrect ==
    (task.status = "finished" /\ task.success = "true")
        => \A w \in Wl : Delivered(w) => colRes[w].ok

\* Once the task row is finished, its workload rows are history: no step
\* other than DeleteHistory changes them.
RowsFrozenAfterFinish ==
    [][(task.status = "finished" /\ task'.status = "finished") => rows' = rows]_vars

\* After DeleteHistory has completed, no workload row of the task is left
\* (spec section 3: workload rows are removed together with their task).
NoOrphanRows ==
    (del.count > 0 /\ del.pc = "idle") => \A w \in Wl : ~rows[w].exists


\* StartAt is written at most once per task (spec section 8, property 3),
\* however many workloads there are and however many dispatches fail.
StartAtSetOnce == task.startWrites <= 1

\* The task row seen as the specification's task state machine.
Lifecycle == INSTANCE TaskLifecycle
                WITH status <- task.status, success <- task.success

\* RunTask, the dispatch loop, the terminal write after wg.Wait() and
\* DeleteHistory change the task row only as the specification's state
\* machine allows (TaskLifecycle): "running" only while no dispatch failure
\* is recorded, Success=true only for a task without one, no write to a
\* deleted row, no terminal status regressed.
LifecycleRefined == Lifecycle!Spec

=============================================================================
