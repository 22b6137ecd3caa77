----------------------------- MODULE TaskServer -----------------------------
(***************************************************************************)
(* The RunTask request of server/internal/logic/task/runtasklogic.go over *)
(* every deploy type: after the application lookup, RunTask starts        *)
(* executeWorkload ("容器"), executeVm ("虚拟机"), executeHttp ("HTTP") or  *)
(* nothing, by application.DeployType (runtasklogic.go:97-103).  The      *)
(* cluster and VM execution is the RunTask module, the HTTP execution the *)
(* HttpTask module; the request starts exactly one of them, so each step *)
(* of the composition is a step of one component that leaves the other's *)
(* variables alone, and a component steps only while the other has not   *)
(* been started.                                                          *)
(***************************************************************************)
EXTENDS Naturals

CONSTANTS
    DeployTypes,      \* application.DeployType: "k8s", "vm", "http", "other"
    MaxWorkloads, AppLookup, AgentLookup, DispatchResults, ProbeResults,
    DeleteRequests,   \* as in RunTask
    Submissions, DeployResults, ResponseMarker, CheckResults  \* as in HttpTask

ASSUME DeployTypes \subseteq {"k8s", "vm", "http", "other"}

VARIABLES
    task, rows, orch, wg, prober, msg, after, ctxDone, collector, colRes,
    colSnap, failedWorkload, del,                   \* executeWorkload / executeVm
    httpTask, httpRow, httpPc, httpCtxDone, lastCheck, pending, httpDel
                                                    \* executeHttp

workloadVars == <<task, rows, orch, wg, prober, msg, after, ctxDone, collector,
                  colRes, colSnap, failedWorkload, del>>
httpVars == <<httpTask, httpRow, httpPc, httpCtxDone, lastCheck, pending,
              httpDel>>
vars == <<workloadVars, httpVars>>

Workload == INSTANCE RunTask WITH DeployTypes <- DeployTypes \ {"http"}

Http == INSTANCE HttpTask
            WITH task <- httpTask, row <- httpRow, pc <- httpPc,
                 ctxDone <- httpCtxDone, del <- httpDel

\* Neither execution has been started by a RunTask request yet.
WorkloadIdle == orch.pc = "idle"
HttpIdle     == \A e \in Http!Ex : httpPc[e] = "idle"

\* A step of the cluster/VM execution, or of the HTTP execution, when the
\* request started that one (or is starting it).
WorkloadStep(A) == A /\ HttpIdle /\ UNCHANGED httpVars
HttpStep(A) == /\ "http" \in DeployTypes /\ WorkloadIdle
               /\ A /\ UNCHANGED workloadVars

Init == Workload!Init /\ Http!Init

Next == WorkloadStep(Workload!Next) \/ HttpStep(Http!Next)

Spec == Init /\ [][Next]_vars

(* The fairness of each component, stated on the composed steps: a        *)
(* goroutine of the execution RunTask started is scheduled, a context      *)
(* deadline fires; the request itself arrives (as in RunTask).            *)
Fairness ==
    /\ WF_vars(WorkloadStep(Workload!Orchestrator))
    /\ \A w \in Workload!Wl :
          /\ WF_vars(WorkloadStep(Workload!Prober(w)))
          /\ WF_vars(WorkloadStep(Workload!Expire(w)))
          /\ WF_vars(WorkloadStep(Workload!Collector(w)))
    /\ \A e \in Http!Ex :
          /\ WF_vars(HttpStep(Http!Execution(e)))
          /\ WF_vars(HttpStep(Http!Expire(e)))

FairSpec == Spec /\ Fairness

-----------------------------------------------------------------------------
(* Properties: those of the components, over the composition.             *)

TypeOK == Workload!TypeOK /\ Http!TypeOK

\* When wg.Wait() has returned and the task row is written, every started
\* prober of executeWorkload / executeVm has handed its result over.
WaitCoversEveryProber == Workload!WaitCoversEveryProber

\* The WaitGroup counter of executeWorkload / executeVm never goes below
\* zero, although a prober that reported success polls on.
WaitGroupNeverNegative == Workload!WaitGroupNeverNegative

\* A failed Httpdeploy short-circuits executeHttp: no check is made and
\* the task is "terminated", never "running" (spec scenario C).
DeployFailureShortCircuits == Http!DeployFailureShortCircuits

\* Whatever backend RunTask starts, the task row changes only as the
\* specification's task state machine allows.
LifecycleRefined == Workload!LifecycleRefined /\ Http!LifecycleRefined

\* A request that started executeWorkload or executeVm (or was rejected)
\* completes with the terminal task row written.
TaskCompletes == orch.pc # "idle" ~> orch.pc \in {"done", "rejected"}

\* Every execution of executeHttp completes with its terminal rows written.
HttpTaskCompletes == Http!HttpTaskCompletes

=============================================================================
