# TLA+ models of the lizardcd task runner

These modules model the task execution path of the lizardcd server. That path is `RunTask` and its three backends in `server/internal/logic/task/runtasklogic.go`, together with `DeleteHistory`. They also model the single backend calls those paths make: `Httpdeploy` and `Httpcheck`, the VM `Deploy` and `Healthcheck`, and the agent's `VmDeploy` and `VmHealthCheck`, as well as `ScaleStatefulset`; the response-marker substitution of the HTTP backend; and the tenant view of the agent registry (`Listservices`, `Listtargets` and the helpers of `common/utils/common.go`). An abstract specification of the task row's state machine, `TaskLifecycle`, states what the specification promises; both task modules are checked to implement it. TLC checks the models. `PROJECT.json` lists, for every definition, the source lines it models, along with the runs, their mutants, the findings and the hazards.

## The system

A `RunTask` request proceeds as follows:

1. It looks up the application.
2. It `Save`s the `task_history` row at `initialize`. The id is the caller's `req.Id` when one is given.
3. It deletes the id's old `task_history_workload` rows.
4. It starts one goroutine for the application's deploy type, on the request's workloads (possibly none). A deploy type other than the three below starts nothing, and the request still answers success:

* **Cluster (`executeWorkload`).** Each workload is dispatched in turn:
  1. `Create` the workload row.
  2. `GetAgent`.
  3. `PatchDeployment` / `RolloutDeployment`.
  4. Write the row: failure sets `Success=false`, success sets `running`. Both write `StartAt`.
  5. For a successful dispatch, start a prober goroutine (`getWorkloadStatus`) with a 300 s context.

  After the loop, one collector goroutine per workload receives once from that workload's unbuffered channel. A collector that received a failure appends it to the shared slice `failedWorkload`. `wg.Wait()` waits for a `sync.WaitGroup` sized to the number of workloads. `len(failedWorkload)` then decides the terminal row `finished` with its `Success`.

  Each prober polls `GetPodStatus` until every pod is ready or the context expires. It reports through `setStatus`, which updates the workload row and then sends on the channel.
* **VM (`executeVm`).** The same shape. The dispatch is the server's `Deploy`, which calls the agent's `VmDeploy`. The prober (`getVmStatus`) calls `Healthcheck`, which calls the agent's `VmHealthCheck`. A failing health check is retried.
* **HTTP (`executeHttp`).** One workload row and one `Httpdeploy`. A deploy failure writes `terminated`. Otherwise an optional `{{response$...}}` marker in the check path is resolved against the deploy response, the task is written `running`, and `getHttpStatus` polls `Httpcheck` until it reports finished, fails, or the 300 s context expires. `setHttpStatus` then writes the task row `finished` and, as a separate statement, the workload row.

`Listservices` and `Listtargets` are read-only requests over the server's `AgentList`, the agents registered under keys `<ServicePrefix>lizardcd-agent(_vm).<namespace>.<cluster or address>`. They parse each key with a regexp and show a non-admin caller only the agents of the namespaces named in the JWT claim.

`DeleteHistory` is an independent request. It deletes the task row and then the workload rows, as two statements outside a transaction. Every row update in these paths is gorm's `Model(&x).Updates(...)`, an `UPDATE ... WHERE id = ?`. Such an update changes nothing once its row has been deleted.

## Modules

| Module | Models | State | Actions |
|---|---|---|---|
| `RunTask` | `RunTask` + `executeWorkload`/`getWorkloadStatus` (deploy type `k8s`) or `executeVm`/`getVmStatus` (deploy type `vm`), `setStatus`, and `DeleteHistory` | `task` and `rows` (the database rows; `task.startWrites` counts the writes of `StartAt`); `orch` (the execute goroutine's pc, deploy type, workload count `n`, loop index and `firstFail`); `wg`; `prober`, `msg`, `after` and `ctxDone` per workload (prober pc, the result being sent, what follows the send, the context); `collector`, `colRes` and `colSnap` per workload; `failedWorkload`; `del` | `RunTask` (which picks the deploy type from `DeployTypes` and `n` from `0..MaxWorkloads`; `Submitted` is the goroutine it starts); one dispatch-loop iteration per outcome (`DispatchAgentMissing`, `DispatchFailed`, `DispatchOk`); `StartCollectors`; `Finish` (`wg.Wait` and the terminal write, plus the deferred `cancel`s); one prober action per branch of the `for`/`select` (`ProbeTimeout`, `ProbeAgentMissing`, `ProbeRpcErr`, `ProbeNotReady`, `ProbeReady`, `ProbeHealthErr`, `ProbeHealthOk`); `Send` (the unbuffered rendezvous with the collector); `WgDone`; `CollectorRead` and `CollectorWrite` (the two halves of the unlocked `append`); `Expire`; `DeleteTask` and `DeleteWorkloads` |
| `HttpTask` | `RunTask` + `executeHttp`, `getHttpStatus`, `setHttpStatus`, and `DeleteHistory`, for `Submissions` executions of the same task id | `task` (with `by`, the execution whose write it holds); and per execution `row`, `pc`, `ctxDone`, `lastCheck`, `pending` (the message `setHttpStatus` still has to write); `del` | `RunTask(e)`, `CreateRow`, `DeployFailed`, `DeployOk`, `DeployMarkerUnresolved`, `MarkRunning`, `Check` (one `Httpcheck` call and what `getHttpStatus` does with it), `CheckTimeout`, `SetRowMessage`, `Expire`, `DeleteTask`, `DeleteWorkloads` |
| `BackendCalls` | `Httpdeploy`, `Httpcheck`, server `Healthcheck` + agent `VmHealthCheck`, server `Deploy` + agent `VmDeploy`, `utils.Unarchive`, and `ScaleStatefulset` | — (pure operators) | Each call is a chain of `IF` early returns in the code's order, over abstract configurations (`DeployCfg`, `CheckCfg`, `HealthCfg`, `VmCfg`) and remote behaviours (`...Resp`). `ClassifyCheck` maps an `Httpcheck` result to the outcome classes `HttpTask` uses. `ScaleLoop` is the `for` loop over `req.Workloads` as a `RECURSIVE` operator over a sequence of `ScaleWorkload`s (`Disabled`, what the RPC does). |
| `TaskServer` | `RunTask`'s switch on the deploy type (`runtasklogic.go:97-103`), composing `RunTask` (deploy types other than `http`) and `HttpTask` | the variables of both, `HttpTask`'s renamed by `INSTANCE ... WITH` | `Next` is a step of one component that leaves the other's variables alone, taken only while the other component has not been started, since one request starts exactly one backend. `Fairness` restates both components' fairness on the composed steps. |
| `ResponseTemplate` | The marker code: `executeHttp`'s `{{response$...}}` (`runtasklogic.go:339-353`), `Httpcheck`'s message `{{$...}}` (`httpchecklogic.go:93-104`), `jsonpath.JsonPathLookup`, `utils.AnyToString`, `strings.ReplaceAll` | — (pure operators) | Strings are token sequences. `FindStringSubmatch` is Go's leftmost-first match of `.*(\{\{<prefix>(\$.*)\}\}).*`: the marker starts at the last `{{<prefix>$` that a `}}` follows, and ends at the last `}}`. `StringsReplaceAll` is `RECURSIVE`. `ResolveCheckTarget` and `CheckMessage` are the two handlers' branches. |
| `AgentRegistry` | `Listservices`, `Listtargets`, `utils.GetServiceMata`, `GetTarget`, `GetPayload`, `GetLizardAgentKey` | — (pure operators) | `MatchAt` and `LazyGroups` are the regexp `<lead>\.(.+?)\.(.+)` at one position: the lazy group ends at the first `.` that leaves a token after it. `GetServiceMata` tries `_vm` before the empty alternative, at the leftmost start. `StringsSplit` is `strings.Split`. A handler's slice, built by map iteration in no fixed order, is the set of what it appends. |
| `AgentHost` | What the agent's `VmDeploy` (`vmdeploylogic.go:41-134`) and shell `VmHealthCheck` (`vmhealthchecklogic.go:56-77`) do to the VM host | — (pure operators over a host record: `files`, `defers`, `ran`, `failed`) | One request is sequential, so it is `Exec`, a `RECURSIVE` fold over `Steps(c)` in code order that stops at the first failing step. `Write` is `os.WriteFile` or the download. It has three outcomes: `ok`, `errNoFile` (the file was never created) and `errPartial` (the file was created, then the write failed). `RunScript` is `cmd.Run`, then `defer os.Remove`, then the error test. `UnarchiveStep` defers the package's removal before its error test. At return, `VmDeployHost` removes the deferred files. |
| `BackendContracts` | The contracts spec sections 4.2, 6 and 8 give those calls, a declarative reference for `ScaleStatefulset`, the spec's `Substitute`, and the registrations the registry keys were built from | `call`, one input per initial state | — |
| `TaskLifecycle` | The task row's state machine of spec sections 4.1, 4.5, 5 and 7 | `status`, `success` | `Submit` (from no row or a terminal one), `Start` (`initialize` → `running`, only with no failure recorded), `RecordFailure`, `Finish` (`Success=true` only with no failure recorded), `Terminate` (HTTP: `initialize` → `terminated`), `Delete` |
| `MCTaskServer`, `MCRunTask`, `MCHttpTask` | The bounds | | |

Remote calls are nondeterministic choices over the outcomes that the constants (`AgentLookup`, `DispatchResults`, `ProbeResults`, `DeployResults`, `ResponseMarker`, `CheckResults`) allow. `BackendCalls` shows which outcomes each call can really produce. Sleeps are left out, because a sleep only delays a step and the interleaving already covers every delay. The 300 s deadline is the action `Expire`, which may fire at any time while a prober runs.

A goroutine's straight-line code between two points where another actor can act is one action. Those points are a channel operation, a database write that another goroutine reads, and a return. Where a line of Go is two steps that race, the model splits it. The collector's `append` is a read of the slice (`CollectorRead`) and a write of the appended slice (`CollectorWrite`). `setHttpStatus` is two `Updates` (`SetHttpStatus`, then `SetRowMessage`).

A panic in the `getHttpStatus` goroutine (a check method other than get/post) ends the process. `Check` with `r = "noCheck"` therefore sets every started execution to `crashed`, and no further `RunTask` is served.

## Runs

Every run of a task module uses `CHECK_DEADLOCK FALSE`. The goroutines really do stop, or block forever, and a finished task leaves every actor idle. `backend_contracts` keeps the deadlock check: its `Next` is a stuttering step, so it never deadlocks.

| Run | Module | Expect | Checks | Shows |
|---|---|---|---|---|
| `task_safety` | MCTaskServer | pass | `TypeOK`, `WaitCoversEveryProber`, `DeployFailureShortCircuits`, `LifecycleRefined` | RunTask over the `k8s`, `vm`, `http` and an unknown deploy type. It covers zero to two workloads, missing agents, failing dispatches, probe errors, every check outcome, a response marker that resolves or is absent, a resubmission of the HTTP id after a terminal status, and a concurrent `DeleteHistory` (44,729 states). `wg.Wait` never returns before every started prober has delivered its result. A failed `Httpdeploy` ends its execution before any check. Whatever backend runs, the task row moves only as `TaskLifecycle` allows. |
| `task_live` | MCTaskServer | pass | `WaitGroupNeverNegative`, `TaskCompletes`, `HttpTaskCompletes` | Agents are registered, dispatches succeed, and checks use get or post. Under these conditions every `k8s`, `vm` and `http` task, zero workloads included, reaches its terminal rows, whatever the pods, health checks and `Httpcheck` report. The WaitGroup counter never goes negative, so there is no double `wg.Done`. The unknown deploy type is left out: it starts no goroutine and stays `initialize`. |
| `backend_contracts` | BackendContracts | pass | `HttpdeployMeetsContract`, `HttpcheckMeetsContract`, `HealthcheckMeetsContract`, `ScaleMeetsContract`, `MessageSound`, `ServicesScoped`, `TargetsScoped`, `TempFilesRemoved` | Over all 44,745 inputs:<br>• `Httpdeploy`, `Httpcheck` (get/post) and the VM `Healthcheck` return what their contracts say. The VM `Deploy` does not, and is not checked: see Findings.<br>• `ScaleStatefulset` fails exactly when an enabled workload's RPC fails, and has then scaled exactly the enabled workloads before it, with no rollback.<br>• For every template of up to five tokens with at most one marker, `Httpcheck` builds the contract's message whenever it reads the marker right.<br>• `Listservices` and `Listtargets` show each caller exactly the agents of the namespaces in their claim, and show an admin every agent. This holds for cluster names and host addresses that contain dots.<br>• Whichever step of `VmDeploy` or of a shell `VmHealthCheck` fails, every temporary script and package the call wrote completely is gone from the host when it returns. Only a write that broke off before its `defer` was registered leaves a file. |
| `start_at_rewritten` | MCRunTask | violation | `StartAtSetOnce` | Every failed dispatch (`:162`), and every successful one before the first failure (`:172-176`), writes `StartAt`, so two dispatches write it twice (spec section 8 property 3 says once). |
| `dispatch_failure_hangs` | MCRunTask | violation | `TaskCompletes` | A failed dispatch never calls `wg.Done`, so the task never finishes (spec scenario B says it finishes with success=false). |
| `aggregation_race` | MCRunTask | violation | `AggregateCorrect` | A prober's send and `wg.Done` give no happens-before with its collector's `append` (`:192`), so `Finish` can read `failedWorkload` before the failure is appended. TLC's trace has one VM workload that times out, and the task finishes with `Success=true`. Two collectors racing on the `append` cannot cause this, because one of the appends survives. |
| `rows_after_finish` | MCRunTask | violation | `RowsFrozenAfterFinish` | The `break` leaves only the `select`, so a successful prober polls on. The deferred `cancel` then makes it write TIMEOUT into its row after the task has finished. |
| `orphan_rows` | MCRunTask | violation | `NoOrphanRows` | `DeleteHistory` during the dispatch loop leaves a workload row that was created after its second `DELETE`. The cause is the loop's `Create` (`:135`) coming after both `DELETE`s; a transaction around them would not help. |
| `http_marker_unresolved` | MCHttpTask | violation | `TerminalNeverRegresses` | An unresolved response marker writes `terminated` and then `running`. |
| `http_check_panic` | MCHttpTask | violation | `HttpTaskCompletes` | A check method other than get/post panics on `res.Data.(types.HttpcheckResponse)`. The server dies, and no execution in flight reaches its terminal write. (TLC's trace deletes the task first.) |
| `check_error_terminal` | MCHttpTask | violation | `FailureOnlyByCheckOrDeadline` | One failed `Httpcheck` call (a transport error or a non-2xx answer) ends the task `finished` with `Success=false` at once (`:477`). Spec sections 4.3 step 3 and 7 (c) say such an error is retried until the deadline. |
| `message_contract` | BackendContracts | violation | `MessageMeetsContract` | A `MsgJsonpath` without a `{{$...}}` marker yields an empty message. Spec section 8 property 5 says the template is returned unchanged. TLC's counterexample is the template `$`. |

Each property of each passing run has a mutant in `PROJECT.json`. The mutant is an operator defined just before the definition it replaces, and it changes that definition the way a plausible bug would. Examples: `wg.Done()` before the send, the `!firstFail` test dropped, `Save` in place of `Updates`, a scale loop that `continue`s past an error, a forgotten `wg.Done`, a missing `return`, a deferred removal moved after the error test, finished and success swapped. Under the run's own cfg, TLC finds the property violated for each one.

### Bounds

* **Zero to two workloads** (`MaxWorkloads = MCTwoWorkloads`, the request picks its count). With two, one prober can finish while the other is still being dispatched or probed, and two collectors can race on the append (which loses a list entry, never the verdict); every hazard needs at most two. Zero is the edge case of spec section 8 property 1. With three, the state space grows without adding a new interleaving kind.
* **Two submissions** (`MCSubmissions`) of one HTTP task id. This is the first execution and one resubmission, the least that shows a stale goroutine writing the new task.
* **One `DeleteHistory`** request (`DeleteRequests`), which is concurrent with everything.
* Remote outcomes are small sets of classes, each a branch in the code.
* **Templates of up to five tokens** (`MaxTemplate`) over `{{`, `}}`, `response`, `$`, `a` and `t`. Five tokens suffice for a marker with a text token before or after it, for two markers, for a stray `}}` after a marker, and for an unclosed `{{`. The JSON document answers `$` and `$.a`, so a path query may resolve or find nothing.
* **Registry keys** of cluster and VM agents in namespaces `a`, `b` and `ab`, with a cluster or address of `1` or `1.2`, at most two agents per registry, plus possibly one key of another service. Callers are an admin or not, with a claim of `""`, `a`, `a,b` or `ab`. The address `1.2` is what separates a lazy namespace group from a greedy one, and `ab` against `a` what separates an exact namespace match from a prefix match.
* **Host outcomes.** Every write is `ok`, `errNoFile` or `errPartial`, and every script run and unpack is `ok` or `err`, with and without a `pre_command` and a deploy user. That makes every failing step, and every step after which a later one can fail, a case of its own.
* **Scale requests of up to three workloads** (`MaxScale`), so a failing RPC can come before, between or after enabled and disabled workloads.

`backend_contracts` enumerates the product of each call's configuration fields and response fields. Every field is a branch the code takes.

### Fairness

`FairSpec` (RunTask, and `TaskServer`, which restates both components' conditions on its composed steps) and `Spec` (HttpTask) assume weak fairness of each goroutine: the orchestrator, each prober, each collector and each HTTP execution. They also assume weak fairness of each `Expire`. The Go scheduler runs every runnable goroutine eventually, and a `context.WithTimeout` deadline always fires. The caller (`RunTask`) and the `DeleteHistory` client are not fair, because neither has to send a request.

`task_live` leaves out the outcomes that are already known to hang: failed dispatches, probe errors and missing agents. Each of these violates `TaskCompletes`, as `dispatch_failure_hangs` shows for the first. Leaving them out lets the rest of the liveness question be asked.

## Refinement

`TaskLifecycle` is written from the specification, not from the code. `RunTask` and `HttpTask` each instantiate it as `Lifecycle == INSTANCE TaskLifecycle WITH status <- task.status, success <- task.success`: the refinement mapping is the task row itself. `LifecycleRefined == Lifecycle!Spec` is checked in each, and `TaskServer.LifecycleRefined`, the conjunction of both, is a `PROPERTY` of `task_safety`. Every step of the detailed model must then be a `TaskLifecycle` step or leave the row unchanged. In particular, an `Updates` on a deleted row must change nothing, the cluster/VM path may write `running` only while `firstFail` is false, and `Success=true` may never overwrite a recorded dispatch failure.

`task_safety` leaves out the unresolved marker. That path writes `terminated` and then `running`, which `TaskLifecycle` forbids; `http_marker_unresolved` shows it. The same path is the only one where an earlier execution writes the task after its terminal write: a resubmission between `:344` and `:355` lets it overwrite the new execution's task. `task_safety` therefore states no property about stale executions, because its bound would hide exactly the case that breaks one.

## Findings

Each finding is a run that TLC finds violated. Details are in `PROJECT.json` under "findings".

The response-marker code has two more edges, besides the one `message_contract` shows. `MessageSound` states only what the code gets right. After a failed lookup `executeHttp` marks the task `terminated`, then probes the check path with `<nil>` in place of the marker (`:343-364`). `ResolveCheckTarget` models this, but no run checks it: every property of it that the code meets would exempt exactly these cases. `executeHttp` also replaces a `{{response$...}}` marker of the check body only when the same marker appears in the check path (`:339`); a different body marker is sent as written. In `Httpcheck`, a marker followed by another `}}` is read up to the last `}}`. That path query finds nothing, and the whole check fails.

Other divergences came up while modelling and are listed as hazards, without a run of their own:

* With zero workloads no dispatch writes `StartAt`, and `Expire` is computed from the zero time (`:202`). Time is not modelled, so no property asks this.
* A missing agent makes `executeWorkload` or the prober return without a terminal row (`:139`, `:388`).
* A `GetPodStatus` error blocks the prober on its second send (`:395`).
* `utils.Unarchive` drops `Extract`'s error (`archive.go:27`). A deploy whose files could not be written reports success, and `start_command` runs on a partial application. Spec section 4.2's dispatch contract (every step succeeds) therefore does not hold for the VM `Deploy`. `backend_contracts` lets `Extract` fail (`ExtractOutcomes = {ok, err}`) and states no contract for `Deploy`.

## Not modelled

* `Getdata`, `Getyaml` and the repository listings are read-only queries of the database, Kubernetes or external registries. `Getdata` calls `tx.Where("tenant = ?", tenant)` and discards the result (`getdatalogic.go:36`). On a gorm v2 session made by `WithContext`, each chained call clones the statement, so the tenant condition never reaches the `First` query, and a non-admin can read any tenant's task by id. The repository has no `go.mod` that pins the gorm version. A model would only restate that reading of the library, so this is recorded here and not as a run.
* The CLI and the HTTP handlers are client and adapter I/O.
* `RunTask`'s return when the `Save` of the task row fails (`runtasklogic.go:90-93`) is left out: nothing is started, and the properties are about started tasks. So is the panic of a nil `regexp` in `Httpcheck` (`httpchecklogic.go:78-79`, `:88-89`) when a finish or success keyword is not a valid regexp, since keywords are configuration rather than remote behaviour.
* `AgentHost` models one agent request at a time. The agent serves gRPC requests concurrently. Two `VmDeploy`s with the same `DeployPath` and artifact file name share the package path (`vmdeploylogic.go:96`), and two shell checks in the same microsecond share a script name (`vmhealthchecklogic.go:57`). Either way, the first call to return deletes the other's file. These are listed as hazards.
* `utils.Unarchive` opens `dest+NameInArchive` without checking the name (`archive.go:35`), so an entry named `../x` is written outside `DeployPath`. The host model has names, not paths.
* `GetS3ArtifactList` slices `o.Key[len(imageName)+1:]` (`repository.go:115`). A key equal to `imageName` panics, and a key with a sibling prefix gets a wrong tag. The listings are reads of external stores, so this is listed as a hazard only.
* `Getdata`'s `Preload` is a second `SELECT` (`getdatalogic.go:38`), so it can see workload rows from a later moment than its task row.
* The registry's contents come from service discovery code outside this repository. `BackendContracts` builds the keys in the format the helpers' error messages name. `ServicePrefix` is taken to be a literal with no regexp metacharacter.
* A resubmission of a cluster or VM task id, and a resubmission that changes the deploy type, are not modelled. `TaskServer` starts one backend per task id.

## Plan for later work

1. Resubmission of a cluster/VM task id, which composes two `RunTask` executions, as `HttpTask` already does for HTTP.
2. Concurrent agent requests on one host, composing two `AgentHost` folds step by step, to show the shared-package removal (`vmdeploylogic.go:96`).
3. Wall-clock time for the task row's `StartAt`, `FinishAt` and `Expire`, to check the zero-workload duration (`:202`).
