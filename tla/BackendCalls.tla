---------------------------- MODULE BackendCalls ----------------------------
(***************************************************************************)
(* The single calls the task backends make, as pure operators: what each  *)
(* returns for a configuration (the application's ExtraVars) and for what *)
(* the remote end does.  Bodies, URLs and messages are abstracted to the   *)
(* facts the code branches on.                                            *)
(*                                                                         *)
(*   Httpdeploy   server/internal/logic/httpd/httpdeploylogic.go          *)
(*   Httpcheck    server/internal/logic/httpd/httpchecklogic.go           *)
(*   Healthcheck  server/internal/logic/vm/healthchecklogic.go, with the  *)
(*                agent's VmHealthCheck (agent/.../vmhealthchecklogic.go) *)
(*   Deploy       server/internal/logic/vm/deploylogic.go, with the       *)
(*                agent's VmDeploy (agent/.../vmdeploylogic.go)           *)
(*   ScaleStatefulset  server/internal/logic/kubernetes/                  *)
(*                scalestatefulsetlogic.go                                *)
(*                                                                         *)
(* Each is checked against a reference definition written from the        *)
(* contract the specification gives the backend (sections 4.2 and 6):     *)
(* the code's chain of early returns must return what the declarative     *)
(* reference says, for every configuration and response of the bounded    *)
(* sets below.  HttpTask's abstract check outcomes are ClassifyCheck of    *)
(* Httpcheck's results.                                                    *)
(***************************************************************************)
EXTENDS Naturals, Sequences

Outcome == {"ok", "err"}

\* ---- Httpdeploy -------------------------------------------------------

DeployCfg == [contentType : {"json", "form", "other"},
              bodyParses  : BOOLEAN,    \* HttpBody unmarshals into the map
              method      : {"post", "put", "other"},
              resJsonpath : BOOLEAN]    \* ResJsonpath is set
DeployResp == [transport : Outcome,                 \* the request itself
               status    : {"2xx", "error"},         \* res.IsError()
               resLookup : {"match", "noMatch", "missing"}]

\* Mutant: a ResKeyword mismatch is not reported as an error.
HttpdeployIgnoreKeyword(c, r) ==
    IF      c.contentType = "other"                         THEN "err"
    ELSE IF ~c.bodyParses                                   THEN "err"
    ELSE IF c.method = "other"                              THEN "err"
    ELSE IF r.transport = "err" \/ r.status = "error"       THEN "err"
    ELSE IF c.resJsonpath /\ r.resLookup = "missing"        THEN "err"
    ELSE "ok"

\* Httpdeploy: the content type picks how the body is parsed, the method
\* picks POST or PUT, then the transport, the status code and, when
\* ResJsonpath is set, the lookup and the ResKeyword match decide.
Httpdeploy(c, r) ==
    IF      c.contentType = "other"                         THEN "err"
    ELSE IF ~c.bodyParses                                   THEN "err"
    ELSE IF c.method = "other"                              THEN "err"
    ELSE IF r.transport = "err" \/ r.status = "error"       THEN "err"
    ELSE IF c.resJsonpath /\ r.resLookup = "missing"        THEN "err"
    ELSE IF c.resJsonpath /\ r.resLookup = "noMatch"        THEN "err"
    ELSE "ok"

\* ---- Httpcheck --------------------------------------------------------

CheckCfg == [method      : {"get", "post", "other"},
             bodyParses  : BOOLEAN,                \* HttpBody, for post
             finishPath  : BOOLEAN,                \* FinishJsonpath set
             successPath : BOOLEAN,                \* SuccessJsonpath set
             msgPath     : {"none", "plain", "marker"}] \* MsgJsonpath
CheckResp == [transport : Outcome,
              status    : {"2xx", "error"},
              finish    : {"match", "noMatch", "missing"},
              success   : {"match", "noMatch", "missing"},
              msg       : {"found", "missing"}]

\* A *types.Response: an error, or Data holding HttpcheckResponse, or (the
\* "no health check" branch) no Data at all.
CheckErr     == [err |-> TRUE,  hasData |-> FALSE, finished |-> FALSE, success |-> FALSE]
CheckNoData  == [err |-> FALSE, hasData |-> FALSE, finished |-> FALSE, success |-> FALSE]
CheckData(f, s) == [err |-> FALSE, hasData |-> TRUE, finished |-> f, success |-> s]

\* Mutant: the SuccessJsonpath lookup decides `finished` and vice versa.
HttpcheckSwapped(c, r) ==
    IF      c.method \notin {"get", "post"}                 THEN CheckNoData
    ELSE IF c.method = "post" /\ ~c.bodyParses              THEN CheckErr
    ELSE IF r.transport = "err" \/ r.status = "error"       THEN CheckErr
    ELSE IF c.finishPath /\ r.finish = "missing"            THEN CheckErr
    ELSE IF c.successPath /\ r.success = "missing"          THEN CheckErr
    ELSE IF c.msgPath = "marker" /\ r.msg = "missing"       THEN CheckErr
    ELSE CheckData(~c.successPath \/ r.success = "match",
                   ~c.finishPath \/ r.finish = "match")

\* Httpcheck: get or post (a post body that does not parse is an error),
\* anything else is "no health check" with no Data; then the transport and
\* status; then each configured JSON path lookup, whose failure returns
\* the error; an unset path leaves finished / success at true, a keyword
\* mismatch sets it false.  The message lookup only runs for a
\* {{$...}} marker in MsgJsonpath.
Httpcheck(c, r) ==
    IF      c.method \notin {"get", "post"}                 THEN CheckNoData
    ELSE IF c.method = "post" /\ ~c.bodyParses              THEN CheckErr
    ELSE IF r.transport = "err" \/ r.status = "error"       THEN CheckErr
    ELSE IF c.finishPath /\ r.finish = "missing"            THEN CheckErr
    ELSE IF c.successPath /\ r.success = "missing"          THEN CheckErr
    ELSE IF c.msgPath = "marker" /\ r.msg = "missing"       THEN CheckErr
    ELSE CheckData(~c.finishPath \/ r.finish = "match",
                   ~c.successPath \/ r.success = "match")

\* What getHttpStatus makes of one Httpcheck result (runtasklogic.go
\* 474-487): HttpTask's CheckResults.
ClassifyCheck(o) ==
    CASE o.err                         -> "err"
      [] ~o.err /\ ~o.hasData          -> "noCheck"
      [] o.hasData /\ ~o.finished      -> "running"
      [] o.hasData /\ o.finished /\ o.success  -> "doneOk"
      [] o.hasData /\ o.finished /\ ~o.success -> "doneFail"

\* ---- VM Healthcheck ---------------------------------------------------

HealthCfg == [type   : {"none", "http", "shell", "tcp", "other"},
              method : {"get", "post", "other"}]
HealthResp == [agent     : {"found", "missing"},   \* GetTargetAgent
               rpc       : Outcome,                \* the gRPC call itself
               transport : Outcome,                \* the agent's request / dial
               status    : {"2xx", "error"},
               script    : {"written", "writeErr"},
               exit      : {"zero", "nonZero"}]

\* The agent's VmHealthCheck, by check type.
VmHealthCheck(c, r) ==
    CASE c.type = "http" ->
            IF c.method \notin {"get", "post"} THEN "err"
            ELSE IF r.transport = "err" \/ r.status = "error" THEN "err"
            ELSE "ok"
      [] c.type = "shell" ->
            IF r.script = "writeErr" \/ r.exit = "nonZero" THEN "err" ELSE "ok"
      [] c.type = "tcp" -> r.transport
      [] c.type \notin {"http", "shell", "tcp"} -> "err"

\* Mutant: type "none" answers before the agent is resolved.
HealthcheckNoneFirst(c, r) ==
    IF c.type = "none" THEN "ok"
    ELSE IF r.agent = "missing" THEN "err"
    ELSE IF r.rpc = "err" THEN "err"
    ELSE VmHealthCheck(c, r)

\* The server's Healthcheck: resolve the target's agent, succeed at once
\* for type "none", otherwise the agent's VmHealthCheck over gRPC.
Healthcheck(c, r) ==
    IF r.agent = "missing" THEN "err"
    ELSE IF c.type = "none" THEN "ok"
    ELSE IF r.rpc = "err" THEN "err"
    ELSE VmHealthCheck(c, r)

\* ---- VM Deploy (one target, as executeVm calls it) ---------------------

VmCfg == [deployUser : {"unset", "exists", "missing"},
          preCommand : BOOLEAN]
VmResp == [agent     : {"found", "missing"},
           rpc       : Outcome,
           header    : {"json", "bad"},
           preWrite  : Outcome, preExit : Outcome,
           download  : Outcome,
           unarchive : Outcome,      \* opening and identifying the archive
           extract   : Outcome,      \* writing its files
           startWrite : Outcome, startExit : Outcome]

\* utils.Unarchive: an error opening or identifying the archive is
\* returned; Extract's own result, and so any file that could not be
\* created or opened, is discarded and nil returned.
Unarchive(r) == r.unarchive

\* The agent's VmDeploy: the artifact header, the deploy user, the
\* pre_command (written to a script and run, when set), the download, the
\* unarchive, the start_command script written and run; the first step
\* that fails returns its error.
VmDeploy(c, r) ==
    IF      r.header = "bad"                            THEN "err"
    ELSE IF c.deployUser = "missing"                    THEN "err"
    ELSE IF c.preCommand /\ r.preWrite = "err"          THEN "err"
    ELSE IF c.preCommand /\ r.preExit = "err"           THEN "err"
    ELSE IF r.download = "err"                          THEN "err"
    ELSE IF Unarchive(r) = "err"                        THEN "err"
    ELSE IF r.startWrite = "err"                        THEN "err"
    ELSE r.startExit

\* The server's Deploy for each of req.Targets (one host): resolve the
\* host's agent, call VmDeploy over gRPC, return the first error.
Deploy(c, r) ==
    IF r.agent = "missing" THEN "err"
    ELSE IF r.rpc = "err" THEN "err"
    ELSE VmDeploy(c, r)


\* ---- ScaleStatefulset -------------------------------------------------

\* One entry of req.Workloads: its Disabled flag and what the agent's
\* ScaleStatefulset RPC does for it.
ScaleWorkload == [disabled : BOOLEAN, rpc : Outcome]

\* The result: the error, and the positions of req.Workloads whose
\* ScaleStatefulset RPC was sent.
ScaleResult(res, sent) == [res |-> res, sent |-> sent]

\* Mutant: a failing RPC is logged and the loop goes on (continue).
RECURSIVE ScaleLoopContinue(_, _)
ScaleLoopContinue(ws, i) ==
    IF i > Len(ws) THEN ScaleResult("ok", {})
    ELSE IF ws[i].disabled THEN ScaleLoopContinue(ws, i + 1)
    ELSE LET rest == ScaleLoopContinue(ws, i + 1)
         IN  ScaleResult(IF ws[i].rpc = "err" THEN "err" ELSE rest.res,
                         rest.sent \cup {i})

\* The loop over req.Workloads from position i: a disabled workload is
\* skipped; the first RPC that fails returns its error, and the workloads
\* after it are never scaled (nor those before it scaled back).
RECURSIVE ScaleLoop(_, _)
ScaleLoop(ws, i) ==
    IF i > Len(ws) THEN ScaleResult("ok", {})
    ELSE IF ws[i].disabled THEN ScaleLoop(ws, i + 1)
    ELSE IF ws[i].rpc = "err" THEN ScaleResult("err", {i})
    ELSE LET rest == ScaleLoop(ws, i + 1)
         IN  ScaleResult(rest.res, rest.sent \cup {i})

\* ScaleStatefulset: resolve the namespace's agent, then the loop.
ScaleStatefulset(agent, ws) ==
    IF agent = "missing" THEN ScaleResult("err", {})
    ELSE ScaleLoop(ws, 1)

=============================================================================
