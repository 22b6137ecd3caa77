-------------------------- MODULE BackendContracts --------------------------
(***************************************************************************)
(* The calls of BackendCalls checked against the contracts the            *)
(* specification gives the backends (sections 4.2 and 6).  Each state     *)
(* holds one call, a configuration and what the remote end does; Init     *)
(* enumerates every one of the bounded sets, so each invariant compares   *)
(* the code's operator with its contract on all of them.                  *)
(***************************************************************************)
EXTENDS BackendCalls, ResponseTemplate, AgentRegistry, AgentHost, SequencesExt

CONSTANTS
    ExtractOutcomes,  \* what writing the archive's files may do
    MaxScale,         \* the longest req.Workloads of a scale request
    MaxTemplate       \* the most tokens of a template string
ASSUME ExtractOutcomes \subseteq Outcome /\ ExtractOutcomes # {}
ASSUME MaxScale \in Nat /\ MaxTemplate \in Nat

\* Dispatch over HTTP succeeds iff the body is sent in a supported content
\* type (JSON or form) by POST or PUT, the endpoint answers 2xx, and the
\* configured response keyword, if any, matches.
HttpdeployContract(c, r) ==
    IF /\ c.contentType \in {"json", "form"} /\ c.bodyParses
       /\ c.method \in {"post", "put"}
       /\ r.transport = "ok" /\ r.status = "2xx"
       /\ c.resJsonpath => r.resLookup = "match"
    THEN "ok" ELSE "err"

\* The HTTP probe of a get or post check fails on a transport or protocol
\* error or a path query that finds nothing; otherwise `finished` and
\* `success` are each the keyword match of their own field (true when no
\* field is configured).
HttpcheckContract(c, r) ==
    LET queried == {q \in {"finish", "success", "msg"} :
                        \/ q = "finish"  /\ c.finishPath
                        \/ q = "success" /\ c.successPath
                        \/ q = "msg"     /\ c.msgPath = "marker"}
        found(q) == IF q = "msg" THEN r.msg = "found" ELSE r[q] # "missing"
    IN IF \/ c.method = "post" /\ ~c.bodyParses
          \/ r.transport = "err" \/ r.status = "error"
          \/ \E q \in queried : ~found(q)
       THEN CheckErr
       ELSE CheckData(c.finishPath => r.finish = "match",
                      c.successPath => r.success = "match")

\* The VM probe succeeds iff the host's agent resolves and either no check
\* is configured or the configured HTTP GET/POST, shell or TCP check passes.
HealthcheckContract(c, r) ==
    LET passes == CASE c.type = "http"  -> /\ c.method \in {"get", "post"}
                                           /\ r.transport = "ok" /\ r.status = "2xx"
                    [] c.type = "shell" -> r.script = "written" /\ r.exit = "zero"
                    [] c.type = "tcp"   -> r.transport = "ok"
                    [] OTHER            -> FALSE
    IN IF r.agent = "found" /\ (c.type = "none" \/ (r.rpc = "ok" /\ passes))
       THEN "ok" ELSE "err"

\* A scale request fails iff the agent is not found or the RPC of some
\* enabled workload fails; the RPCs sent are those of the enabled workloads
\* up to and including the first that fails (every enabled one on success).
ScaleContract(agent, ws) ==
    LET enabled == {i \in 1..Len(ws) : ~ws[i].disabled}
        failed  == {i \in enabled : ws[i].rpc = "err"}
    IN CASE agent = "missing" -> ScaleResult("err", {})
         [] failed = {}       -> ScaleResult("ok", enabled)
         [] OTHER             -> ScaleResult("err", {i \in enabled : i <= Min(failed)})

\* The markers {{<prefix><path>}} of s: "{{", the prefix, a path query that
\* starts with "$" and holds no "{{" or "}}", then "}}".
Markers(s, prefix) ==
    LET n == Len(prefix) IN
    {ij \in (1..Len(s)) \X (1..Len(s)) :
        /\ ij[2] >= ij[1] + n + 2
        /\ SubSeq(s, ij[1], ij[1] + n + 1) = <<Open>> \o prefix \o <<Dollar>>
        /\ s[ij[2]] = Close
        /\ \A k \in ij[1] + 1..ij[2] - 1 : s[k] \notin {Open, Close}}

\* Substitute(template, pathQuery, document) of spec sections 6 and 8
\* (property 5), for a template with at most one marker: a template
\* without one is returned unchanged; a path query that finds nothing is
\* PathNotFound and nothing is substituted; otherwise the whole marker is
\* replaced by the value and the rest of the string is unchanged.
Substitute(s, prefix, doc) ==
    IF Markers(s, prefix) = {} THEN [err |-> FALSE, out |-> s]
    ELSE LET ij == CHOOSE x \in Markers(s, prefix) : TRUE
             q  == SubSeq(s, ij[1] + Len(prefix) + 1, ij[2] - 1)
         IN IF q \notin DOMAIN doc THEN [err |-> TRUE, out |-> <<>>]
            ELSE [err |-> FALSE,
                  out |-> SubSeq(s, 1, ij[1] - 1) \o <<doc[q]>>
                            \o SubSeq(s, ij[2] + 1, Len(s))]

\* What the VM host does at each step of VmDeploy.
HostResp == [header : {"json", "bad"},
             preWrite : WriteOutcome, preExit : Outcome,
             download : WriteOutcome, unarchive : Outcome,
             startWrite : WriteOutcome, startExit : Outcome]

HealthHostResp == [checkWrite : WriteOutcome, checkExit : Outcome]

\* The temporary files whose write broke off after creating them.
PartialWrites(r) ==
    LET write == ("preScript" :> "preWrite") @@ ("package" :> "download")
                 @@ ("startScript" :> "startWrite") @@ ("checkScript" :> "checkWrite")
    IN {f \in TempFile : write[f] \in DOMAIN r /\ r[write[f]] = "errPartial"}

\* Agent registrations: a cluster agent or a VM agent ("_vm") of a
\* namespace, keyed with its cluster name or host address, which may hold
\* dots; a key of another service in the registry; callers' claims, as
\* the set of namespaces and the comma-joined string of the JWT payload.
RegistryPrefix == <<"p">>
Registration == [vm : BOOLEAN, ns : {<<"a">>, <<"b">>, <<"a", "b">>},
                 addr : {<<"1">>, <<"1", Dot, "2">>}]
KeyOf(r) == RegistryPrefix \o <<AgentName>> \o (IF r.vm THEN <<VmSuffix>> ELSE <<>>)
                \o <<Dot>> \o r.ns \o <<Dot>> \o r.addr
ForeignKey == RegistryPrefix \o <<"svc", Dot, "a">>
Claims == {[claim |-> {}, str |-> <<>>],
           [claim |-> {<<"a">>}, str |-> <<"a">>],
           [claim |-> {<<"a">>, <<"b">>}, str |-> <<"a", Comma, "b">>],
           [claim |-> {<<"a", "b">>}, str |-> <<"a", "b">>]}

\* What the tenant view of the registry promises, from the key format the
\* helpers' errors name, <ServicePrefix>lizardcd-agent(_vm).<namespace>.
\* <cluster or address>: an admin sees every registered key and every VM
\* agent's address; anyone else exactly the agents registered in a
\* namespace of the caller's claim (a claim of "" names none).
ServicesContract(regs, foreign, caller) ==
    {KeyOf(r) : r \in {x \in regs : caller.role = ROLE_ADMIN \/ x.ns \in caller.claim}}
        \cup (IF caller.role = ROLE_ADMIN THEN foreign ELSE {})

TargetsContract(regs, caller) ==
    {r.addr : r \in {x \in regs : x.vm /\ (caller.role = ROLE_ADMIN \/ x.ns \in caller.claim)}}

-----------------------------------------------------------------------------

VARIABLE call

\* Template strings: every sequence of up to MaxTemplate tokens.  The JSON
\* document answers the path queries "$" (the whole document) and "$.a".
Templates == SeqOf({Open, Close, "response", Dollar, "a", "t"}, MaxTemplate)
Doc == (<<Dollar>> :> "doc") @@ (<<Dollar, "a">> :> "va")
CheckBodies == {<<"t">>, <<Open, "response", Dollar, "a", Close>>}

Calls ==
       {[op |-> "httpdeploy", c |-> c, r |-> r] : c \in DeployCfg, r \in DeployResp}
    \cup {[op |-> "httpcheck", c |-> c, r |-> r] : c \in CheckCfg, r \in CheckResp}
    \cup {[op |-> "healthcheck", c |-> c, r |-> r] : c \in HealthCfg, r \in HealthResp}
    \cup {[op |-> "deploy", c |-> c, r |-> r] :
            c \in VmCfg, r \in {x \in VmResp : x.extract \in ExtractOutcomes}}
    \cup {[op |-> "scale", c |-> [agent |-> a], r |-> [workloads |-> ws]] :
            a \in {"found", "missing"}, ws \in SeqOf(ScaleWorkload, MaxScale)}
    \cup {[op |-> "message", c |-> [tmpl |-> t], r |-> [doc |-> Doc]] :
            t \in Templates}
    \cup {[op |-> "checkTarget", c |-> [path |-> p, body |-> b], r |-> [doc |-> Doc]] :
            p \in Templates, b \in CheckBodies}
    \cup {[op |-> "deployHost", c |-> c, r |-> r] : c \in VmCfg, r \in HostResp}
    \cup {[op |-> "healthHost", c |-> [type |-> "shell"], r |-> r] : r \in HealthHostResp}
    \cup {[op |-> "registry",
           c |-> [role |-> role, claim |-> cl.claim, str |-> cl.str],
           r |-> [regs |-> rs, foreign |-> f]] :
            role \in {ROLE_ADMIN, "dev"}, cl \in Claims,
            rs \in {x \in SUBSET Registration : Cardinality(x) <= 2},
            f \in {{}, {ForeignKey}}}

Init == call \in Calls
Next == UNCHANGED call
Spec == Init /\ [][Next]_call

\* Httpdeploy (httpdeploylogic.go) returns success exactly when the
\* dispatch contract says so: a keyword mismatch is a hard failure
\* (spec section 4.2, scenario C).
HttpdeployMeetsContract ==
    call.op = "httpdeploy" => Httpdeploy(call.c, call.r) = HttpdeployContract(call.c, call.r)

\* For a get or post check, Httpcheck (httpchecklogic.go) returns the
\* error, finished and success of the probe contract, whatever the order
\* of its early returns.
HttpcheckMeetsContract ==
    call.op = "httpcheck" /\ call.c.method \in {"get", "post"}
        => Httpcheck(call.c, call.r) = HttpcheckContract(call.c, call.r)

\* The server's Healthcheck with the agent's VmHealthCheck succeeds
\* exactly when the VM probe contract says so, type "none" included.
HealthcheckMeetsContract ==
    call.op = "healthcheck" => Healthcheck(call.c, call.r) = HealthcheckContract(call.c, call.r)


\* ScaleStatefulset (scalestatefulsetlogic.go) reports an error exactly
\* when some enabled workload could not be scaled, and on a partial
\* failure has scaled exactly the enabled workloads before the failing one:
\* what the caller must undo, since nothing is rolled back.
ScaleMeetsContract ==
    call.op = "scale" =>
        ScaleStatefulset(call.c.agent, call.r.workloads)
            = ScaleContract(call.c.agent, call.r.workloads)

\* Httpcheck never reports a wrong message: for a MsgJsonpath with at most
\* one marker, a message it builds from a marker is the contract's
\* substitution, and a marker whose path query finds nothing fails the
\* check instead of being substituted.
MessageSound ==
    LET t == call.c.tmpl IN
    call.op = "message" /\ Cardinality(Markers(t, <<>>)) <= 1 =>
        LET code == CheckMessage(t, call.r.doc)
            spec == Substitute(t, <<>>, call.r.doc)
        IN /\ spec.err => code.err
           /\ ~code.err /\ FindStringSubmatch(t, <<>>).found => code.msg = spec.out

\* Httpcheck's message is Substitute of MsgJsonpath (spec section 8,
\* property 5): unchanged without a marker, the value in place of the
\* marker, PathNotFound only for a path query that finds nothing.
MessageMeetsContract ==
    LET t == call.c.tmpl IN
    call.op = "message" /\ Cardinality(Markers(t, <<>>)) <= 1 =>
        LET code == CheckMessage(t, call.r.doc)
            spec == Substitute(t, <<>>, call.r.doc)
        IN code.err = spec.err /\ (~code.err => code.msg = spec.out)

\* Whatever step of VmDeploy or of a shell VmHealthCheck fails, the
\* temporary scripts and the package are gone from the host when it
\* returns: every one written completely is removed by a deferred
\* os.Remove, including after a failed run of a script and a failed
\* unarchive.  (A health check runs every 10 s per workload.)
TempFilesRemoved ==
    /\ call.op = "deployHost" =>
          VmDeployHost(call.c, call.r).files \cap TempFile \subseteq PartialWrites(call.r)
    /\ call.op = "healthHost" =>
          VmHealthCheckShellHost(call.r).files \cap TempFile \subseteq PartialWrites(call.r)

\* The caller's payload and the keys of AgentList of a "registry" call:
\* each registry entry is <key>/<instance id>.
Payload(c)  == [role |-> c.role, namespace |-> c.str]
AgentKeys(r) == {GetLizardAgentKey(k \o <<Slash, "u">>) : k \in {KeyOf(x) : x \in r.regs} \cup r.foreign}

\* Listservices shows a non-admin exactly the agents registered in the
\* namespaces of their claim, cluster and VM agents alike, whatever dots
\* the cluster name or host address holds, and an admin every key.
ServicesScoped ==
    call.op = "registry" =>
        Listservices(RegistryPrefix, AgentKeys(call.r), Payload(call.c))
            = ServicesContract(call.r.regs, call.r.foreign, call.c)

\* Listtargets returns exactly the addresses of the VM agents the caller
\* may reach: those of the claim's namespaces, and every one for an admin.
TargetsScoped ==
    call.op = "registry" =>
        Listtargets(RegistryPrefix, AgentKeys(call.r), Payload(call.c))
            = TargetsContract(call.r.regs, call.c)

=============================================================================
