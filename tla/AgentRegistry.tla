--------------------------- MODULE AgentRegistry ---------------------------
(***************************************************************************)
(* The tenant view of the agent registry: Listservices                     *)
(* (server/internal/logic/lizardcd/listserviceslogic.go) and Listtargets   *)
(* (listtargetslogic.go), with the helpers of common/utils/common.go they  *)
(* call: GetPayload splits the caller's namespace claim, GetServiceMata    *)
(* and GetTarget parse a registry key with a regexp.                      *)
(*                                                                         *)
(* A string is a sequence of tokens: "lizardcd-agent", "_vm", ".", ","     *)
(* and single characters of names and addresses.  ServicePrefix is one    *)
(* literal token: a prefix holding no regexp metacharacter.  The handlers *)
(* build slices by iterating a map, in no fixed order; a result is the set *)
(* of what they append.                                                   *)
(***************************************************************************)
EXTENDS Naturals, Sequences, FiniteSets

AgentName == "lizardcd-agent"
VmSuffix  == "_vm"
Dot       == "."
Comma     == ","
Slash     == "/"

\* constant.ROLE_ADMIN
ROLE_ADMIN == "admin"

\* The least element of a non-empty set of numbers.
Least(S) == CHOOSE x \in S : \A y \in S : x <= y

\* strings.Split(s, sep): the pieces between the separators; "" splits
\* into one empty piece.
RECURSIVE StringsSplit(_, _)
StringsSplit(s, sep) ==
    LET at == {k \in 1..Len(s) : s[k] = sep} IN
    IF at = {} THEN <<s>>
    ELSE <<SubSeq(s, 1, Least(at) - 1)>>
            \o StringsSplit(SubSeq(s, Least(at) + 1, Len(s)), sep)

\* utils.GetLizardAgentKey: a registry entry's key without its last
\* "/"-segment, the instance id (strings.TrimSuffix of "/" + uid).
GetLizardAgentKey(key) ==
    LET parts == StringsSplit(key, Slash)
        tail  == <<Slash>> \o parts[Len(parts)]
    IN IF Len(key) >= Len(tail) /\ SubSeq(key, Len(key) - Len(tail) + 1, Len(key)) = tail
       THEN SubSeq(key, 1, Len(key) - Len(tail))
       ELSE key

\* utils.GetPayload: the role and the namespaces of the caller's JWT
\* payload; the namespace claim is a comma-separated list.
GetPayload(payload) ==
    [role |-> payload.role, namespaces |-> StringsSplit(payload.namespace, Comma)]

\* Mutant of LazyGroups: the namespace group written greedy, (.+)\.(.+),
\* so it ends at the last "." instead of the first.
GreedyGroups(s, p) ==
    LET dots == {q \in p + 1..Len(s) - 1 : s[q] = Dot}
        last == CHOOSE q \in dots : \A y \in dots : y <= q
    IN IF dots = {} THEN [ok |-> FALSE, g1 |-> <<>>, g2 |-> <<>>]
       ELSE [ok |-> TRUE, g1 |-> SubSeq(s, p, last - 1),
                          g2 |-> SubSeq(s, last + 1, Len(s))]

\* (.+?)\.(.+) matched from position p to the end of s: the lazy group
\* ends at the first "." that leaves at least one token on each side.
LazyGroups(s, p) ==
    LET dots == {q \in p + 1..Len(s) - 1 : s[q] = Dot} IN
    IF dots = {} THEN [ok |-> FALSE, g1 |-> <<>>, g2 |-> <<>>]
    ELSE [ok |-> TRUE, g1 |-> SubSeq(s, p, Least(dots) - 1),
                       g2 |-> SubSeq(s, Least(dots) + 1, Len(s))]

\* The regexp <lead>\.(.+?)\.(.+) tried at position i of s.
MatchAt(s, i, lead) ==
    LET p == i + Len(lead) IN
    IF /\ p + 1 <= Len(s)
       /\ SubSeq(s, i, p - 1) = lead /\ s[p] = Dot
    THEN LazyGroups(s, p + 1)
    ELSE [ok |-> FALSE, g1 |-> <<>>, g2 |-> <<>>]

\* utils.GetServiceMata: the leftmost match of
\* <prefix>lizardcd-agent(_vm|)\.(.+?)\.(.+); the alternative "_vm" is
\* tried before the empty one.
GetServiceMata(prefix, key) ==
    LET lead(vm) == prefix \o <<AgentName>> \o (IF vm THEN <<VmSuffix>> ELSE <<>>)
        starts == {i \in 1..Len(key) : \E vm \in BOOLEAN : MatchAt(key, i, lead(vm)).ok}
    IN IF starts = {} THEN [ok |-> FALSE]
       ELSE LET i  == Least(starts)
                vm == MatchAt(key, i, lead(TRUE)).ok
                g  == MatchAt(key, i, lead(vm))
            IN [ok |-> TRUE, vm |-> vm, namespace |-> g.g1, cluster |-> g.g2]

\* Mutant of GetTarget: the role test dropped, so an admin sees only the
\* targets of the namespaces of its own claim.
GetTargetNoAdmin(prefix, key, namespaces, role) ==
    LET lead   == prefix \o <<AgentName, VmSuffix>>
        starts == {i \in 1..Len(key) : MatchAt(key, i, lead).ok}
        g      == MatchAt(key, Least(starts), lead)
    IN CASE starts = {} -> [err |-> TRUE, target |-> <<>>]
         [] \E k \in 1..Len(namespaces) : namespaces[k] = g.g1
                            -> [err |-> FALSE, target |-> g.g2]
         [] OTHER           -> [err |-> TRUE, target |-> <<>>]

\* utils.GetTarget: the address of a VM agent's key,
\* <prefix>lizardcd-agent_vm\.(.+?)\.(.+), when the namespace group is one
\* of the caller's namespaces or the caller is an admin.
GetTarget(prefix, key, namespaces, role) ==
    LET lead   == prefix \o <<AgentName, VmSuffix>>
        starts == {i \in 1..Len(key) : MatchAt(key, i, lead).ok}
        g      == MatchAt(key, Least(starts), lead)
    IN CASE starts = {} -> [err |-> TRUE, target |-> <<>>]
         [] (\E k \in 1..Len(namespaces) : namespaces[k] = g.g1)
                \/ role = ROLE_ADMIN
                            -> [err |-> FALSE, target |-> g.g2]
         [] OTHER           -> [err |-> TRUE, target |-> <<>>]

\* Listservices: every key of AgentList for an admin; for anyone else the
\* keys GetServiceMata parses to one of the caller's namespaces.
Listservices(prefix, agentList, payload) ==
    LET caller == GetPayload(payload) IN
    {k \in agentList :
        LET meta == GetServiceMata(prefix, k) IN
        \/ meta.ok /\ \E n \in 1..Len(caller.namespaces) :
                         caller.namespaces[n] = meta.namespace
        \/ caller.role = ROLE_ADMIN}

\* Listtargets: the targets of the keys for which GetTarget succeeds.
Listtargets(prefix, agentList, payload) ==
    LET caller == GetPayload(payload)
        res(k) == GetTarget(prefix, k, caller.namespaces, caller.role)
    IN {res(k).target : k \in {x \in agentList : ~res(x).err}}

=============================================================================
