-------------------------- MODULE ResponseTemplate --------------------------
(***************************************************************************)
(* The response-marker substitution of the HTTP backend: executeHttp      *)
(* (runtasklogic.go) resolves a {{response$path}} marker of the check      *)
(* path against the deploy response and replaces it in the check path and *)
(* body; Httpcheck (httpd/httpchecklogic.go) resolves a {{$path}} marker   *)
(* of MsgJsonpath against the check response to build the message.        *)
(*                                                                         *)
(* A string is a sequence of tokens: "{{", "}}", "response", "$" and      *)
(* single characters of a path or of text; a JSON document is a function  *)
(* from the path queries that resolve to the value found.  Templates hold *)
(* no newline, so the regexp's `.` matches every token.                   *)
(***************************************************************************)
EXTENDS Naturals, Sequences, FiniteSets

Open   == "{{"
Close  == "}}"
Dollar == "$"

\* The nil interface a failed jsonpath.JsonPathLookup returns.
Nil == "nil"

\* jsonpath.JsonPathLookup(doc, path): the value the path query finds, or an
\* error (and nil) when it finds nothing.
JsonPathLookup(doc, path) ==
    IF path \in DOMAIN doc THEN [ok |-> TRUE, val |-> doc[path]]
    ELSE [ok |-> FALSE, val |-> Nil]

\* utils.AnyToString: a looked-up value as a string; fmt's "%+v" of nil is
\* "<nil>".
AnyToString(v) == IF v = Nil THEN "<nil>" ELSE v

\* re.FindStringSubmatch(s) for the regexp .*(\{\{<prefix>(\$.*)\}\}).*:
\* group 1 (whole) is the marker, group 2 (path) its path query.  Go takes
\* the leftmost-first match: the greedy leading .* puts the marker at the
\* last "{{<prefix>$" that a "}}" follows, and the greedy (\$.*) ends it at
\* the last "}}".
FindStringSubmatch(s, prefix) ==
    LET lead   == <<Open>> \o prefix \o <<Dollar>>
        starts == {i \in 1..Len(s) - Len(lead) + 1 :
                      SubSeq(s, i, i + Len(lead) - 1) = lead}
        closes(i) == {j \in i + Len(lead)..Len(s) : s[j] = Close}
        cands  == {i \in starts : closes(i) # {}}
        i == CHOOSE x \in cands : \A y \in cands : y <= x
        j == CHOOSE x \in closes(i) : \A y \in closes(i) : y <= x
    IN IF cands = {} THEN [found |-> FALSE, whole |-> <<>>, path |-> <<>>]
       ELSE [found |-> TRUE, whole |-> SubSeq(s, i, j),
             path |-> SubSeq(s, i + Len(lead) - 1, j - 1)]

\* strings.ReplaceAll(s, old, new) for a non-empty old: every
\* non-overlapping occurrence, scanning from the left.
RECURSIVE StringsReplaceAll(_, _, _)
StringsReplaceAll(s, old, new) ==
    IF Len(s) < Len(old) THEN s
    ELSE IF SubSeq(s, 1, Len(old)) = old
         THEN new \o StringsReplaceAll(SubSeq(s, Len(old) + 1, Len(s)), old, new)
         ELSE <<Head(s)>> \o StringsReplaceAll(Tail(s), old, new)

\* Mutant of CheckMessage: matches[2] (the path) replaced instead of
\* matches[1] (the whole marker).
CheckMessageReplacesPath(tmpl, doc) ==
    LET m == FindStringSubmatch(tmpl, <<>>)
        l == JsonPathLookup(doc, m.path)
    IN CASE tmpl = <<>> \/ ~m.found -> [err |-> FALSE, msg |-> <<>>]
         [] ~l.ok                  -> [err |-> TRUE, msg |-> <<>>]
         [] OTHER -> [err |-> FALSE,
                      msg |-> StringsReplaceAll(tmpl, m.path, <<AnyToString(l.val)>>)]

\* executeHttp: the check path's {{response$...}} marker looked up in the
\* deploy response; a failed lookup writes the task "terminated" but the
\* code goes on and replaces the marker, in the check path and the check
\* body, with AnyToString of the nil lookup.
ResolveCheckTarget(path, body, doc) ==
    LET m == FindStringSubmatch(path, <<"response">>)
        l == JsonPathLookup(doc, m.path)
        v == <<AnyToString(l.val)>>
    IN IF ~m.found THEN [terminated |-> FALSE, path |-> path, body |-> body]
       ELSE [terminated |-> ~l.ok,
             path |-> StringsReplaceAll(path, m.whole, v),
             body |-> StringsReplaceAll(body, m.whole, v)]

\* Httpcheck's message: empty unless MsgJsonpath has a {{$...}} marker; a
\* marker whose path finds nothing fails the whole check; otherwise every
\* copy of the marker is replaced by the value found.
CheckMessage(tmpl, doc) ==
    LET m == FindStringSubmatch(tmpl, <<>>)
        l == JsonPathLookup(doc, m.path)
    IN CASE tmpl = <<>> \/ ~m.found -> [err |-> FALSE, msg |-> <<>>]
         [] ~l.ok                  -> [err |-> TRUE, msg |-> <<>>]
         [] OTHER -> [err |-> FALSE,
                      msg |-> StringsReplaceAll(tmpl, m.whole, <<AnyToString(l.val)>>)]

=============================================================================
