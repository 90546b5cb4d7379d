---------------------------- MODULE RunningShellTable ----------------------------
(***************************************************************************)
(* Orchard/Environment/RunningShellTable.cs: which tenant a request goes   *)
(* to.  The host adds a tenant when its shell starts, updates it when its  *)
(* settings change and removes it when it is disabled; every request and   *)
(* every route asks for a match.  Changes hold the write lock of the table *)
(* and matches its read lock, so each is one step.                         *)
(*                                                                         *)
(* _shellsByHost and _fallback are made from _shells by Organize, and are  *)
(* here the list of the shells that they were made from.                   *)
(***************************************************************************)
EXTENDS Naturals, Sequences

\* A use has settings: [name, hosts: a set of host keys, prefix: "" or a segment],
\* and requests: [host: a sequence of pieces of a name, case, segment].
CONSTANT Uses

VARIABLES
    use,        \* the one of Uses that this behaviour is about
    shells,     \* _shells
    table,      \* _shellsByHost and _fallback: made, and from which shells
    cache,      \* _shellsByHostAndPrefix
    answer      \* to the last request, NoAnswer when the table has changed since

vars == <<use, shells, table, cache, answer>>

Settings == UNION {u.settings : u \in Uses}
Requests == UNION {u.requests : u \in Uses}

Default == "Default"
None == [name |-> ""]
NoAnswer == [result |-> None]

Init ==
    /\ use \in Uses
    /\ shells = <<>>
    /\ table = [made |-> FALSE, of |-> <<>>]
    /\ cache = [k \in {} |-> None]
    /\ answer = NoAnswer

------------------------------------------------------------------------------
Qualified(s) == s.hosts # {} \/ s.prefix # ""

\* A host name in the settings: *.name, or a name, which is empty when there is none.
\* It is written in lower or in upper case.
AnyHost == [star |-> FALSE, name |-> <<>>, case |-> "lower"]
KeysOf(s) == IF s.hosts = {} THEN {AnyHost} ELSE s.hosts

\* The keys of _shellsByHost: those of the shells, grouped with respect to case.
Keys(t) == UNION {KeysOf(t[i]) : i \in {j \in DOMAIN t : Qualified(t[j])}}

\* ToDictionary, without respect to case, throws on two of them.
Clash(t) ==
    \E k, l \in Keys(t) : k # l /\ k.star = l.star /\ k.name = l.name

\* The only shell without criteria, or the default one of several.
Fallback(t) ==
    LET unqualified == {i \in DOMAIN t : ~Qualified(t[i])}
        fallback == {i \in unqualified : unqualified = {i} \/ t[i].name = Default}
    IN IF fallback = {} THEN None ELSE t[CHOOSE i \in fallback : TRUE]

------------------------------------------------------------------------------
ExactKeys(t, r) == {k \in Keys(t) : ~k.star /\ k.name = r.host}

EndsWith(host, name) == \E n \in 1..Len(host) + 1 : name = SubSeq(host, n, Len(host))

StarKeys(t, r) == {k \in Keys(t) : k.star /\ k.case = r.case /\ EndsWith(r.host, k.name)}

\* The keys are in descending order of their length.
Longest(keys) == {k \in keys : \A l \in keys : Len(l.name) <= Len(k.name)}

\* The host as it is, then the shells without a host, and then a star mapping.
HostKeys(t, r) ==
    IF ExactKeys(t, r) # {} THEN ExactKeys(t, r)
    ELSE IF AnyHost \in Keys(t) THEN {AnyHost}
    ELSE Longest(StarKeys(t, r))

Group(t, r) ==
    {i \in DOMAIN t : Qualified(t[i]) /\ KeysOf(t[i]) \cap HostKeys(t, r) # {}}

\* Mutant of PrefixMatches: the prefix is not compared.
PrefixMatches_Any(s, r) == TRUE
PrefixMatches(s, r) == s.prefix = "" \/ s.prefix = r.segment

\* Mutant of First: the last one.
First_Last(S) == CHOOSE i \in S : \A j \in S : j <= i
First(S) == CHOOSE i \in S : \A j \in S : i <= j

\* The first shell of the group that matches, in the order of _shells.
MostQualifiedMatch(t, r) ==
    LET matches == {i \in Group(t, r) : PrefixMatches(t[i], r)}
    IN IF matches = {} THEN Fallback(t) ELSE t[First(matches)]

------------------------------------------------------------------------------
\* Mutant of Without: a shell that is there stays there.
Without_Not(name) == shells
\* At most one of the shells has the name.
Without(name) ==
    LET named == {i \in DOMAIN shells : shells[i].name = name}
        at == CHOOSE i \in named : TRUE
    IN IF named = {} THEN shells
       ELSE SubSeq(shells, 1, at - 1) \o SubSeq(shells, at + 1, Len(shells))

\* Mutant of Cleared: a change of the table keeps the matches.
Cleared_Not(matches) == matches
Cleared(matches) == [k \in {} |-> None]

\* When the keys clash the change has been made, and nothing else.
Organize ==
    IF Clash(shells')
    THEN UNCHANGED <<table, cache>>
    ELSE /\ table' = [made |-> TRUE, of |-> shells']
         /\ cache' = Cleared(cache)

Add(s) ==
    /\ shells' = Append(Without(s.name), s)
    /\ Organize
    /\ answer' = NoAnswer
    /\ UNCHANGED use

Remove(s) ==
    /\ shells' = Without(s.name)
    /\ Organize
    /\ answer' = NoAnswer
    /\ UNCHANGED use

\* The settings of a tenant that changes go to the end.
Update(s) ==
    /\ shells' = Append(Without(s.name), s)
    /\ Organize
    /\ answer' = NoAnswer
    /\ UNCHANGED use

\* One tenant without criteria: no key is made and nothing cached.
Optimized == Keys(table.of) = {} /\ Fallback(table.of) # None

\* The key of a match, which is compared without respect to case.
HostAndPrefix(r) == [host |-> r.host, segment |-> r.segment]

MatchAtOnce(r) ==
    /\ ~table.made \/ Optimized
    /\ answer' = [request |-> r, result |-> Fallback(table.of)]
    /\ UNCHANGED <<use, shells, table, cache>>

\* GetOrAdd: the first of the requests that find nothing computes the match.
MatchCached(r) ==
    /\ table.made /\ ~Optimized
    /\ LET key == HostAndPrefix(r)
           match == IF key \in DOMAIN cache THEN cache[key]
                    ELSE MostQualifiedMatch(table.of, r)
       IN /\ cache' = [k \in DOMAIN cache \cup {key} |->
                            IF k = key THEN match ELSE cache[k]]
          /\ answer' = [request |-> r, result |-> match]
    /\ UNCHANGED <<use, shells, table>>

Match(r) == MatchAtOnce(r) \/ MatchCached(r)

Next ==
    \/ \E s \in use.settings : Add(s) \/ Remove(s) \/ Update(s)
    \/ \E r \in use.requests : Match(r)

Spec == Init /\ [][Next]_vars

------------------------------------------------------------------------------
\* Every variable holds what its declaration says, and no tenant is there twice.
TypeOK ==
    /\ shells \in Seq(Settings) /\ table.of \in Seq(Settings)
    /\ \A i, j \in DOMAIN shells : shells[i].name = shells[j].name => i = j
    /\ \A k \in DOMAIN cache :
        /\ k \in {HostAndPrefix(r) : r \in Requests}
        /\ cache[k] \in Settings \cup {None}
    /\ answer = NoAnswer \/ answer.request \in Requests

\* The cache of matches, and the order in which requests fill it, do not show: every
\* answer is the one for the tenants that are there now, or for those as they would
\* be found for the host in other letters.  Nothing is said while keys clash.
Alike(r) == {q \in Requests : q.host = r.host /\ q.segment = r.segment}
Direct == INSTANCE ShellTable WITH
    Tenants <- Settings, Best <- MostQualifiedMatch, Unsaid <- Clash, tenants <- shells
AnswersDirectly == Direct!Spec

\* A host name of a tenant covers that of the request, and none covers every one.
Covers(k, r) ==
    \/ k = AnyHost
    \/ k.star /\ EndsWith(r.host, k.name)
    \/ ~k.star /\ k.name = r.host

\* No request reaches a tenant that is not there, or whose host or prefix is another
\* one; only a tenant without any takes what is left.
NeverMisrouted ==
    answer # NoAnswer /\ ~Clash(shells) =>
        \/ answer.result = None
        \/ \E i \in DOMAIN shells :
            /\ answer.result = shells[i]
            /\ shells[i].prefix \in {"", answer.request.segment}
            /\ \E k \in KeysOf(shells[i]) : Covers(k, answer.request)

\* Shell i claims the host that the request names, with prefix p.
Claims(i, r, p) ==
    /\ r.host # <<>>
    /\ \E k \in shells[i].hosts : ~k.star /\ k.name = r.host
    /\ shells[i].prefix = p

\* A tenant that has the host and the prefix of the request gets it, whatever other
\* tenants there are: all but one with that host and with no prefix or the same one,
\* that was added or updated before it.
ClaimsAreMet ==
    answer # NoAnswer /\ ~Clash(shells) =>
        \A i \in DOMAIN shells :
            LET r == answer.request IN
            /\ Claims(i, r, r.segment)
            /\ \A j \in DOMAIN shells :
                j < i => ~(Claims(j, r, "") \/ Claims(j, r, r.segment))
            => answer.result = shells[i]
==============================================================================
