------------------------- MODULE RunningShellTable_proofs -------------------------
(* Proofs about RunningShellTable: the cache does not show, and nothing is misrouted. *)
EXTENDS RunningShellTable, WellFoundedInduction, TLAPS

\* What is answered is the match of a request that is the same but for case.
MatchOf(t, r, match) == \E q \in Alike(r) : match = MostQualifiedMatch(t, q)

\* Without clashes the table is that of the shells, before the first Organize too.
TableInv ==
    /\ ~Clash(shells) => table.of = shells
    /\ ~table.made => table.of = <<>>

CacheInv ==
    \A k \in DOMAIN cache : \A r \in Requests :
        HostAndPrefix(r) = k => MatchOf(table.of, r, cache[k])

AnswerInv ==
    \/ answer = NoAnswer
    \/ /\ answer.request \in Requests
       /\ ~Clash(shells) => MatchOf(shells, answer.request, answer.result)

Inv == use \in Uses /\ TableInv /\ CacheInv /\ AnswerInv

\* A table without keys has nothing to match but the shell without criteria.
LEMMA NoKeysNoMatch ==
    ASSUME NEW t, NEW r, Keys(t) = {}
    PROVE  MostQualifiedMatch(t, r) = Fallback(t)
<1>1. Group(t, r) = {}
    <2>1. SUFFICES ASSUME NEW i \in DOMAIN t, Qualified(t[i]), KeysOf(t[i]) # {}
                   PROVE  FALSE
        BY <2>1 DEF Group
    <2>2. PICK k \in KeysOf(t[i]) : TRUE
        BY <2>1
    <2>3. k \in Keys(t)
        BY <2>1, <2>2 DEF Keys
    <2> QED BY <2>3
<1> QED BY <1>1 DEF MostQualifiedMatch

\* A request finds what it would find without the cache.
LEMMA AlikeItself ==
    ASSUME NEW r \in Requests
    PROVE  r \in Alike(r)
BY DEF Alike

\* The one that computed a match, and one that finds it, are alike.
LEMMA SameKeyAlike ==
    ASSUME NEW r \in Requests, NEW q \in Requests, HostAndPrefix(r) = HostAndPrefix(q)
    PROVE  q \in Alike(r)
BY DEF HostAndPrefix, Alike

\* The invariant holds at the start.
LEMMA InitInv == Init => Inv
<1> SUFFICES ASSUME Init PROVE Inv
    OBVIOUS
<1>1. TableInv
    BY DEF Init, TableInv
<1>2. CacheInv
    BY DEF Init, CacheInv
<1>3. AnswerInv /\ use \in Uses
    BY DEF Init, AnswerInv
<1> QED BY <1>1, <1>2, <1>3 DEF Inv

\* A change of the shells, whether the table follows or not, keeps the invariant.
LEMMA ChangeKeepsInv ==
    ASSUME Inv, Organize, answer' = NoAnswer, use' = use
    PROVE  Inv'
<1>1. CASE Clash(shells')
    <2>1. table' = table /\ cache' = cache
        BY <1>1 DEF Organize
    <2> QED BY <2>1, <1>1 DEF Inv, TableInv, CacheInv, AnswerInv
<1>2. CASE ~Clash(shells')
    <2>1. table' = [made |-> TRUE, of |-> shells'] /\ DOMAIN cache' = {}
        BY <1>2 DEF Organize, Cleared
    <2> QED BY <2>1 DEF Inv, TableInv, CacheInv, AnswerInv
<1> QED BY <1>1, <1>2

\* What a request is told is the match of one that is alike.
LEMMA MatchIsDirect ==
    ASSUME Inv, NEW r \in Requests, Match(r)
    PROVE  /\ answer'.request = r
           /\ answer' = [request |-> r, result |-> answer'.result]
           /\ MatchOf(table.of, r, answer'.result)
<1>1. CASE MatchAtOnce(r)
    <2>1. Keys(table.of) = {}
        <3>1. CASE Optimized
            BY <3>1 DEF Optimized
        <3>2. CASE ~table.made
            BY <3>2 DEF Inv, TableInv, Keys
        <3> QED BY <1>1, <3>1, <3>2 DEF MatchAtOnce
    <2>2. answer' = [request |-> r, result |-> Fallback(table.of)]
        BY <1>1 DEF MatchAtOnce
    <2>3. MatchOf(table.of, r, Fallback(table.of))
        BY <2>1, NoKeysNoMatch, AlikeItself DEF MatchOf
    <2> QED BY <2>2, <2>3
<1>2. CASE MatchCached(r)
    <2> DEFINE key == HostAndPrefix(r)
               match == IF key \in DOMAIN cache THEN cache[key]
                        ELSE MostQualifiedMatch(table.of, r)
    <2>1. answer' = [request |-> r, result |-> match]
        BY <1>2 DEF MatchCached
    <2>2. MatchOf(table.of, r, match)
        <3>1. CASE key \in DOMAIN cache
            BY <3>1 DEF Inv, CacheInv
        <3>2. CASE key \notin DOMAIN cache
            BY <3>2, AlikeItself DEF MatchOf
        <3> QED BY <3>1, <3>2
    <2> QED BY <2>1, <2>2
<1> QED BY <1>1, <1>2 DEF Match

\* A match keeps the invariant: what it adds to the cache is right for all that
\* have its key.
LEMMA MatchKeepsInv ==
    ASSUME Inv, NEW r \in Requests, Match(r)
    PROVE  Inv'
<1>1. UNCHANGED <<use, shells, table>>
    BY DEF Match, MatchAtOnce, MatchCached
<1>2. CacheInv'
    <2>1. CASE MatchAtOnce(r)
        BY <2>1 DEF MatchAtOnce, Inv, CacheInv
    <2>2. CASE MatchCached(r)
        <3> SUFFICES ASSUME NEW k \in DOMAIN cache', NEW q \in Requests, HostAndPrefix(q) = k
                     PROVE  MatchOf(table.of, q, cache'[k])
            BY <1>1 DEF CacheInv
        <3>1. CASE k \in DOMAIN cache
            <4>1. cache'[k] = cache[k]
                BY <2>2, <3>1 DEF MatchCached
            <4> QED BY <4>1, <3>1 DEF Inv, CacheInv
        <3>2. CASE k \notin DOMAIN cache
            <4>1. k = HostAndPrefix(r)
                BY <2>2, <3>2 DEF MatchCached
            <4>2. cache'[k] = MostQualifiedMatch(table.of, r)
                BY <2>2, <3>2, <4>1 DEF MatchCached
            <4>3. r \in Alike(q)
                BY <4>1, SameKeyAlike
            <4> QED BY <4>2, <4>3 DEF MatchOf
        <3> QED BY <3>1, <3>2
    <2> QED BY <2>1, <2>2 DEF Match
<1>3. AnswerInv'
    <2>1. ~Clash(shells) => table.of = shells
        BY DEF Inv, TableInv
    <2> QED BY <1>1, <2>1, MatchIsDirect DEF AnswerInv
<1> QED BY <1>1, <1>2, <1>3 DEF Inv, TableInv

\* A use of Uses has settings and requests of their unions.
LEMMA UseIsTyped ==
    ASSUME Inv
    PROVE  use.settings \subseteq Settings /\ use.requests \subseteq Requests
BY DEF Inv, Settings, Requests

\* The invariant is inductive.
LEMMA NextInv == Inv /\ [Next]_vars => Inv'
<1> SUFFICES ASSUME Inv, [Next]_vars PROVE Inv'
    OBVIOUS
<1>1. ASSUME NEW s \in use.settings, Add(s) \/ Remove(s) \/ Update(s)
      PROVE  Inv'
    <2>1. Organize /\ answer' = NoAnswer /\ use' = use
        BY <1>1 DEF Add, Remove, Update
    <2> QED BY <2>1, ChangeKeepsInv
<1>2. ASSUME NEW r \in use.requests, Match(r)
      PROVE  Inv'
    BY <1>2, UseIsTyped, MatchKeepsInv
<1>3. CASE UNCHANGED vars
    BY <1>3 DEF vars, Inv, TableInv, CacheInv, AnswerInv
<1> QED BY <1>1, <1>2, <1>3 DEF Next

\* Spec keeps the invariant.
LEMMA SpecInv == Spec => []Inv
<1> QED BY InitInv, NextInv, PTL DEF Spec

\* A set of positions has a first one.
LEMMA FirstIsOne ==
    ASSUME NEW S, S \subseteq Nat, S # {}
    PROVE  First(S) \in S /\ \A y \in S : First(S) <= y
<1>1. PICK x \in S : \A y \in S : <<y, x>> \notin OpToRel(<, Nat)
    BY NatLessThanWellFounded, WFMin
<1>2. \A y \in S : x <= y
    <2>1. SUFFICES ASSUME NEW y \in S, ~(x <= y) PROVE FALSE
        OBVIOUS
    <2>2. <<y, x>> \in Nat \X Nat /\ y < x
        BY <2>1
    <2>3. <<y, x>> \in OpToRel(<, Nat)
        BY <2>2, Zenon DEF OpToRel
    <2> QED BY <1>1, <2>3
<1> QED BY <1>2 DEF First

\* What matches covers the request.
LEMMA MatchCovers ==
    ASSUME NEW t \in Seq(Settings), NEW r, NEW q \in Alike(r)
    PROVE  LET match == MostQualifiedMatch(t, q) IN
           \/ match = None
           \/ \E i \in DOMAIN t :
                /\ match = t[i]
                /\ t[i].prefix \in {"", r.segment}
                /\ \E k \in KeysOf(t[i]) : Covers(k, r)
<1> DEFINE matches == {i \in Group(t, q) : PrefixMatches(t[i], q)}
<1>q. q.host = r.host /\ q.segment = r.segment
    BY DEF Alike
<1>1. CASE matches = {}
    <2> DEFINE unqualified == {i \in DOMAIN t : ~Qualified(t[i])}
               fallback == {i \in unqualified : unqualified = {i} \/ t[i].name = Default}
    <2>1. MostQualifiedMatch(t, q) = Fallback(t)
        BY <1>1 DEF MostQualifiedMatch
    <2>2. CASE fallback = {}
        BY <2>1, <2>2 DEF Fallback
    <2>3. CASE fallback # {}
        <3>1. PICK i \in fallback : Fallback(t) = t[i]
            BY <2>3 DEF Fallback
        <3>2. t[i].hosts = {} /\ t[i].prefix = ""
            BY <3>1 DEF Qualified
        <3>3. AnyHost \in KeysOf(t[i]) /\ Covers(AnyHost, r)
            BY <3>2 DEF KeysOf, Covers
        <3> QED BY <2>1, <3>1, <3>2, <3>3
    <2> QED BY <2>2, <2>3
<1>2. CASE matches # {}
    <2>1. MostQualifiedMatch(t, q) = t[First(matches)]
        BY <1>2 DEF MostQualifiedMatch
    <2> DEFINE i == First(matches)
    <2>2. i \in matches
        <3>1. matches \subseteq Nat
            BY DEF Group
        <3> QED BY <3>1, <1>2, FirstIsOne
    <2>3. i \in DOMAIN t /\ t[i].prefix \in {"", r.segment}
        BY <2>2, <1>q DEF Group, PrefixMatches
    <2>4. PICK k \in KeysOf(t[i]) : k \in HostKeys(t, q)
        BY <2>2 DEF Group
    <2>5. Covers(k, r)
        BY <2>4, <1>q DEF HostKeys, Longest, StarKeys, ExactKeys, Covers
    <2> QED BY <2>1, <2>3, <2>4, <2>5
<1> QED BY <1>1, <1>2

------------------------------------------------------------------------------
\* Taking a tenant out leaves the others, each of them once.
LEMMA WithoutIsTyped ==
    ASSUME TypeOK, NEW name
    PROVE  /\ Without(name) \in Seq(Settings)
           /\ \A i \in DOMAIN Without(name) : Without(name)[i].name # name
           /\ \A i, j \in DOMAIN Without(name) :
                Without(name)[i].name = Without(name)[j].name => i = j
<1> DEFINE named == {i \in DOMAIN shells : shells[i].name = name}
           at == CHOOSE i \in named : TRUE
<1>0. /\ shells \in Seq(Settings)
      /\ \A i, j \in DOMAIN shells : shells[i].name = shells[j].name => i = j
    BY DEF TypeOK
<1>1. CASE named = {}
    BY <1>0, <1>1 DEF Without
<1>2. CASE named # {}
    <2>1. at \in 1..Len(shells) /\ shells[at].name = name
        BY <1>0, <1>2
    <2> HIDE DEF at
    <2> DEFINE rest == SubSeq(shells, 1, at - 1) \o SubSeq(shells, at + 1, Len(shells))
    <2>2. /\ rest \in Seq(Settings)
          /\ Len(rest) = Len(shells) - 1
          /\ \A i \in 1..Len(rest) : rest[i] = IF i < at THEN shells[i] ELSE shells[i + 1]
        <3> DEFINE left == SubSeq(shells, 1, at - 1)
                   right == SubSeq(shells, at + 1, Len(shells))
        <3>1. /\ left \in Seq(Settings) /\ Len(left) = at - 1
              /\ \A i \in 1..at - 1 : left[i] = shells[i]
            BY <1>0, <2>1
        <3>2. /\ right \in Seq(Settings) /\ Len(right) = Len(shells) - at
              /\ \A i \in 1..Len(shells) - at : right[i] = shells[at + i]
            BY <1>0, <2>1
        <3> HIDE DEF left, right
        <3>3. left \o right \in Seq(Settings)
            BY <3>1, <3>2
        <3>5. Len(left \o right) = Len(left) + Len(right)
            BY <3>1, <3>2
        <3>6. Len(left \o right) = Len(shells) - 1
            BY <1>0, <2>1, <3>1, <3>2, <3>5
        <3>4. ASSUME NEW i \in 1..Len(shells) - 1
              PROVE  (left \o right)[i] = IF i < at THEN shells[i] ELSE shells[i + 1]
            <4>1. CASE i < at
                BY <1>0, <2>1, <3>1, <3>2, <4>1
            <4>2. CASE ~(i < at)
                <5>1. (left \o right)[i] = right[i - (at - 1)]
                    BY <1>0, <2>1, <3>1, <3>2, <4>2
                <5>2. i - (at - 1) \in 1..Len(shells) - at /\ at + (i - (at - 1)) = i + 1
                    BY <1>0, <2>1, <4>2
                <5> QED BY <3>2, <4>2, <5>1, <5>2
            <4> QED BY <4>1, <4>2
        <3> QED BY <3>3, <3>4, <3>6 DEF left, right
    <2>3. Without(name) = rest
        BY <1>2 DEF Without, at
    <2> HIDE DEF rest
    <2>4. DOMAIN rest = 1..Len(rest)
        BY <2>2
    <2>5. ASSUME NEW i \in 1..Len(rest)
          PROVE  rest[i].name # name
        BY <1>0, <2>1, <2>2, <2>5
    <2>6. ASSUME NEW i \in 1..Len(rest), NEW j \in 1..Len(rest), rest[i].name = rest[j].name
          PROVE  i = j
        <3> DEFINE from(n) == IF n < at THEN n ELSE n + 1
        <3>1. from(i) \in DOMAIN shells /\ from(j) \in DOMAIN shells
            BY <1>0, <2>1, <2>2
        <3>2. shells[from(i)].name = shells[from(j)].name
            BY <2>2, <2>6
        <3>3. from(i) = from(j)
            BY <1>0, <3>1, <3>2
        <3> QED BY <2>1, <2>2, <3>3
    <2> QED BY <2>2, <2>3, <2>4, <2>5, <2>6
<1> QED BY <1>1, <1>2

\* A tenant that is put at the end is there once.
LEMMA PutIsTyped ==
    ASSUME TypeOK, NEW s \in Settings
    PROVE  LET t == Append(Without(s.name), s) IN
           /\ t \in Seq(Settings)
           /\ \A i, j \in DOMAIN t : t[i].name = t[j].name => i = j
<1> DEFINE w == Without(s.name)
<1>1. /\ w \in Seq(Settings)
      /\ \A i \in DOMAIN w : w[i].name # s.name
      /\ \A i, j \in DOMAIN w : w[i].name = w[j].name => i = j
    BY WithoutIsTyped
<1> HIDE DEF w
<1> DEFINE t == Append(w, s)
<1>2. /\ t \in Seq(Settings) /\ Len(t) = Len(w) + 1 /\ t[Len(w) + 1] = s
      /\ \A i \in 1..Len(w) : t[i] = w[i]
    BY <1>1
<1> HIDE DEF t
<1>3. DOMAIN t = 1..Len(w) + 1 /\ DOMAIN w = 1..Len(w) /\ Len(w) \in Nat
    BY <1>1, <1>2
<1>4. ASSUME NEW i \in DOMAIN t, NEW j \in DOMAIN t, t[i].name = t[j].name
      PROVE  i = j
    <2>1. CASE i \in DOMAIN w /\ j \in DOMAIN w
        BY <1>1, <1>2, <1>3, <1>4, <2>1
    <2>2. CASE i = Len(w) + 1 /\ j = Len(w) + 1
        BY <2>2
    <2>3. CASE i = Len(w) + 1 /\ j \in DOMAIN w
        BY <1>1, <1>2, <1>3, <1>4, <2>3
    <2>4. CASE i \in DOMAIN w /\ j = Len(w) + 1
        BY <1>1, <1>2, <1>3, <1>4, <2>4
    <2> QED BY <1>3, <2>1, <2>2, <2>3, <2>4
<1> QED BY <1>2, <1>4 DEF t, w

\* What matches is a tenant.
LEMMA MatchIsTyped ==
    ASSUME NEW t \in Seq(Settings), NEW r \in Requests
    PROVE  MostQualifiedMatch(t, r) \in Settings \cup {None}
<1>1. \A i \in DOMAIN t : t[i] \in Settings
    OBVIOUS
<1>2. r \in Alike(r)
    BY AlikeItself
<1> DEFINE match == MostQualifiedMatch(t, r)
<1>3. match = None \/ \E i \in DOMAIN t : match = t[i]
    BY <1>2, MatchCovers
<1> QED BY <1>1, <1>3

\* A change of the shells keeps the types.
LEMMA ChangeKeepsTypes ==
    ASSUME TypeOK, Organize, answer' = NoAnswer,
           shells' \in Seq(Settings),
           \A i, j \in DOMAIN shells' : shells'[i].name = shells'[j].name => i = j
    PROVE  TypeOK'
<1>1. \/ table' = table /\ cache' = cache
      \/ table'.of = shells' /\ DOMAIN cache' = {}
    BY DEF Organize, Cleared
<1> QED BY <1>1 DEF TypeOK

\* A match keeps the types.
LEMMA MatchKeepsTypes ==
    ASSUME TypeOK, NEW r \in Requests, Match(r)
    PROVE  TypeOK'
<1>1. UNCHANGED <<shells, table>> /\ answer'.request = r
    BY DEF Match, MatchAtOnce, MatchCached
<1>2. ASSUME NEW k \in DOMAIN cache'
      PROVE  /\ k \in {HostAndPrefix(q) : q \in Requests}
             /\ cache'[k] \in Settings \cup {None}
    <2>1. CASE MatchAtOnce(r)
        BY <2>1 DEF MatchAtOnce, TypeOK
    <2>2. CASE MatchCached(r) /\ k \in DOMAIN cache
        <3>1. cache'[k] = cache[k]
            BY <2>2 DEF MatchCached
        <3> QED BY <2>2, <3>1 DEF TypeOK
    <2>3. CASE MatchCached(r) /\ k \notin DOMAIN cache
        <3>1. k = HostAndPrefix(r) /\ cache'[k] = MostQualifiedMatch(table.of, r)
            BY <2>3 DEF MatchCached
        <3>2. table.of \in Seq(Settings)
            BY DEF TypeOK
        <3> QED BY <3>1, <3>2, MatchIsTyped
    <2> QED BY <2>1, <2>2, <2>3 DEF Match
<1> QED BY <1>1, <1>2 DEF TypeOK

\* Every variable holds what its declaration says, and no tenant is there twice: the
\* property TypeOK, for any tenants and requests.
THEOREM TableTypeOK == Spec => []TypeOK
<1>1. Init => TypeOK
    BY DEF Init, TypeOK
<1>2. TypeOK /\ Inv /\ [Next]_vars => TypeOK'
    <2> SUFFICES ASSUME TypeOK, Inv, [Next]_vars PROVE TypeOK'
        OBVIOUS
    <2>1. ASSUME NEW s \in use.settings, Add(s) \/ Update(s)
          PROVE  TypeOK'
        <3>1. Organize /\ answer' = NoAnswer /\ shells' = Append(Without(s.name), s)
            BY <2>1 DEF Add, Update
        <3>2. s \in Settings
            BY UseIsTyped
        <3>3. /\ shells' \in Seq(Settings)
              /\ \A i, j \in DOMAIN shells' : shells'[i].name = shells'[j].name => i = j
            BY <3>1, <3>2, PutIsTyped
        <3> QED BY <3>1, <3>3, ChangeKeepsTypes
    <2>2. ASSUME NEW s \in use.settings, Remove(s)
          PROVE  TypeOK'
        <3>1. Organize /\ answer' = NoAnswer /\ shells' = Without(s.name)
            BY <2>2 DEF Remove
        <3>2. /\ shells' \in Seq(Settings)
              /\ \A i, j \in DOMAIN shells' : shells'[i].name = shells'[j].name => i = j
            BY <3>1, WithoutIsTyped
        <3> QED BY <3>1, <3>2, ChangeKeepsTypes
    <2>3. ASSUME NEW r \in use.requests, Match(r)
          PROVE  TypeOK'
        BY <2>3, UseIsTyped, MatchKeepsTypes
    <2>4. CASE UNCHANGED vars
        BY <2>4 DEF vars, TypeOK
    <2> QED BY <2>1, <2>2, <2>3, <2>4 DEF Next
<1> QED BY <1>1, <1>2, SpecInv, PTL DEF Spec

\* No request reaches a tenant that is not there, or that has another host or prefix:
\* the property NeverMisrouted, for any tenants and requests.
THEOREM TableNeverMisrouted == Spec => []NeverMisrouted
<1>1. TypeOK /\ Inv => NeverMisrouted
    <2> SUFFICES ASSUME TypeOK, Inv, answer # NoAnswer, ~Clash(shells)
                 PROVE  NeverMisrouted
        BY DEF NeverMisrouted
    <2>1. PICK q \in Alike(answer.request) : answer.result = MostQualifiedMatch(shells, q)
        BY DEF Inv, AnswerInv, MatchOf
    <2>2. shells \in Seq(Settings)
        BY DEF TypeOK
    <2> QED BY <2>1, <2>2, MatchCovers DEF NeverMisrouted
<1> QED BY <1>1, TableTypeOK, SpecInv, PTL

\* A tenant names the host of the request, not in a star mapping.
Names(s, r) == \E k \in s.hosts : ~k.star /\ k.name = r.host

\* No tenant before the i-th takes the request.
IsFirst(t, i, r) ==
    \A j \in DOMAIN t : j < i => ~(Names(t[j], r) /\ t[j].prefix \in {"", r.segment})

\* The first tenant with the host and the prefix of the request is its match.
LEMMA ClaimIsMet ==
    ASSUME NEW t \in Seq(Settings), NEW r, NEW q \in Alike(r), r.host # <<>>,
           NEW i \in DOMAIN t,
           Names(t[i], r), t[i].prefix = r.segment,
           IsFirst(t, i, r)
    PROVE  MostQualifiedMatch(t, q) = t[i]
<1> DEFINE matches == {j \in Group(t, q) : PrefixMatches(t[j], q)}
<1>1. q.host = r.host /\ q.segment = r.segment
    BY DEF Alike
<1>2. /\ HostKeys(t, q) = ExactKeys(t, q)
      /\ i \in matches
    <2>1. PICK k \in t[i].hosts : ~k.star /\ k.name = r.host
        BY DEF Names
    <2>2. Qualified(t[i]) /\ k \in KeysOf(t[i]) /\ k \in Keys(t)
        BY <2>1 DEF Qualified, KeysOf, Keys
    <2>3. HostKeys(t, q) = ExactKeys(t, q) /\ k \in ExactKeys(t, q)
        BY <1>1, <2>1, <2>2 DEF HostKeys, ExactKeys
    <2> QED
        BY <1>1, <2>2, <2>3 DEF Group, PrefixMatches
<1>3. matches \subseteq Nat /\ i \in Nat
    BY <1>2 DEF Group
<1>4. First(matches) \in matches /\ First(matches) <= i
    BY <1>2, <1>3, FirstIsOne
<1> DEFINE j == First(matches)
<1>5. ~(j < i)
    <2> SUFFICES ASSUME j < i PROVE FALSE
        OBVIOUS
    <2>1. j \in DOMAIN t /\ t[j].prefix \in {"", r.segment}
        BY <1>1, <1>4 DEF Group, PrefixMatches
    <2>2. PICK l \in KeysOf(t[j]) : ~l.star /\ l.name = r.host
        BY <1>1, <1>2, <1>4 DEF Group, ExactKeys
    <2>3. AnyHost.name = <<>>
        BY DEF AnyHost
    <2>4. l \in t[j].hosts
        BY <2>2, <2>3 DEF KeysOf
    <2> QED
        BY <2>1, <2>2, <2>4 DEF Names, IsFirst
<1>6. j = i
    BY <1>3, <1>4, <1>5
<1> QED
    BY <1>2, <1>6 DEF MostQualifiedMatch

\* A tenant gets the requests for its host and its prefix unless another one that was
\* added or updated before it takes them: the property ClaimsAreMet, for any tenants
\* and requests.
THEOREM TableClaimsAreMet == Spec => []ClaimsAreMet
<1>1. TypeOK /\ Inv => ClaimsAreMet
    <2> SUFFICES ASSUME TypeOK, Inv, answer # NoAnswer, ~Clash(shells),
                        NEW i \in DOMAIN shells,
                        Claims(i, answer.request, answer.request.segment),
                        \A j \in DOMAIN shells : j < i =>
                            ~ \/ Claims(j, answer.request, "")
                              \/ Claims(j, answer.request, answer.request.segment)
                 PROVE  answer.result = shells[i]
        BY DEF ClaimsAreMet
    <2>1. PICK q \in Alike(answer.request) : answer.result = MostQualifiedMatch(shells, q)
        BY DEF Inv, AnswerInv, MatchOf
    <2>2. shells \in Seq(Settings)
        BY DEF TypeOK
    <2>3. IsFirst(shells, i, answer.request)
        BY DEF Claims, Names, IsFirst
    <2>4. /\ answer.request.host # <<>> /\ Names(shells[i], answer.request)
          /\ shells[i].prefix = answer.request.segment
        BY DEF Claims, Names
    <2> QED
        BY <2>1, <2>2, <2>3, <2>4, ClaimIsMet
<1> QED BY <1>1, TableTypeOK, SpecInv, PTL

------------------------------------------------------------------------------
\* The start of the table is that of ShellTable.
LEMMA InitIsDirect == Init => Direct!Init
BY DEF Init, Direct!Init

\* Every step of the table is one of ShellTable, or leaves its tenants and answer.
LEMMA NextIsDirect == Inv /\ [Next]_vars => [Direct!Next]_(Direct!vars)
<1> SUFFICES ASSUME Inv, [Next]_vars PROVE Direct!Next \/ UNCHANGED Direct!vars
    OBVIOUS
<1>1. ASSUME NEW s \in use.settings, Add(s) \/ Update(s)
      PROVE  Direct!Put(s)
    BY <1>1 DEF Add, Update, Without, Direct!Put, Direct!Others
<1>2. ASSUME NEW s \in use.settings, Remove(s)
      PROVE  Direct!Drop(s)
    BY <1>2 DEF Remove, Without, Direct!Drop, Direct!Others
<1>3. ASSUME NEW r \in use.requests, Match(r)
      PROVE  Direct!Answer(r)
    <2>1. r \in Requests
        BY UseIsTyped
    <2>2. /\ answer'.request = r
          /\ answer' = [request |-> r, result |-> answer'.result]
          /\ MatchOf(table.of, r, answer'.result)
        BY <1>3, <2>1, MatchIsDirect
    <2>3. UNCHANGED shells
        BY <1>3 DEF Match, MatchAtOnce, MatchCached
    <2>4. ~Clash(shells) => table.of = shells
        BY DEF Inv, TableInv
    <2> QED BY <2>2, <2>3, <2>4 DEF MatchOf, Direct!Answer
<1>4. CASE UNCHANGED vars
    BY <1>4 DEF vars, Direct!vars
<1>5. use.settings \subseteq Settings /\ use.requests \subseteq Requests
    BY UseIsTyped
<1> QED BY <1>1, <1>2, <1>3, <1>4, <1>5 DEF Next, Direct!Next

\* The table with its cache implements the one that has none: the property
\* AnswersDirectly, for any tenants and requests.
THEOREM TableAnswersDirectly == Spec => AnswersDirectly
<1> QED BY SpecInv, InitIsDirect, NextIsDirect, PTL DEF Spec, AnswersDirectly, Direct!Spec
==============================================================================
