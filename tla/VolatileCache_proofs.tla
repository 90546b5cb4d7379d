-------------------------- MODULE VolatileCache_proofs --------------------------
(***************************************************************************)
(* Proofs about VolatileCache: its type invariant, and, where no token is  *)
(* asynchronous, that an entry that is current and an answer of Get are    *)
(* not older than the last trigger, for every number of threads, sources   *)
(* and writes.                                                             *)
(***************************************************************************)
EXTENDS VolatileCache, TLAPS

\* A signal is triggered after a write, and once for each at most.
Numbers ==
    \A s \in Sources : gen[s] <= triggered[s] /\ triggered[s] <= data[s]

\* A thread is in the sources while it acquires Parent, or in one key alone.
Frames ==
    \A t \in Threads :
        /\ at[t][Parent] \in {"off", "enter", "lookup", "children", "store"}
        /\ \A s \in Sources :
              /\ at[t][s] # "children"
              /\ at[t][Parent] = "children" => at[t][s] # "off"
              /\ at[t][Parent] \in {"enter", "lookup", "store"} => at[t][s] = "off"
              /\ at[t][s] = "done" => at[t][Parent] = "children"

\* What was acquired has a version of every source it was computed from.
Acquired ==
    \A t \in Threads, k \in Keys :
        at[t][k] \in {"store", "done"} => value[t][k] \in [Of(k) -> 0..MaxWrites]

\* A task that has not finished is one for a source.
Running ==
    \A n \in 1..MaxAsync : async[n].task = "running" => async[n].of \in Sources

CacheInv == TypeOK /\ Numbers /\ Frames /\ Acquired /\ Running

------------------------------------------------------------------------------
\* Goto changes where thread t is in k, and nothing else.
LEMMA GotoIs ==
    ASSUME at \in [Threads -> [Keys -> Labels]],
           NEW t \in Threads, NEW k \in Keys, NEW label \in Labels,
           Goto(t, k, label)
    PROVE  /\ at' \in [Threads -> [Keys -> Labels]]
           /\ at'[t][k] = label
           /\ \A u \in Threads, j \in Keys :
                 u # t \/ j # k => at'[u][j] = at[u][j]
    BY DEF Goto

\* Monitored sets the tokens of k, and adds to those of Parent when k is nested.
LEMMA MonitoredIs ==
    ASSUME tokens \in [Threads -> [Keys -> SUBSET Tokens]],
           NEW t \in Threads, NEW k \in Keys,
           NEW toks \in SUBSET Tokens, NEW bubbled \in SUBSET Tokens,
           Monitored(t, k, toks, bubbled)
    PROVE  /\ tokens' \in [Threads -> [Keys -> SUBSET Tokens]]
           /\ tokens'[t][k] = toks
           /\ \A j \in Keys \ {k} :
                 tokens'[t][j] = IF j = Parent /\ Nested(t, k)
                                 THEN tokens[t][j] \cup bubbled
                                 ELSE tokens[t][j]
           /\ \A u \in Threads \ {t} : tokens'[u] = tokens[u]
    BY DEF Monitored, Keys

\* When nothing bubbles up, the tokens of t for k are all that changes.
LEMMA MonitoredAlone ==
    ASSUME tokens \in [Threads -> [Keys -> SUBSET Tokens]],
           NEW t \in Threads, NEW k \in Keys, NEW toks \in SUBSET Tokens,
           Monitored(t, k, toks, {})
    PROVE  /\ tokens'[t][k] = toks
           /\ \A u \in Threads, j \in Keys : u # t \/ j # k => tokens'[u][j] = tokens[u][j]
    BY DEF Monitored, Keys

\* Every key is computed from sources.
LEMMA OfKeys ==
    /\ Parent \in Keys /\ Sources \subseteq Keys /\ Parent \notin Sources
    /\ \A k \in Keys : Of(k) \subseteq Sources
    /\ \A s \in Sources : Of(s) = {s}
    /\ Of(Parent) = Sources
    BY VolatileCacheAssumption DEF Keys, Of

\* The invariant holds at the beginning.
LEMMA InitCacheInv == Init => CacheInv
<1> SUFFICES ASSUME Init PROVE CacheInv
    OBVIOUS
<1>1. TypeOK
    <2>1. 0 \in 0..MaxWrites
        BY VolatileCacheAssumption
    <2> QED
        BY <2>1, OfKeys DEF Init, TypeOK, Versions, Labels
<1>2. Numbers
    BY DEF Init, Numbers
<1>3. Frames /\ Acquired
    BY OfKeys DEF Init, Frames, Acquired
<1>4. Running
    BY DEF Init, Running
<1> QED
    BY <1>1, <1>2, <1>3, <1>4 DEF CacheInv

\* Enter, Get and Retry change where a thread is, and perhaps a lock or start.
LEMMA MovesKeepCacheInv ==
    ASSUME CacheInv, NEW t \in Threads, NEW k \in Keys,
           Get(t, k) \/ Enter(t, k) \/ Retry(t, k)
    PROVE  CacheInv'
<1> DEFINE label == IF Get(t, k) THEN "enter" ELSE "lookup"
<1>1. /\ Goto(t, k, label) /\ label \in {"enter", "lookup"}
      /\ UNCHANGED <<use, data, triggered, gen, async, entries, old, value, tokens>>
    BY DEF Get, Enter, Retry
<1>2. /\ at' \in [Threads -> [Keys -> Labels]]
      /\ at'[t][k] = label
      /\ \A u \in Threads, j \in Keys : u # t \/ j # k => at'[u][j] = at[u][j]
    BY <1>1, GotoIs DEF CacheInv, TypeOK, Labels
<1>3. lock' \in [Keys -> Threads \cup {NoThread}] /\ start' \in [Threads -> Versions]
    BY DEF CacheInv, TypeOK, Get, Enter, Retry
<1>4. TypeOK'
    BY <1>1, <1>2, <1>3 DEF CacheInv, TypeOK
<1>5. Numbers' /\ Running'
    BY <1>1 DEF CacheInv, Numbers, Running
<1>6. Acquired'
    BY <1>1, <1>2 DEF CacheInv, Acquired
<1>7. Frames'
    <2>1. \/ \A j \in Keys : at[t][j] = "off"
          \/ at[t][k] = "enter" \/ at[t][k] = "store"
        BY DEF Get, Enter, Retry
    <2> QED
        BY <1>1, <1>2, <2>1, OfKeys DEF CacheInv, Frames
<1> QED
    BY <1>4, <1>5, <1>6, <1>7 DEF CacheInv

\* Lookup takes over an entry that was found, or begins an acquisition.
LEMMA LookupIs ==
    ASSUME CacheInv, NEW t \in Threads, NEW k \in Keys, Lookup(t, k)
    PROVE  LET e == entries[k] IN
           /\ \A u \in Threads, j \in Keys : u # t => at'[u][j] = at[u][j]
           /\ at' \in [Threads -> [Keys -> Labels]]
           /\ Hit(e) => at'[t][k] = "store" /\ e \in Entries(k)
           /\ ~Hit(e) /\ k # Parent => at'[t][k] = "monitor"
           /\ Hit(e) \/ k # Parent => \A j \in Keys \ {k} : at'[t][j] = at[t][j]
           /\ ~Hit(e) /\ k = Parent =>
                 at'[t][Parent] = "children" /\ \A s \in Sources : at'[t][s] = "enter"
           /\ DOMAIN value' = Threads
           /\ \A u \in Threads : DOMAIN value'[u] = Keys
           /\ \A u \in Threads, j \in Keys : u # t \/ j # k => value'[u][j] = value[u][j]
           /\ Hit(e) => value'[t][k] = e.value
           /\ ~Hit(e) => value' = value
           /\ Monitored(t, k, IF Hit(e) THEN e.tokens ELSE {},
                              IF Hit(e) THEN e.tokens ELSE {})
<1> DEFINE e == entries[k]
<1>1. /\ at' \in [Threads -> [Keys -> Labels]]
      /\ \A u \in Threads, j \in Keys : u # t => at'[u][j] = at[u][j]
      /\ Hit(e) => at'[t][k] = "store"
      /\ ~Hit(e) /\ k # Parent => at'[t][k] = "monitor"
      /\ Hit(e) \/ k # Parent => \A j \in Keys \ {k} : at'[t][j] = at[t][j]
      /\ ~Hit(e) /\ k = Parent =>
            at'[t][Parent] = "children" /\ \A s \in Sources : at'[t][s] = "enter"
    <2>1. CASE Hit(e)
        <3>1. Goto(t, k, "store") /\ "store" \in Labels
            BY <2>1 DEF Lookup, Labels
        <3> QED
            BY <2>1, <3>1, GotoIs DEF CacheInv, TypeOK
    <2>2. CASE ~Hit(e) /\ k # Parent
        <3>1. Goto(t, k, "monitor") /\ "monitor" \in Labels
            BY <2>2 DEF Lookup, Labels
        <3> QED
            BY <2>2, <3>1, GotoIs DEF CacheInv, TypeOK
    <2>3. CASE ~Hit(e) /\ k = Parent
        <3>1. at' = [at EXCEPT ![t] =
                        [j \in Keys |-> IF j = Parent THEN "children" ELSE "enter"]]
            BY <2>3 DEF Lookup
        <3> QED
            BY <2>3, <3>1, OfKeys DEF CacheInv, TypeOK, Labels
    <2> QED
        BY <2>1, <2>2, <2>3
<1>2. /\ DOMAIN value' = Threads
      /\ \A u \in Threads : DOMAIN value'[u] = Keys
      /\ \A u \in Threads, j \in Keys : u # t \/ j # k => value'[u][j] = value[u][j]
      /\ Hit(e) => value'[t][k] = e.value
      /\ ~Hit(e) => value' = value
    <2>1. DOMAIN value = Threads /\ \A u \in Threads : DOMAIN value[u] = Keys
        BY DEF CacheInv, TypeOK
    <2>2. CASE Hit(e)
        <3>1. value' = [value EXCEPT ![t][k] = e.value]
            BY <2>2 DEF Lookup
        <3> QED
            BY <2>1, <2>2, <3>1
    <2>3. CASE ~Hit(e)
        <3>1. value' = value
            BY <2>3 DEF Lookup
        <3> QED
            BY <2>1, <2>3, <3>1
    <2> QED
        BY <2>2, <2>3
<1>3. Hit(e) => e \in Entries(k)
    BY DEF CacheInv, TypeOK, Hit
<1>4. Monitored(t, k, IF Hit(e) THEN e.tokens ELSE {}, IF Hit(e) THEN e.tokens ELSE {})
    BY DEF Lookup, HitTokens
<1> QED
    BY <1>1, <1>2, <1>3, <1>4

\* Lookup keeps the invariant.
LEMMA LookupKeepsCacheInv ==
    ASSUME CacheInv, NEW t \in Threads, NEW k \in Keys, Lookup(t, k)
    PROVE  CacheInv'
<1> DEFINE e == entries[k]
           toks == IF Hit(e) THEN e.tokens ELSE {}
<1>1. /\ at[t][k] = "lookup"
      /\ UNCHANGED <<use, data, triggered, gen, async, entries, lock, start>>
    BY DEF Lookup
<1>2. Hit(e) => e \in Entries(k)
    BY LookupIs
<1>3. Monitored(t, k, toks, toks) /\ toks \in SUBSET Tokens
    BY <1>2, LookupIs DEF Entries
<1>4. tokens' \in [Threads -> [Keys -> SUBSET Tokens]]
    BY <1>3, MonitoredIs DEF CacheInv, TypeOK
<1>5. /\ at' \in [Threads -> [Keys -> Labels]]
      /\ \A u \in Threads, j \in Keys : u # t => at'[u][j] = at[u][j]
      /\ Hit(e) => at'[t][k] = "store"
      /\ ~Hit(e) /\ k # Parent => at'[t][k] = "monitor"
      /\ Hit(e) \/ k # Parent => \A j \in Keys \ {k} : at'[t][j] = at[t][j]
      /\ ~Hit(e) /\ k = Parent =>
            at'[t][Parent] = "children" /\ \A s \in Sources : at'[t][s] = "enter"
    BY LookupIs
<1>6. /\ DOMAIN value' = Threads
      /\ \A u \in Threads : DOMAIN value'[u] = Keys
      /\ \A u \in Threads, j \in Keys : u # t \/ j # k => value'[u][j] = value[u][j]
      /\ Hit(e) => value'[t][k] = e.value
      /\ ~Hit(e) => value' = value
    BY LookupIs
<1>7. /\ DOMAIN old' = Threads
      /\ \A u \in Threads : DOMAIN old'[u] = Keys
      /\ \A u \in Threads, j \in Keys : old'[u][j] \in {NoEntry} \cup Entries(j)
    BY DEF CacheInv, TypeOK, Lookup
<1>8. Hit(e) => e.value \in [Of(k) -> 0..MaxWrites]
    BY <1>2 DEF Entries
<1>9. \A u \in Threads, j \in Keys :
         value'[u][j] \in {NoValue} \cup [Of(j) -> 0..MaxWrites]
    BY <1>6, <1>8 DEF CacheInv, TypeOK
<1>10. TypeOK'
    BY <1>1, <1>4, <1>5, <1>6, <1>7, <1>9 DEF CacheInv, TypeOK
<1>11. Numbers' /\ Running'
    BY <1>1 DEF CacheInv, Numbers, Running
<1>12. Acquired'
    <2> SUFFICES ASSUME NEW u \in Threads, NEW j \in Keys, at'[u][j] \in {"store", "done"}
                 PROVE  value'[u][j] \in [Of(j) -> 0..MaxWrites]
        BY DEF Acquired
    <2>1. CASE u = t /\ j = k
        BY <2>1, <1>5, <1>6, <1>8
    <2>2. CASE u # t \/ j # k
        <3>1. at'[u][j] = at[u][j]
            BY <2>2, <1>5, OfKeys DEF Keys
        <3> QED
            BY <2>2, <3>1, <1>6 DEF CacheInv, Acquired
    <2> QED
        BY <2>1, <2>2
<1>13. Frames'
    BY <1>1, <1>5, OfKeys DEF CacheInv, Frames
<1> QED
    BY <1>10, <1>11, <1>12, <1>13 DEF CacheInv

\* MonitorSignal and MonitorAsync give the frame of a source its token.
LEMMA MonitorKeepsCacheInv ==
    ASSUME CacheInv, NEW t \in Threads, NEW k \in Keys,
           MonitorSignal(t, k) \/ MonitorAsync(t, k)
    PROVE  CacheInv'
<1>1. /\ at[t][k] = "monitor" /\ Goto(t, k, "read") /\ k \in Sources
      /\ UNCHANGED <<use, data, triggered, gen, entries, lock, old, value, start>>
    BY VolatileCacheAssumption
       DEF MonitorSignal, MonitorAsync, CacheInv, TypeOK, AllUses
<1>2. /\ at' \in [Threads -> [Keys -> Labels]]
      /\ at'[t][k] = "read"
      /\ \A u \in Threads, j \in Keys : u # t \/ j # k => at'[u][j] = at[u][j]
    BY <1>1, GotoIs DEF CacheInv, TypeOK, Labels
<1>3. tokens' \in [Threads -> [Keys -> SUBSET Tokens]]
    <2>0. tokens \in [Threads -> [Keys -> SUBSET Tokens]] /\ {} \in SUBSET Tokens
        BY DEF CacheInv, TypeOK
    <2>1. CASE MonitorSignal(t, k)
        <3>1. gen[k] \in 0..MaxWrites
            BY <1>1 DEF CacheInv, TypeOK, Versions
        <3>2. {[signal |-> k, gen |-> gen[k]]} \in SUBSET Tokens
            BY <1>1, <3>1 DEF Tokens, SignalTokens
        <3>3. Monitored(t, k, {[signal |-> k, gen |-> gen[k]]}, {})
            BY <2>1 DEF MonitorSignal
        <3> QED
            BY <2>0, <3>2, <3>3, MonitoredIs
    <2>2. CASE MonitorAsync(t, k)
        <3>1. PICK n \in 1..MaxAsync : Monitored(t, k, {[async |-> n]}, {})
            BY <2>2 DEF MonitorAsync
        <3>2. {[async |-> n]} \in SUBSET Tokens
            BY DEF Tokens, AsyncTokens
        <3> QED
            BY <2>0, <3>1, <3>2, MonitoredIs
    <2> QED
        BY <2>1, <2>2
<1>4. /\ async' \in [1..MaxAsync -> [task : {"new", "running", "failed", "finished"},
                                     of : Keys, tokens : SUBSET SignalTokens]]
      /\ Running'
    <2>1. CASE MonitorSignal(t, k)
        BY <2>1 DEF MonitorSignal, CacheInv, TypeOK, Running
    <2>2. CASE MonitorAsync(t, k)
        <3>1. PICK n \in 1..MaxAsync : async' =
                [async EXCEPT ![n] = [task |-> "running", of |-> k, tokens |-> {}]]
            BY <2>2 DEF MonitorAsync
        <3> QED
            BY <1>1, <3>1 DEF CacheInv, TypeOK, Running
    <2> QED
        BY <2>1, <2>2
<1>5. TypeOK'
    BY <1>1, <1>2, <1>3, <1>4 DEF CacheInv, TypeOK
<1>6. Numbers'
    BY <1>1 DEF CacheInv, Numbers
<1>7. Acquired'
    BY <1>1, <1>2 DEF CacheInv, Acquired
<1>8. Frames'
    BY <1>1, <1>2, OfKeys DEF CacheInv, Frames
<1> QED
    BY <1>4, <1>5, <1>6, <1>7, <1>8 DEF CacheInv

\* ReadDatum acquires a version of its source.
LEMMA ReadIs ==
    ASSUME CacheInv, NEW t \in Threads, NEW k \in Keys, ReadDatum(t, k)
    PROVE  /\ k \in Sources
           /\ at' \in [Threads -> [Keys -> Labels]]
           /\ at'[t][k] = "store"
           /\ \A u \in Threads, j \in Keys : u # t \/ j # k => at'[u][j] = at[u][j]
           /\ DOMAIN value' = Threads
           /\ \A u \in Threads : DOMAIN value'[u] = Keys
           /\ \A u \in Threads, j \in Keys : u # t \/ j # k => value'[u][j] = value[u][j]
           /\ value'[t][k] = [s \in {k} |-> data[s]]
           /\ value'[t][k] \in [Of(k) -> 0..MaxWrites]
<1>1. at[t][k] = "read" /\ Goto(t, k, "store")
    BY DEF ReadDatum
<1>2. k \in Sources
    BY <1>1 DEF CacheInv, Frames, Keys
<1>3. /\ at' \in [Threads -> [Keys -> Labels]]
      /\ at'[t][k] = "store"
      /\ \A u \in Threads, j \in Keys : u # t \/ j # k => at'[u][j] = at[u][j]
    BY <1>1, GotoIs DEF CacheInv, TypeOK, Labels
<1>4. /\ DOMAIN value' = Threads
      /\ \A u \in Threads : DOMAIN value'[u] = Keys
      /\ \A u \in Threads, j \in Keys : u # t \/ j # k => value'[u][j] = value[u][j]
      /\ value'[t][k] = [s \in {k} |-> data[s]]
    BY DEF CacheInv, TypeOK, ReadDatum
<1>5. value'[t][k] \in [Of(k) -> 0..MaxWrites]
    BY <1>2, <1>4, OfKeys DEF CacheInv, TypeOK, Versions
<1> QED
    BY <1>2, <1>3, <1>4, <1>5

\* ReadDatum keeps the invariant.
LEMMA ReadKeepsCacheInv ==
    ASSUME CacheInv, NEW t \in Threads, NEW k \in Keys, ReadDatum(t, k)
    PROVE  CacheInv'
<1>1. /\ at[t][k] = "read" /\ k \in Sources
      /\ UNCHANGED <<use, data, triggered, gen, async, entries, lock, old, start>>
    BY ReadIs DEF ReadDatum
<1>2. /\ at' \in [Threads -> [Keys -> Labels]]
      /\ at'[t][k] = "store"
      /\ \A u \in Threads, j \in Keys : u # t \/ j # k => at'[u][j] = at[u][j]
    BY ReadIs
<1>3. tokens[t][k] \in SUBSET Tokens
    BY DEF CacheInv, TypeOK
<1>4. tokens' \in [Threads -> [Keys -> SUBSET Tokens]]
    BY <1>3, MonitoredIs DEF ReadDatum, CacheInv, TypeOK
<1>5. /\ DOMAIN value' = Threads
      /\ \A u \in Threads : DOMAIN value'[u] = Keys
      /\ \A u \in Threads, j \in Keys : u # t \/ j # k => value'[u][j] = value[u][j]
      /\ value'[t][k] \in [Of(k) -> 0..MaxWrites]
    BY ReadIs
<1>6. \A u \in Threads, j \in Keys :
         value'[u][j] \in {NoValue} \cup [Of(j) -> 0..MaxWrites]
    <2> SUFFICES ASSUME NEW u \in Threads, NEW j \in Keys
                 PROVE  value'[u][j] \in {NoValue} \cup [Of(j) -> 0..MaxWrites]
        OBVIOUS
    <2>1. CASE u = t /\ j = k
        BY <2>1, <1>5
    <2>2. CASE u # t \/ j # k
        BY <2>2, <1>5 DEF CacheInv, TypeOK
    <2> QED
        BY <2>1, <2>2
<1>7. TypeOK'
    BY <1>1, <1>2, <1>4, <1>5, <1>6 DEF CacheInv, TypeOK
<1>8. Numbers' /\ Running'
    BY <1>1 DEF CacheInv, Numbers, Running
<1>9. Acquired'
    <2> SUFFICES ASSUME NEW u \in Threads, NEW j \in Keys, at'[u][j] \in {"store", "done"}
                 PROVE  value'[u][j] \in [Of(j) -> 0..MaxWrites]
        BY DEF Acquired
    <2>1. CASE u = t /\ j = k
        BY <2>1, <1>5
    <2>2. CASE u # t \/ j # k
        BY <2>2, <1>2, <1>5 DEF CacheInv, Acquired
    <2> QED
        BY <2>1, <2>2
<1>10. Frames'
    BY <1>1, <1>2, OfKeys DEF CacheInv, Frames
<1> QED
    BY <1>7, <1>8, <1>9, <1>10 DEF CacheInv

\* Store keeps the entry and ends the Get, or hands its value to Parent.
LEMMA StoreIs ==
    ASSUME CacheInv, NEW t \in Threads, NEW k \in Keys, Store(t, k)
    PROVE  /\ at' \in [Threads -> [Keys -> Labels]]
           /\ at'[t][k] = IF Nested(t, k) THEN "done" ELSE "off"
           /\ \A u \in Threads, j \in Keys : u # t \/ j # k => at'[u][j] = at[u][j]
           /\ DOMAIN value' = Threads
           /\ \A u \in Threads : DOMAIN value'[u] = Keys
           /\ \A u \in Threads, j \in Keys : u # t \/ j # k => value'[u][j] = value[u][j]
           /\ Nested(t, k) => value'[t][k] = value[t][k]
           /\ Nested(t, k) \/ value'[t][k] = NoValue
<1> DEFINE label == IF Nested(t, k) THEN "done" ELSE "off"
<1>1. Goto(t, k, label) /\ label \in {"done", "off"}
    BY DEF Store
<1>2. /\ at' \in [Threads -> [Keys -> Labels]]
      /\ at'[t][k] = label
      /\ \A u \in Threads, j \in Keys : u # t \/ j # k => at'[u][j] = at[u][j]
    BY <1>1, GotoIs DEF CacheInv, TypeOK, Labels
<1>3. /\ DOMAIN value' = Threads
      /\ \A u \in Threads : DOMAIN value'[u] = Keys
      /\ \A u \in Threads, j \in Keys : u # t \/ j # k => value'[u][j] = value[u][j]
      /\ Nested(t, k) => value'[t][k] = value[t][k]
      /\ Nested(t, k) \/ value'[t][k] = NoValue
    <2>1. DOMAIN value = Threads /\ \A u \in Threads : DOMAIN value[u] = Keys
        BY DEF CacheInv, TypeOK
    <2>2. IF Nested(t, k) THEN value' = value
          ELSE value' = [value EXCEPT ![t][k] = NoValue]
        BY DEF Store
    <2> QED
        BY <2>1, <2>2
<1> QED
    BY <1>2, <1>3

\* Store keeps the invariant.
LEMMA StoreKeepsCacheInv ==
    ASSUME CacheInv, NEW t \in Threads, NEW k \in Keys, Store(t, k)
    PROVE  CacheInv'
<1> DEFINE label == IF Nested(t, k) THEN "done" ELSE "off"
<1>1. /\ at[t][k] = "store"
      /\ UNCHANGED <<use, data, triggered, gen, async>>
    BY DEF Store
<1>2. /\ at' \in [Threads -> [Keys -> Labels]]
      /\ at'[t][k] = label
      /\ \A u \in Threads, j \in Keys : u # t \/ j # k => at'[u][j] = at[u][j]
    BY StoreIs
<1>3. value[t][k] \in [Of(k) -> 0..MaxWrites]
    BY <1>1 DEF CacheInv, Acquired
<1>4. tokens[t][k] \in SUBSET Tokens
    BY DEF CacheInv, TypeOK
<1>5. [value |-> value[t][k], tokens |-> tokens[t][k]] \in Entries(k)
    BY <1>3, <1>4 DEF Entries
<1>6. /\ DOMAIN entries' = Keys
      /\ \A j \in Keys : entries'[j] \in {NoEntry} \cup Entries(j)
    BY <1>5 DEF CacheInv, TypeOK, Store
<1>7. /\ DOMAIN old' = Threads
      /\ \A u \in Threads : DOMAIN old'[u] = Keys
      /\ \A u \in Threads, j \in Keys : old'[u][j] \in {NoEntry} \cup Entries(j)
    BY DEF CacheInv, TypeOK, Store
<1>8. /\ DOMAIN value' = Threads
      /\ \A u \in Threads : DOMAIN value'[u] = Keys
      /\ \A u \in Threads, j \in Keys : u # t \/ j # k => value'[u][j] = value[u][j]
      /\ Nested(t, k) => value'[t][k] = value[t][k]
      /\ Nested(t, k) \/ value'[t][k] = NoValue
    BY StoreIs
<1>9. start' \in [Threads -> Versions]
    <2>1. [s \in Sources |-> 0] \in Versions
        BY VolatileCacheAssumption DEF Versions
    <2>2. \/ start' = start
          \/ start' = [start EXCEPT ![t] = [s \in Sources |-> 0]]
        BY DEF Store
    <2> QED
        BY <2>1, <2>2 DEF CacheInv, TypeOK
<1>10. lock' \in [Keys -> Threads \cup {NoThread}]
    BY DEF CacheInv, TypeOK, Store
<1>11. tokens' \in [Threads -> [Keys -> SUBSET Tokens]]
    BY DEF CacheInv, TypeOK, Store
<1>12. TypeOK'
    <2>1. \A u \in Threads, j \in Keys :
             value'[u][j] \in {NoValue} \cup [Of(j) -> 0..MaxWrites]
        BY <1>3, <1>8 DEF CacheInv, TypeOK
    <2> QED
        BY <1>1, <1>2, <1>6, <1>7, <1>8, <1>9, <1>10, <1>11, <2>1 DEF CacheInv, TypeOK
<1>13. Numbers' /\ Running'
    BY <1>1 DEF CacheInv, Numbers, Running
<1>14. Acquired'
    BY <1>2, <1>3, <1>8 DEF CacheInv, Acquired
<1>15. Frames'
    <2>1. Nested(t, k) => k # Parent /\ at[t][Parent] = "children"
        BY <1>1, OfKeys DEF CacheInv, Frames, Nested, Keys
    <2>2. ~Nested(t, k) => k = Parent \/ at[t][Parent] = "off"
        BY DEF Nested
    <2> QED
        BY <1>1, <1>2, <2>1, <2>2, OfKeys DEF CacheInv, Frames
<1> QED
    BY <1>12, <1>13, <1>14, <1>15 DEF CacheInv

\* Combine ends the acquisitions of the sources.
LEMMA CombineIs ==
    ASSUME CacheInv, NEW t \in Threads, Combine(t)
    PROVE  /\ at' \in [Threads -> [Keys -> Labels]]
           /\ at'[t][Parent] = "store"
           /\ \A s \in Sources : at'[t][s] = "off"
           /\ \A u \in Threads \ {t} : at'[u] = at[u]
           /\ DOMAIN value' = Threads
           /\ \A u \in Threads : DOMAIN value'[u] = Keys
           /\ \A u \in Threads \ {t} : value'[u] = value[u]
           /\ value'[t][Parent] = [s \in Sources |-> value[t][s][s]]
           /\ \A s \in Sources : value'[t][s] = NoValue
<1>1. /\ at' \in [Threads -> [Keys -> Labels]]
      /\ at'[t][Parent] = "store"
      /\ \A s \in Sources : at'[t][s] = "off"
      /\ \A u \in Threads \ {t} : at'[u] = at[u]
    BY OfKeys DEF Combine, CacheInv, TypeOK, Labels
<1>2. /\ DOMAIN value' = Threads
      /\ \A u \in Threads : DOMAIN value'[u] = Keys
      /\ \A u \in Threads \ {t} : value'[u] = value[u]
      /\ value'[t][Parent] = [s \in Sources |-> value[t][s][s]]
      /\ \A s \in Sources : value'[t][s] = NoValue
    BY OfKeys DEF Combine, CacheInv, TypeOK
<1> QED
    BY <1>1, <1>2

\* Combine keeps the invariant.
LEMMA CombineKeepsCacheInv ==
    ASSUME CacheInv, NEW t \in Threads, Combine(t)
    PROVE  CacheInv'
<1>1. /\ at[t][Parent] = "children"
      /\ \A s \in Sources : at[t][s] = "done"
      /\ UNCHANGED <<use, data, triggered, gen, async, entries, lock, old, tokens, start>>
    BY DEF Combine
<1>2. /\ at' \in [Threads -> [Keys -> Labels]]
      /\ at'[t][Parent] = "store"
      /\ \A s \in Sources : at'[t][s] = "off"
      /\ \A u \in Threads \ {t} : at'[u] = at[u]
    BY CombineIs
<1>3. \A s \in Sources : value[t][s][s] \in 0..MaxWrites
    BY <1>1, OfKeys DEF CacheInv, Acquired
<1>4. /\ DOMAIN value' = Threads
      /\ \A u \in Threads : DOMAIN value'[u] = Keys
      /\ \A u \in Threads \ {t} : value'[u] = value[u]
      /\ value'[t][Parent] = [s \in Sources |-> value[t][s][s]]
      /\ \A s \in Sources : value'[t][s] = NoValue
    BY CombineIs
<1>5. value'[t][Parent] \in [Of(Parent) -> 0..MaxWrites]
    BY <1>3, <1>4, OfKeys
<1>6. \A u \in Threads, j \in Keys :
         value'[u][j] \in {NoValue} \cup [Of(j) -> 0..MaxWrites]
    BY <1>4, <1>5 DEF CacheInv, TypeOK, Keys
<1>7. TypeOK'
    BY <1>1, <1>2, <1>4, <1>6 DEF CacheInv, TypeOK
<1>8. Numbers' /\ Running'
    BY <1>1 DEF CacheInv, Numbers, Running
<1>9. Acquired'
    BY <1>2, <1>4, <1>5 DEF CacheInv, Acquired, Keys
<1>10. Frames'
    BY <1>1, <1>2, OfKeys DEF CacheInv, Frames
<1> QED
    BY <1>7, <1>8, <1>9, <1>10 DEF CacheInv

\* Writers and the tasks of asynchronous tokens leave the threads alone.
LEMMA OthersKeepCacheInv ==
    ASSUME CacheInv,
           \/ \E s \in Sources : Write(s) \/ Trigger(s)
           \/ \E n \in 1..MaxAsync : TaskRuns(n)
    PROVE  CacheInv'
<1>1. UNCHANGED <<use, entries, lock, at, old, value, tokens, start>>
    BY DEF Write, Trigger, TaskRuns, frameVars
<1>2. Frames' /\ Acquired'
    BY <1>1 DEF CacheInv, Frames, Acquired
<1>3. /\ data' \in Versions /\ triggered' \in Versions /\ gen' \in Versions
      /\ Numbers'
    <2>1. CASE \E s \in Sources : Write(s)
        BY <2>1, VolatileCacheAssumption DEF Write, CacheInv, TypeOK, Numbers, Versions
    <2>2. CASE \E s \in Sources : Trigger(s)
        <3>1. PICK s \in Sources : Trigger(s)
            BY <2>2
        <3>2. /\ triggered[s] < data[s]
              /\ gen' = [gen EXCEPT ![s] = gen[s] + 1]
              /\ triggered' = [triggered EXCEPT ![s] = data[s]]
              /\ data' = data
            BY <3>1 DEF Trigger, Bump
        <3> QED
            BY <3>2, VolatileCacheAssumption DEF CacheInv, TypeOK, Numbers, Versions
    <2>3. CASE \E n \in 1..MaxAsync : TaskRuns(n)
        BY <2>3 DEF TaskRuns, CacheInv, TypeOK, Numbers
    <2> QED
        BY <2>1, <2>2, <2>3
<1>4. /\ async' \in [1..MaxAsync -> [task : {"new", "running", "failed", "finished"},
                                     of : Keys, tokens : SUBSET SignalTokens]]
      /\ Running'
    <2>1. CASE \E s \in Sources : Write(s) \/ Trigger(s)
        BY <2>1 DEF Write, Trigger, CacheInv, TypeOK, Running
    <2>2. CASE \E n \in 1..MaxAsync : TaskRuns(n)
        <3>1. PICK n \in 1..MaxAsync : TaskRuns(n)
            BY <2>2
        <3> DEFINE s == async[n].of
        <3>2. s \in Sources /\ gen[s] \in 0..MaxWrites
            BY <3>1 DEF TaskRuns, CacheInv, Running, TypeOK, Versions
        <3>3. [signal |-> s, gen |-> gen[s]] \in SignalTokens
            BY <3>2 DEF SignalTokens
        <3>4. \E job \in {"failed", "finished"}, toks \in SUBSET SignalTokens :
                 async' = [async EXCEPT ![n] = [task |-> job, of |-> s, tokens |-> toks]]
            BY <3>1, <3>3 DEF TaskRuns
        <3> QED
            BY <3>2, <3>4, OfKeys DEF CacheInv, TypeOK, Running
    <2> QED
        BY <2>1, <2>2
<1>5. TypeOK'
    BY <1>1, <1>3, <1>4 DEF CacheInv, TypeOK
<1> QED
    BY <1>2, <1>3, <1>4, <1>5 DEF CacheInv

\* Every step keeps the invariant.
LEMMA NextCacheInv == CacheInv /\ [Next]_vars => CacheInv'
<1> SUFFICES ASSUME CacheInv, [Next]_vars PROVE CacheInv'
    OBVIOUS
<1>1. CASE UNCHANGED vars
    BY <1>1 DEF vars, CacheInv, TypeOK, Numbers, Frames, Acquired, Running
<1>2. CASE \E t \in Threads, k \in Keys : Get(t, k) \/ Enter(t, k) \/ Retry(t, k)
    BY <1>2, MovesKeepCacheInv
<1>3. CASE \E t \in Threads, k \in Keys : Lookup(t, k)
    BY <1>3, LookupKeepsCacheInv
<1>4. CASE \E t \in Threads, k \in Keys : MonitorSignal(t, k) \/ MonitorAsync(t, k)
    BY <1>4, MonitorKeepsCacheInv
<1>5. CASE \E t \in Threads, k \in Keys : ReadDatum(t, k)
    BY <1>5, ReadKeepsCacheInv
<1>6. CASE \E t \in Threads, k \in Keys : Store(t, k)
    BY <1>6, StoreKeepsCacheInv
<1>7. CASE \E t \in Threads : Combine(t)
    BY <1>7, CombineKeepsCacheInv
<1>8. CASE \/ \E s \in Sources : Write(s) \/ Trigger(s)
           \/ \E n \in 1..MaxAsync : TaskRuns(n)
    BY <1>8, OthersKeepCacheInv
<1> QED
    BY <1>1, <1>2, <1>3, <1>4, <1>5, <1>6, <1>7, <1>8 DEF Next

\* The state of the cache has its types; in particular no signal is triggered more
\* often than its datum is written.
THEOREM CacheTypeOK == Spec => []TypeOK
<1>1. CacheInv => TypeOK
    BY DEF CacheInv
<1> QED
    BY <1>1, InitCacheInv, NextCacheInv, PTL DEF Spec

------------------------------------------------------------------------------
\* Among toks there is, for each source of S, a token that was current no later than
\* the version of it in v: when the counters of the signals are g and the versions
\* they were last triggered with are last.
Noticed(v, toks, S, g, last) ==
    \A s \in S :
        \E tok \in toks :
            /\ tok \in SignalTokens /\ tok.signal = s
            /\ tok.gen <= g[s]
            /\ tok.gen = g[s] => v[s] >= last[s]

\* The sources of k that are monitored by their signal
Signalled(k) == Of(k) \ use.async

EntriesNotice ==
    \A k \in Keys :
        entries[k] # NoEntry =>
            Noticed(entries[k].value, entries[k].tokens, Signalled(k), gen, triggered)

\* The signal is monitored before the datum is read.
ReadsNotice ==
    \A t \in Threads, k \in Sources :
        at[t][k] = "read" =>
            Noticed(data, tokens[t][k], Signalled(k), gen, triggered)

StoresNotice ==
    \A t \in Threads, k \in Keys :
        at[t][k] = "store" =>
            Noticed(value[t][k], tokens[t][k], Signalled(k), gen, triggered)

\* What a nested Get returned has been bubbled up.
ParentsNotice ==
    \A t \in Threads, k \in Sources :
        at[t][k] \in {"store", "done"} /\ at[t][Parent] = "children" =>
            Noticed(value[t][k], tokens[t][Parent], Signalled(k), gen, triggered)

\* Nothing acquired is older than the beginning of the Get.
NotOlder ==
    \A t \in Threads :
        /\ \A s \in Sources : start[t][s] <= triggered[s]
        /\ \A k \in Keys :
              at[t][k] \in {"store", "done"} =>
                  \A s \in Signalled(k) : value[t][k][s] >= start[t][s]

FreshInv ==
    /\ EntriesNotice /\ ReadsNotice /\ StoresNotice /\ ParentsNotice
    /\ NotOlder

\* More tokens notice as much.
LEMMA MoreTokens ==
    ASSUME NEW v, NEW toks, NEW more, NEW S, NEW g, NEW last,
           Noticed(v, toks, S, g, last), toks \subseteq more
    PROVE  Noticed(v, more, S, g, last)
    BY DEF Noticed

\* A trigger makes the tokens of its signal obsolete and leaves the others.
LEMMA TriggerIsNoticed ==
    ASSUME NEW v, NEW toks, NEW S \in SUBSET Sources,
           NEW g \in [Sources -> Nat], NEW last \in [Sources -> Nat],
           NEW s \in Sources, NEW n \in Nat,
           Noticed(v, toks, S, g, last)
    PROVE  Noticed(v, toks, S, [g EXCEPT ![s] = @ + 1], [last EXCEPT ![s] = n])
<1> DEFINE g2 == [g EXCEPT ![s] = @ + 1]
           last2 == [last EXCEPT ![s] = n]
<1> SUFFICES ASSUME NEW r \in S
             PROVE  \E tok \in toks :
                       /\ tok \in SignalTokens /\ tok.signal = r
                       /\ tok.gen <= g2[r]
                       /\ tok.gen = g2[r] => v[r] >= last2[r]
    BY DEF Noticed
<1>1. PICK tok \in toks :
         /\ tok \in SignalTokens /\ tok.signal = r
         /\ tok.gen <= g[r]
         /\ tok.gen = g[r] => v[r] >= last[r]
    BY DEF Noticed
<1>2. tok.gen \in Nat
    BY <1>1, VolatileCacheAssumption DEF SignalTokens
<1>3. tok.gen <= g2[r] /\ (tok.gen = g2[r] => v[r] >= last2[r])
    <2>1. CASE r = s
        BY <2>1, <1>1, <1>2
    <2>2. CASE r # s
        BY <2>2, <1>1
    <2> QED
        BY <2>1, <2>2
<1> QED
    BY <1>1, <1>3

\* No signal token is an asynchronous one.
LEMMA TokensDiffer == SignalTokens \cap AsyncTokens = {}
<1> SUFFICES ASSUME NEW tok \in SignalTokens, tok \in AsyncTokens PROVE FALSE
    OBVIOUS
<1>1. DOMAIN tok = {"signal", "gen"}
    BY DEF SignalTokens
<1>2. DOMAIN tok = {"async"}
    BY DEF AsyncTokens
<1> QED
    BY <1>1, <1>2

\* What every token of a set still being current says of the values.
LEMMA CurrentIsFresh ==
    ASSUME NEW v, NEW toks, NEW S,
           Noticed(v, toks, S, gen, triggered), \A tok \in toks : IsCurrent(tok)
    PROVE  \A s \in S : v[s] >= triggered[s]
<1> TAKE s \in S
<1>1. PICK tok \in toks :
         /\ tok \in SignalTokens /\ tok.signal = s
         /\ tok.gen = gen[s] => v[s] >= triggered[s]
    BY DEF Noticed
<1>2. SignalCurrent(tok)
    BY <1>1, TokensDiffer DEF IsCurrent
<1> QED
    BY <1>1, <1>2 DEF SignalCurrent

\* The invariant holds at the beginning.
LEMMA InitFreshInv == Init => FreshInv
<1> SUFFICES ASSUME Init PROVE FreshInv
    OBVIOUS
<1>1. EntriesNotice /\ ReadsNotice /\ StoresNotice /\ ParentsNotice
    BY OfKeys DEF Init, EntriesNotice, ReadsNotice, StoresNotice, ParentsNotice
<1>2. NotOlder
    BY DEF Init, NotOlder
<1> QED
    BY <1>1, <1>2 DEF FreshInv

\* Get, Enter and Retry put a frame before its lookup.
LEMMA MovesKeepFreshInv ==
    ASSUME CacheInv, FreshInv, NEW t \in Threads, NEW k \in Keys,
           Get(t, k) \/ Enter(t, k) \/ Retry(t, k)
    PROVE  FreshInv'
<1> DEFINE label == IF Get(t, k) THEN "enter" ELSE "lookup"
<1>1. /\ Goto(t, k, label) /\ label \in {"enter", "lookup"}
      /\ UNCHANGED <<use, data, triggered, gen, entries, value, tokens>>
    BY DEF Get, Enter, Retry
<1>2. /\ at'[t][k] = label
      /\ \A u \in Threads, j \in Keys : u # t \/ j # k => at'[u][j] = at[u][j]
    BY <1>1, GotoIs DEF CacheInv, TypeOK, Labels
<1>3. EntriesNotice'
    BY <1>1 DEF FreshInv, EntriesNotice, Signalled
<1>4. ReadsNotice'
    BY <1>1, <1>2, OfKeys DEF FreshInv, ReadsNotice, Signalled
<1>5. StoresNotice'
    BY <1>1, <1>2 DEF FreshInv, StoresNotice, Signalled
<1>6. ParentsNotice'
    BY <1>1, <1>2, OfKeys DEF FreshInv, ParentsNotice, Signalled
<1>7. NotOlder'
    <2>1. CASE Get(t, k)
        <3>1. /\ start' = [start EXCEPT ![t] = triggered]
              /\ \A j \in Keys : at[t][j] = "off"
            BY <2>1 DEF Get
        <3>2. /\ \A u \in Threads, s \in Sources : start'[u][s] <= triggered[s]
              /\ \A u \in Threads \ {t} : start'[u] = start[u]
            BY <3>1 DEF CacheInv, TypeOK, Versions, FreshInv, NotOlder
        <3>3. \A j \in Keys : at'[t][j] \notin {"store", "done"}
            BY <1>1, <1>2, <3>1
        <3> QED
            BY <1>1, <1>2, <3>2, <3>3 DEF FreshInv, NotOlder, Signalled
    <2>2. CASE ~Get(t, k)
        <3>1. start' = start
            BY <2>2 DEF Enter, Retry
        <3> QED
            BY <1>1, <1>2, <3>1 DEF FreshInv, NotOlder, Signalled
    <2> QED
        BY <2>1, <2>2
<1> QED
    BY <1>3, <1>4, <1>5, <1>6, <1>7 DEF FreshInv

\* Lookup hands on the tokens of an entry that it takes over.
LEMMA LookupKeepsFreshInv ==
    ASSUME CacheInv, FreshInv, NEW t \in Threads, NEW k \in Keys, Lookup(t, k)
    PROVE  FreshInv'
<1> DEFINE e == entries[k]
           toks == IF Hit(e) THEN e.tokens ELSE {}
<1>1. at[t][k] = "lookup" /\ UNCHANGED <<use, data, triggered, gen, entries, start>>
    BY DEF Lookup
<1>2. /\ \A u \in Threads, j \in Keys : u # t => at'[u][j] = at[u][j]
      /\ Hit(e) => at'[t][k] = "store" /\ e \in Entries(k)
      /\ ~Hit(e) /\ k # Parent => at'[t][k] = "monitor"
      /\ Hit(e) \/ k # Parent => \A j \in Keys \ {k} : at'[t][j] = at[t][j]
      /\ ~Hit(e) /\ k = Parent =>
            at'[t][Parent] = "children" /\ \A s \in Sources : at'[t][s] = "enter"
      /\ \A u \in Threads, j \in Keys : u # t \/ j # k => value'[u][j] = value[u][j]
      /\ Hit(e) => value'[t][k] = e.value
    BY LookupIs
<1>3. /\ tokens'[t][k] = toks
      /\ \A j \in Keys \ {k} :
            tokens'[t][j] = IF j = Parent /\ Nested(t, k) THEN tokens[t][j] \cup toks
                            ELSE tokens[t][j]
      /\ \A u \in Threads \ {t} : tokens'[u] = tokens[u]
    <2>1. Monitored(t, k, toks, toks) /\ toks \in SUBSET Tokens
        BY LookupIs DEF Entries
    <2>2. tokens \in [Threads -> [Keys -> SUBSET Tokens]]
        BY DEF CacheInv, TypeOK
    <2>3. ASSUME NEW x \in SUBSET Tokens, Monitored(t, k, x, x)
          PROVE  /\ tokens'[t][k] = x
                 /\ \A j \in Keys \ {k} :
                       tokens'[t][j] = IF j = Parent /\ Nested(t, k)
                                       THEN tokens[t][j] \cup x ELSE tokens[t][j]
                 /\ \A u \in Threads \ {t} : tokens'[u] = tokens[u]
        BY <2>2, <2>3, MonitoredIs
    <2> QED
        BY <2>1, <2>3
<1>4. Hit(e) => /\ Noticed(e.value, e.tokens, Signalled(k), gen, triggered)
                /\ \A s \in Signalled(k) : e.value[s] >= triggered[s]
    BY CurrentIsFresh DEF FreshInv, EntriesNotice, Hit
<1>5. \A j \in Keys : Signalled(j)' = Signalled(j)
    BY <1>1 DEF Signalled
<1>6. EntriesNotice'
    BY <1>1, <1>5 DEF FreshInv, EntriesNotice
<1>7. \A u \in Threads, j \in Keys :
         at'[u][j] \in {"read", "store", "done"} =>
             \/ u = t /\ j = k /\ Hit(e) /\ at'[u][j] = "store"
             \/ (u # t \/ j # k) /\ at'[u][j] = at[u][j]
    BY <1>2, OfKeys DEF Keys
<1>8. \A u \in Threads, j \in Sources :
         u # t \/ j # k => tokens'[u][j] = tokens[u][j]
    BY <1>3, OfKeys
<1>9. ReadsNotice'
    <2> SUFFICES ASSUME NEW u \in Threads, NEW j \in Sources, at'[u][j] = "read"
                 PROVE  Noticed(data', tokens'[u][j], Signalled(j)', gen', triggered')
        BY DEF ReadsNotice
    <2>1. (u # t \/ j # k) /\ at[u][j] = "read"
        BY <1>7, OfKeys
    <2>2. Noticed(data, tokens[u][j], Signalled(j), gen, triggered)
        BY <2>1 DEF FreshInv, ReadsNotice
    <2> QED
        BY <1>1, <1>5, <1>8, <2>1, <2>2, OfKeys
<1>10. StoresNotice'
    <2> SUFFICES ASSUME NEW u \in Threads, NEW j \in Keys, at'[u][j] = "store"
                 PROVE  Noticed(value'[u][j], tokens'[u][j], Signalled(j)',
                                gen', triggered')
        BY DEF StoresNotice
    <2>1. CASE u = t /\ j = k
        BY <2>1, <1>1, <1>2, <1>3, <1>4, <1>5, <1>7
    <2>2. CASE u # t \/ j # k
        <3>1. at[u][j] = "store" /\ value'[u][j] = value[u][j]
            BY <2>2, <1>2, <1>7
        <3>2. Noticed(value[u][j], tokens[u][j], Signalled(j), gen, triggered)
            BY <3>1 DEF FreshInv, StoresNotice
        <3>3. tokens[u][j] \subseteq tokens'[u][j]
            BY <2>2, <1>3
        <3> QED
            BY <1>1, <1>5, <3>1, <3>2, <3>3, MoreTokens
    <2> QED
        BY <2>1, <2>2
<1>11. ParentsNotice'
    <2> SUFFICES ASSUME NEW u \in Threads, NEW j \in Sources,
                        at'[u][j] \in {"store", "done"}, at'[u][Parent] = "children"
                 PROVE  Noticed(value'[u][j], tokens'[u][Parent], Signalled(j)',
                                gen', triggered')
        BY DEF ParentsNotice
    <2>1. CASE u = t /\ j = k
        <3>1. Hit(e) /\ k # Parent /\ at[t][Parent] = "children"
            BY <2>1, <1>2, <1>7, OfKeys
        <3>2. tokens'[t][Parent] = tokens[t][Parent] \cup e.tokens
            BY <3>1, <1>3, OfKeys DEF Nested
        <3> QED
            BY <2>1, <1>1, <1>2, <1>4, <1>5, <3>1, <3>2, MoreTokens
    <2>2. CASE u # t \/ j # k
        <3>1. at[u][j] \in {"store", "done"} /\ value'[u][j] = value[u][j]
            BY <2>2, <1>2, <1>7, OfKeys
        <3>2. at[u][Parent] = "children" /\ (u # t \/ k # Parent)
            BY <3>1, <1>1, <1>2, OfKeys DEF CacheInv, Frames
        <3>3. Noticed(value[u][j], tokens[u][Parent], Signalled(j), gen, triggered)
            BY <3>1, <3>2 DEF FreshInv, ParentsNotice
        <3>4. tokens[u][Parent] \subseteq tokens'[u][Parent]
            BY <3>2, <1>3, OfKeys
        <3> QED
            BY <1>1, <1>5, <3>1, <3>3, <3>4, MoreTokens, OfKeys
    <2> QED
        BY <2>1, <2>2
<1>12. NotOlder'
    <2>1. \A u \in Threads, s \in Sources : start'[u][s] <= triggered'[s]
        BY <1>1 DEF FreshInv, NotOlder
    <2> SUFFICES ASSUME NEW u \in Threads, NEW j \in Keys,
                        at'[u][j] \in {"store", "done"}, NEW s \in Signalled(j)
                 PROVE  value'[u][j][s] >= start'[u][s]
        BY <2>1, <1>5 DEF NotOlder
    <2>2. CASE u = t /\ j = k
        <3>1. Hit(e) /\ value'[t][k] = e.value /\ e.value \in [Of(k) -> 0..MaxWrites]
            BY <2>2, <1>2, <1>7 DEF Entries
        <3>2. s \in Of(k) /\ s \in Sources
            BY <2>2, OfKeys DEF Signalled
        <3>3. e.value[s] >= triggered[s] /\ start[t][s] <= triggered[s]
            BY <2>2, <3>1, <3>2, <1>4 DEF FreshInv, NotOlder
        <3>4. e.value[s] \in Nat /\ start[t][s] \in Nat /\ triggered[s] \in Nat
            BY <3>1, <3>2, VolatileCacheAssumption DEF CacheInv, TypeOK, Versions
        <3> QED
            BY <2>2, <3>1, <3>3, <3>4, <1>1
    <2>3. CASE u # t \/ j # k
        <3>1. at[u][j] \in {"store", "done"} /\ value'[u][j] = value[u][j]
            BY <2>3, <1>2, <1>7
        <3> QED
            BY <1>1, <3>1 DEF FreshInv, NotOlder
    <2> QED
        BY <2>2, <2>3
<1> QED
    BY <1>6, <1>9, <1>10, <1>11, <1>12 DEF FreshInv

\* MonitorSignal watches the signal before the datum is read.
LEMMA MonitorKeepsFreshInv ==
    ASSUME CacheInv, FreshInv, NEW t \in Threads, NEW k \in Keys,
           MonitorSignal(t, k) \/ MonitorAsync(t, k)
    PROVE  FreshInv'
<1>1. /\ at[t][k] = "monitor" /\ Goto(t, k, "read") /\ k \in Sources
      /\ UNCHANGED <<use, data, triggered, gen, entries, value, start>>
    BY VolatileCacheAssumption
       DEF MonitorSignal, MonitorAsync, CacheInv, TypeOK, AllUses
<1>2. /\ at'[t][k] = "read"
      /\ \A u \in Threads, j \in Keys : u # t \/ j # k => at'[u][j] = at[u][j]
    BY <1>1, GotoIs DEF CacheInv, TypeOK, Labels
<1>3. PICK toks \in SUBSET Tokens :
         /\ Monitored(t, k, toks, {})
         /\ MonitorSignal(t, k) => toks = {[signal |-> k, gen |-> gen[k]]}
    <2>1. CASE MonitorSignal(t, k)
        <3>1. gen[k] \in 0..MaxWrites
            BY <1>1 DEF CacheInv, TypeOK, Versions
        <3>2. {[signal |-> k, gen |-> gen[k]]} \in SUBSET Tokens
            BY <1>1, <3>1 DEF Tokens, SignalTokens
        <3> QED
            BY <2>1, <3>2 DEF MonitorSignal
    <2>2. CASE MonitorAsync(t, k)
        <3>1. PICK n \in 1..MaxAsync : Monitored(t, k, {[async |-> n]}, {})
            BY <2>2 DEF MonitorAsync
        <3>2. {[async |-> n]} \in SUBSET Tokens
            BY DEF Tokens, AsyncTokens
        <3>3. ~MonitorSignal(t, k)
            BY <2>2 DEF MonitorSignal, MonitorAsync
        <3> QED
            BY <3>1, <3>2, <3>3
    <2> QED
        BY <2>1, <2>2
<1>4. /\ tokens'[t][k] = toks
      /\ \A u \in Threads, j \in Keys : u # t \/ j # k => tokens'[u][j] = tokens[u][j]
    <2>1. tokens \in [Threads -> [Keys -> SUBSET Tokens]]
        BY DEF CacheInv, TypeOK
    <2>2. toks \in SUBSET Tokens /\ Monitored(t, k, toks, {})
        BY <1>3
    <2> QED
        BY <2>1, <2>2, MonitoredAlone
<1>5. \A j \in Keys : Signalled(j)' = Signalled(j)
    BY <1>1 DEF Signalled
<1>6. Noticed(data, toks, Signalled(k), gen, triggered)
    <2>1. CASE MonitorSignal(t, k)
        <3>1. /\ gen[k] \in 0..MaxWrites /\ data[k] \in Nat /\ triggered[k] \in Nat
              /\ triggered[k] <= data[k]
            BY <1>1, VolatileCacheAssumption
               DEF CacheInv, TypeOK, Versions, Numbers
        <3>2. [signal |-> k, gen |-> gen[k]] \in SignalTokens
            BY <1>1, <3>1 DEF SignalTokens
        <3>3. gen[k] <= gen[k] /\ data[k] >= triggered[k]
            BY <3>1, VolatileCacheAssumption
        <3>4. Signalled(k) \subseteq {k}
            BY <1>1, OfKeys DEF Signalled
        <3> QED
            BY <1>3, <2>1, <3>2, <3>3, <3>4 DEF Noticed
    <2>2. CASE MonitorAsync(t, k)
        <3>1. Signalled(k) = {}
            BY <1>1, <2>2, OfKeys DEF MonitorAsync, Signalled
        <3> QED
            BY <3>1 DEF Noticed
    <2> QED
        BY <2>1, <2>2
<1>7. EntriesNotice'
    BY <1>1, <1>5 DEF FreshInv, EntriesNotice
<1>8. ReadsNotice'
    BY <1>1, <1>2, <1>4, <1>5, <1>6, OfKeys DEF FreshInv, ReadsNotice
<1>9. StoresNotice'
    BY <1>1, <1>2, <1>4, <1>5 DEF FreshInv, StoresNotice
<1>10. ParentsNotice'
    BY <1>1, <1>2, <1>4, <1>5, OfKeys DEF FreshInv, ParentsNotice
<1>11. NotOlder'
    BY <1>1, <1>2, <1>5 DEF FreshInv, NotOlder
<1> QED
    BY <1>7, <1>8, <1>9, <1>10, <1>11 DEF FreshInv

\* ReadDatum reads a version that is noticed by the token monitored before.
LEMMA ReadKeepsFreshInv ==
    ASSUME CacheInv, FreshInv, NEW t \in Threads, NEW k \in Keys, ReadDatum(t, k)
    PROVE  FreshInv'
<1>1. /\ at[t][k] = "read" /\ k \in Sources
      /\ UNCHANGED <<use, data, triggered, gen, entries, start>>
    BY ReadIs DEF ReadDatum
<1>2. /\ at'[t][k] = "store"
      /\ \A u \in Threads, j \in Keys : u # t \/ j # k => at'[u][j] = at[u][j]
      /\ \A u \in Threads, j \in Keys : u # t \/ j # k => value'[u][j] = value[u][j]
      /\ value'[t][k] = [s \in {k} |-> data[s]]
    BY ReadIs
<1>3. /\ \A u \in Threads, j \in Keys : tokens[u][j] \subseteq tokens'[u][j]
      /\ \A u \in Threads, j \in Sources : tokens'[u][j] = tokens[u][j]
      /\ at[t][Parent] = "children" => tokens[t][k] \subseteq tokens'[t][Parent]
    <2>1. tokens \in [Threads -> [Keys -> SUBSET Tokens]]
        BY DEF CacheInv, TypeOK
    <2>2. Monitored(t, k, tokens[t][k], tokens[t][k]) /\ tokens[t][k] \in SUBSET Tokens
        BY <2>1 DEF ReadDatum
    <2>3. /\ tokens'[t][k] = tokens[t][k]
          /\ \A j \in Keys \ {k} :
                tokens'[t][j] = IF j = Parent /\ Nested(t, k)
                                THEN tokens[t][j] \cup tokens[t][k] ELSE tokens[t][j]
          /\ \A u \in Threads \ {t} : tokens'[u] = tokens[u]
        <3>1. ASSUME NEW x \in SUBSET Tokens, Monitored(t, k, x, x)
              PROVE  /\ tokens'[t][k] = x
                     /\ \A j \in Keys \ {k} :
                           tokens'[t][j] = IF j = Parent /\ Nested(t, k)
                                           THEN tokens[t][j] \cup x ELSE tokens[t][j]
                     /\ \A u \in Threads \ {t} : tokens'[u] = tokens[u]
            BY <2>1, <3>1, MonitoredIs
        <3> QED
            BY <2>2, <3>1
    <2>4. at[t][Parent] = "children" => Nested(t, k)
        BY <1>1, OfKeys DEF Nested
    <2> QED
        BY <1>1, <2>3, <2>4, OfKeys
<1>4. \A j \in Keys : Signalled(j)' = Signalled(j)
    BY <1>1 DEF Signalled
<1>5. Signalled(k) \subseteq {k}
    BY <1>1, OfKeys DEF Signalled
<1>6. Noticed(value'[t][k], tokens[t][k], Signalled(k), gen, triggered)
    <2>1. Noticed(data, tokens[t][k], Signalled(k), gen, triggered)
        BY <1>1 DEF FreshInv, ReadsNotice
    <2> QED
        BY <2>1, <1>2, <1>5 DEF Noticed
<1>7. EntriesNotice'
    BY <1>1, <1>4 DEF FreshInv, EntriesNotice
<1>8. ReadsNotice'
    BY <1>1, <1>2, <1>3, <1>4, OfKeys DEF FreshInv, ReadsNotice
<1>9. StoresNotice'
    <2> SUFFICES ASSUME NEW u \in Threads, NEW j \in Keys, at'[u][j] = "store"
                 PROVE  Noticed(value'[u][j], tokens'[u][j], Signalled(j)',
                                gen', triggered')
        BY DEF StoresNotice
    <2>1. Noticed(value'[u][j], tokens[u][j], Signalled(j), gen, triggered)
        BY <1>2, <1>6 DEF FreshInv, StoresNotice
    <2> QED
        BY <1>1, <1>3, <1>4, <2>1, MoreTokens
<1>10. ParentsNotice'
    <2> SUFFICES ASSUME NEW u \in Threads, NEW j \in Sources,
                        at'[u][j] \in {"store", "done"}, at'[u][Parent] = "children"
                 PROVE  Noticed(value'[u][j], tokens'[u][Parent], Signalled(j)',
                                gen', triggered')
        BY DEF ParentsNotice
    <2>1. at[u][Parent] = "children"
        BY <1>1, <1>2, OfKeys
    <2>2. CASE u = t /\ j = k
        BY <2>1, <2>2, <1>1, <1>3, <1>4, <1>6, MoreTokens, OfKeys
    <2>3. CASE u # t \/ j # k
        <3>1. Noticed(value'[u][j], tokens[u][Parent], Signalled(j), gen, triggered)
            BY <2>1, <2>3, <1>2, OfKeys DEF FreshInv, ParentsNotice
        <3> QED
            BY <1>1, <1>3, <1>4, <3>1, MoreTokens, OfKeys
    <2> QED
        BY <2>2, <2>3
<1>11. NotOlder'
    <2>1. data[k] >= start[t][k]
        <3>1. start[t][k] <= triggered[k] /\ triggered[k] <= data[k]
            BY <1>1 DEF FreshInv, NotOlder, CacheInv, Numbers
        <3>2. start[t][k] \in Nat /\ triggered[k] \in Nat /\ data[k] \in Nat
            BY <1>1, VolatileCacheAssumption DEF CacheInv, TypeOK, Versions
        <3> QED
            BY <3>1, <3>2
    <2>2. \A s \in Signalled(k) : value'[t][k][s] >= start[t][s]
        BY <2>1, <1>2, <1>5
    <2>3. \A u \in Threads, s \in Sources : start'[u][s] <= triggered'[s]
        BY <1>1 DEF FreshInv, NotOlder
    <2> SUFFICES ASSUME NEW u \in Threads, NEW j \in Keys,
                        at'[u][j] \in {"store", "done"}, NEW s \in Signalled(j)
                 PROVE  value'[u][j][s] >= start'[u][s]
        BY <2>3, <1>4 DEF NotOlder
    <2>4. CASE u = t /\ j = k
        BY <2>2, <2>4, <1>1
    <2>5. CASE u # t \/ j # k
        BY <2>5, <1>1, <1>2 DEF FreshInv, NotOlder
    <2> QED
        BY <2>4, <2>5
<1> QED
    BY <1>7, <1>8, <1>9, <1>10, <1>11 DEF FreshInv

\* Store makes an entry of what the frame has noticed.
LEMMA StoreKeepsFreshInv ==
    ASSUME CacheInv, FreshInv, NEW t \in Threads, NEW k \in Keys, Store(t, k)
    PROVE  FreshInv'
<1>1. /\ at[t][k] = "store"
      /\ UNCHANGED <<use, data, triggered, gen>>
      /\ entries' = [entries EXCEPT
            ![k] = [value |-> value[t][k], tokens |-> tokens[t][k]]]
      /\ tokens' = [tokens EXCEPT ![t][k] = {}]
    BY DEF Store
<1>2. /\ at'[t][k] = IF Nested(t, k) THEN "done" ELSE "off"
      /\ \A u \in Threads, j \in Keys : u # t \/ j # k => at'[u][j] = at[u][j]
      /\ \A u \in Threads, j \in Keys : u # t \/ j # k => value'[u][j] = value[u][j]
      /\ Nested(t, k) => value'[t][k] = value[t][k]
    BY StoreIs
<1>3. /\ \A u \in Threads, j \in Keys : u # t \/ j # k => tokens'[u][j] = tokens[u][j]
      /\ entries'[k] = [value |-> value[t][k], tokens |-> tokens[t][k]]
      /\ \A j \in Keys \ {k} : entries'[j] = entries[j]
    BY <1>1 DEF CacheInv, TypeOK
<1>4. \A j \in Keys : Signalled(j)' = Signalled(j)
    BY <1>1 DEF Signalled
<1>5. EntriesNotice'
    <2> SUFFICES ASSUME NEW j \in Keys, entries'[j] # NoEntry
                 PROVE  Noticed(entries'[j].value, entries'[j].tokens, Signalled(j)',
                                gen', triggered')
        BY DEF EntriesNotice
    <2>1. CASE j = k
        <3>1. Noticed(value[t][k], tokens[t][k], Signalled(k), gen, triggered)
            BY <1>1 DEF FreshInv, StoresNotice
        <3> QED
            BY <2>1, <3>1, <1>1, <1>3, <1>4
    <2>2. CASE j # k
        BY <2>2, <1>1, <1>3, <1>4 DEF FreshInv, EntriesNotice
    <2> QED
        BY <2>1, <2>2
<1>6. ReadsNotice'
    BY <1>1, <1>2, <1>3, <1>4, OfKeys DEF FreshInv, ReadsNotice
<1>7. StoresNotice'
    BY <1>1, <1>2, <1>3, <1>4 DEF FreshInv, StoresNotice
<1>8. ParentsNotice'
    <2> SUFFICES ASSUME NEW u \in Threads, NEW j \in Sources,
                        at'[u][j] \in {"store", "done"}, at'[u][Parent] = "children"
                 PROVE  Noticed(value'[u][j], tokens'[u][Parent], Signalled(j)',
                                gen', triggered')
        BY DEF ParentsNotice
    <2>1. at[u][Parent] = "children" /\ (u # t \/ k # Parent)
        BY <1>1, <1>2, OfKeys
    <2>2. at[u][j] \in {"store", "done"} /\ value'[u][j] = value[u][j]
        BY <1>1, <1>2, OfKeys
    <2>3. Noticed(value[u][j], tokens[u][Parent], Signalled(j), gen, triggered)
        BY <2>1, <2>2 DEF FreshInv, ParentsNotice
    <2> QED
        BY <1>1, <1>3, <1>4, <2>1, <2>2, <2>3, OfKeys
<1>9. NotOlder'
    <2>1. CASE Nested(t, k)
        <3>1. start' = start /\ value' = value
            BY <2>1 DEF Store
        <3>2. \A u \in Threads, j \in Keys :
                 at'[u][j] \in {"store", "done"} => at[u][j] \in {"store", "done"}
            BY <1>1, <1>2
        <3> QED
            BY <1>1, <1>4, <3>1, <3>2 DEF FreshInv, NotOlder
    <2>2. CASE ~Nested(t, k)
        <3>1. start' = [start EXCEPT ![t] = [s \in Sources |-> 0]]
            BY <2>2 DEF Store
        <3>2. /\ \A u \in Threads \ {t} : start'[u] = start[u]
              /\ \A s \in Sources : start'[t][s] = 0
            BY <3>1 DEF CacheInv, TypeOK
        <3>3. \A u \in Threads, s \in Sources : start'[u][s] <= triggered'[s]
            <4> TAKE u \in Threads, s \in Sources
            <4>1. triggered[s] \in Nat /\ start[u][s] <= triggered[s]
                BY VolatileCacheAssumption DEF FreshInv, NotOlder, CacheInv, TypeOK, Versions
            <4>2. CASE u = t
                BY <1>1, <3>2, <4>1, <4>2
            <4>3. CASE u # t
                BY <1>1, <3>2, <4>1, <4>3
            <4> QED
                BY <4>2, <4>3
        <3> SUFFICES ASSUME NEW u \in Threads, NEW j \in Keys,
                            at'[u][j] \in {"store", "done"}, NEW s \in Signalled(j)
                     PROVE  value'[u][j][s] >= start'[u][s]
            BY <3>3, <1>4 DEF NotOlder
        <3>4. /\ u # t \/ j # k
              /\ at[u][j] \in {"store", "done"} /\ value'[u][j] = value[u][j]
            BY <2>2, <1>2
        <3>5. s \in Of(j) /\ s \in Sources
            BY OfKeys DEF Signalled
        <3>6. CASE u = t
            <4>1. value[u][j][s] \in 0..MaxWrites
                BY <3>4, <3>5 DEF CacheInv, Acquired
            <4> QED
                BY <3>2, <3>4, <3>5, <3>6, <4>1, VolatileCacheAssumption
        <3>7. CASE u # t
            BY <3>2, <3>4, <3>7 DEF FreshInv, NotOlder
        <3> QED
            BY <3>6, <3>7
    <2> QED
        BY <2>1, <2>2
<1> QED
    BY <1>5, <1>6, <1>7, <1>8, <1>9 DEF FreshInv

\* Combine computes from what the sources have bubbled up.
LEMMA CombineKeepsFreshInv ==
    ASSUME CacheInv, FreshInv, NEW t \in Threads, Combine(t)
    PROVE  FreshInv'
<1>1. /\ at[t][Parent] = "children"
      /\ \A s \in Sources : at[t][s] = "done"
      /\ UNCHANGED <<use, data, triggered, gen, entries, tokens, start>>
    BY DEF Combine
<1>2. /\ at'[t][Parent] = "store"
      /\ \A s \in Sources : at'[t][s] = "off"
      /\ \A u \in Threads \ {t} : at'[u] = at[u]
      /\ \A u \in Threads \ {t} : value'[u] = value[u]
      /\ value'[t][Parent] = [s \in Sources |-> value[t][s][s]]
    BY CombineIs
<1>3. \A j \in Keys : Signalled(j)' = Signalled(j)
    BY <1>1 DEF Signalled
<1>4. \A s \in Sources \ use.async :
         /\ s \in Signalled(s)
         /\ Noticed(value[t][s], tokens[t][Parent], Signalled(s), gen, triggered)
         /\ value[t][s][s] >= start[t][s]
    BY <1>1, OfKeys DEF FreshInv, ParentsNotice, NotOlder, Signalled
<1>5. Signalled(Parent) = Sources \ use.async
    BY OfKeys DEF Signalled
<1>6. Noticed(value'[t][Parent], tokens[t][Parent], Signalled(Parent), gen, triggered)
    BY <1>2, <1>4, <1>5 DEF Noticed
<1>7. EntriesNotice'
    BY <1>1, <1>3 DEF FreshInv, EntriesNotice
<1>8. ReadsNotice' /\ ParentsNotice'
    BY <1>1, <1>2, <1>3, OfKeys DEF FreshInv, ReadsNotice, ParentsNotice
<1>9. StoresNotice'
    BY <1>1, <1>2, <1>3, <1>6 DEF FreshInv, StoresNotice, Keys
<1>10. NotOlder'
    <2>1. \A s \in Signalled(Parent) : value'[t][Parent][s] >= start[t][s]
        BY <1>2, <1>4, <1>5
    <2>2. \A u \in Threads, s \in Sources : start'[u][s] <= triggered'[s]
        BY <1>1 DEF FreshInv, NotOlder
    <2> SUFFICES ASSUME NEW u \in Threads, NEW j \in Keys,
                        at'[u][j] \in {"store", "done"}, NEW s \in Signalled(j)
                 PROVE  value'[u][j][s] >= start'[u][s]
        BY <2>2, <1>3 DEF NotOlder
    <2>3. CASE u = t
        <3>1. j = Parent
            BY <1>2, <2>3 DEF Keys
        <3> QED
            BY <1>1, <2>1, <2>3, <3>1
    <2>4. CASE u # t
        BY <1>1, <1>2, <2>4 DEF FreshInv, NotOlder
    <2> QED
        BY <2>3, <2>4
<1> QED
    BY <1>7, <1>8, <1>9, <1>10 DEF FreshInv

\* A trigger is noticed by every frame and entry, and a write disturbs none.
LEMMA OthersKeepFreshInv ==
    ASSUME CacheInv, FreshInv,
           \/ \E s \in Sources : Write(s) \/ Trigger(s)
           \/ \E n \in 1..MaxAsync : TaskRuns(n)
    PROVE  FreshInv'
<1>1. UNCHANGED <<use, entries, at, value, tokens, start>>
    BY DEF Write, Trigger, TaskRuns, frameVars
<1>2. \A j \in Keys : Signalled(j)' = Signalled(j) /\ Signalled(j) \in SUBSET Sources
    BY <1>1, OfKeys DEF Signalled
<1>3. CASE \E n \in 1..MaxAsync : TaskRuns(n)
    BY <1>1, <1>2, <1>3, OfKeys
       DEF TaskRuns, FreshInv, EntriesNotice, ReadsNotice, StoresNotice, ParentsNotice,
           NotOlder
<1>4. CASE \E s \in Sources : Write(s)
    <2>1. PICK s \in Sources : Write(s)
        BY <1>4
    <2>2. UNCHANGED <<triggered, gen>> /\ data' = [data EXCEPT ![s] = @ + 1]
        BY <2>1 DEF Write
    <2>3. ReadsNotice'
        <3> SUFFICES ASSUME NEW t \in Threads, NEW k \in Sources, at'[t][k] = "read"
                     PROVE  Noticed(data', tokens'[t][k], Signalled(k)', gen', triggered')
            BY DEF ReadsNotice
        <3>1. Noticed(data, tokens[t][k], Signalled(k), gen, triggered)
            BY <1>1 DEF FreshInv, ReadsNotice
        <3>2. \A r \in Signalled(k) :
                 data[r] >= triggered[r] => data'[r] >= triggered[r]
            BY <1>2, <2>2, OfKeys, VolatileCacheAssumption DEF CacheInv, TypeOK, Versions
        <3> QED
            BY <1>1, <1>2, <2>2, <3>1, <3>2, OfKeys DEF Noticed
    <2> QED
        BY <1>1, <1>2, <2>2, <2>3, OfKeys
           DEF FreshInv, EntriesNotice, StoresNotice, ParentsNotice, NotOlder
<1>5. CASE \E s \in Sources : Trigger(s)
    <2>1. PICK s \in Sources : Trigger(s)
        BY <1>5
    <2>2. /\ data' = data
          /\ gen' = [gen EXCEPT ![s] = @ + 1]
          /\ triggered' = [triggered EXCEPT ![s] = data[s]]
          /\ triggered[s] < data[s]
        BY <2>1 DEF Trigger, Bump
    <2>3. /\ gen \in [Sources -> Nat] /\ triggered \in [Sources -> Nat]
          /\ data[s] \in Nat
        BY VolatileCacheAssumption DEF CacheInv, TypeOK, Versions
    <2>4. ASSUME NEW v, NEW toks, NEW S \in SUBSET Sources,
                 Noticed(v, toks, S, gen, triggered)
          PROVE  Noticed(v, toks, S, [gen EXCEPT ![s] = @ + 1],
                         [triggered EXCEPT ![s] = data[s]])
        BY <2>3, <2>4, TriggerIsNoticed
    <2>5. EntriesNotice'
        BY <1>1, <1>2, <2>2, <2>4 DEF FreshInv, EntriesNotice
    <2>6. ReadsNotice'
        <3> SUFFICES ASSUME NEW t \in Threads, NEW k \in Sources, at'[t][k] = "read"
                     PROVE  Noticed(data', tokens'[t][k], Signalled(k)', gen', triggered')
            BY DEF ReadsNotice
        <3>1. Noticed(data, tokens[t][k], Signalled(k), gen, triggered)
            BY <1>1 DEF FreshInv, ReadsNotice
        <3>2. Signalled(k)' = Signalled(k) /\ Signalled(k) \in SUBSET Sources
            BY <1>2, OfKeys
        <3> QED
            BY <1>1, <2>2, <2>4, <3>1, <3>2
    <2>7. StoresNotice'
        BY <1>1, <1>2, <2>2, <2>4 DEF FreshInv, StoresNotice
    <2>8. ParentsNotice'
        <3> SUFFICES ASSUME NEW t \in Threads, NEW k \in Sources,
                            at'[t][k] \in {"store", "done"}, at'[t][Parent] = "children"
                     PROVE  Noticed(value'[t][k], tokens'[t][Parent], Signalled(k)',
                                    gen', triggered')
            BY DEF ParentsNotice
        <3>1. Noticed(value[t][k], tokens[t][Parent], Signalled(k), gen, triggered)
            BY <1>1 DEF FreshInv, ParentsNotice
        <3>2. Signalled(k)' = Signalled(k) /\ Signalled(k) \in SUBSET Sources
            BY <1>2, OfKeys
        <3> QED
            BY <1>1, <2>2, <2>4, <3>1, <3>2
    <2>9. NotOlder'
        <3>1. \A u \in Threads, r \in Sources : start'[u][r] <= triggered'[r]
            <4> TAKE u \in Threads, r \in Sources
            <4>1. start[u][r] <= triggered[r] /\ start[u][r] \in Nat
                BY VolatileCacheAssumption
                   DEF FreshInv, NotOlder, CacheInv, TypeOK, Versions
            <4> QED
                BY <1>1, <2>2, <2>3, <4>1
        <3> QED
            BY <1>1, <1>2, <3>1 DEF FreshInv, NotOlder
    <2> QED
        BY <2>5, <2>6, <2>7, <2>8, <2>9 DEF FreshInv
<1> QED
    BY <1>3, <1>4, <1>5

\* Every step keeps the invariant.
LEMMA NextFreshInv == CacheInv /\ FreshInv /\ [Next]_vars => FreshInv'
<1> SUFFICES ASSUME CacheInv, FreshInv, [Next]_vars PROVE FreshInv'
    OBVIOUS
<1>1. CASE UNCHANGED vars
    <2>1. UNCHANGED <<use, data, triggered, gen, entries, at, value, tokens, start>>
        BY <1>1 DEF vars
    <2> QED
        BY <2>1 DEF FreshInv, EntriesNotice, ReadsNotice, StoresNotice, ParentsNotice,
                    NotOlder, Signalled
<1>2. CASE \E t \in Threads, k \in Keys : Get(t, k) \/ Enter(t, k) \/ Retry(t, k)
    BY <1>2, MovesKeepFreshInv
<1>3. CASE \E t \in Threads, k \in Keys : Lookup(t, k)
    BY <1>3, LookupKeepsFreshInv
<1>4. CASE \E t \in Threads, k \in Keys : MonitorSignal(t, k) \/ MonitorAsync(t, k)
    BY <1>4, MonitorKeepsFreshInv
<1>5. CASE \E t \in Threads, k \in Keys : ReadDatum(t, k)
    BY <1>5, ReadKeepsFreshInv
<1>6. CASE \E t \in Threads, k \in Keys : Store(t, k)
    BY <1>6, StoreKeepsFreshInv
<1>7. CASE \E t \in Threads : Combine(t)
    BY <1>7, CombineKeepsFreshInv
<1>8. CASE \/ \E s \in Sources : Write(s) \/ Trigger(s)
           \/ \E n \in 1..MaxAsync : TaskRuns(n)
    BY <1>8, OthersKeepFreshInv
<1> QED
    BY <1>1, <1>2, <1>3, <1>4, <1>5, <1>6, <1>7, <1>8 DEF Next

\* Whatever retries and triggers interleave, an entry that is current was computed
\* from nothing older than what its signalled sources were last triggered with.
THEOREM CacheSyncIsFresh == Spec => []SyncIsFresh
<1>1. FreshInv => SyncIsFresh
    <2> SUFFICES ASSUME FreshInv, NEW k \in Keys, Hit(entries[k])
                 PROVE  \A s \in Of(k) \ use.async : entries[k].value[s] >= triggered[s]
        BY DEF SyncIsFresh
    <2>1. Noticed(entries[k].value, entries[k].tokens, Signalled(k), gen, triggered)
        BY DEF FreshInv, EntriesNotice, Hit
    <2> QED
        BY <2>1, CurrentIsFresh DEF Hit, Signalled
<1> QED
    BY <1>1, InitCacheInv, NextCacheInv, InitFreshInv, NextFreshInv, PTL DEF Spec

\* No Get returns a value older than what a signalled source was triggered with when
\* the Get began.
THEOREM CacheGetIsFresh == Spec => GetIsFresh
<1> DEFINE A == \A t \in Threads, k \in Called :
                  at[t][k] = "store" /\ at'[t][k] = "off" =>
                      \A s \in Of(k) \ use.async : value[t][k][s] >= start[t][s]
<1>1. FreshInv => A
    BY VolatileCacheAssumption DEF FreshInv, NotOlder, Signalled
<1>2. FreshInv /\ [Next]_vars => [A]_vars
    BY <1>1
<1>3. Spec => [][A]_vars
    BY <1>2, InitCacheInv, NextCacheInv, InitFreshInv, NextFreshInv, PTL DEF Spec
<1> QED
    BY <1>3 DEF GetIsFresh
=============================================================================
