----------------------------- MODULE VolatileCache -----------------------------
(***************************************************************************)
(* Cache.Get with volatile tokens (src/src/Orchard/Caching): entries that  *)
(* are valid while their tokens are current, acquired again when they are  *)
(* not, with the tokens of nested entries bubbling up to the entry whose   *)
(* acquisition asked for them.                                             *)
(*                                                                         *)
(* A source key caches one datum guarded by a signal, as the callers do:   *)
(* ctx.Monitor(signals.When(s)), then the datum is read; a writer changes  *)
(* the datum, then triggers s.  The key Parent caches what it computes     *)
(* from all the sources, in parallel tasks (RunInParallel), whose          *)
(* interleavings include every sequential order.                           *)
(*                                                                         *)
(* Entries are compared by content where ConcurrentDictionary compares     *)
(* references: two entries of equal content are equally good.              *)
(***************************************************************************)
EXTENDS Naturals, FiniteSets

CONSTANTS
    Threads,
    Sources,     \* source keys, each with its datum and its signal
    Parent,      \* the key computed from them
    Called,      \* keys that threads ask for directly
    Uses,        \* how the cache is used
    NoThread, NoEntry,
    MaxWrites,   \* bound: writes of each datum
    MaxAsync     \* bound: asynchronous tokens in use at once

Keys == Sources \cup {Parent}
SignalTokens == [signal : Sources, gen : 0..MaxWrites]
AsyncTokens == [async : 1..MaxAsync]
Tokens == SignalTokens \cup AsyncTokens

\* exclusive: preventConcurrentCalls; async: sources monitored through an
\* IAsyncTokenProvider
AllUses == [exclusive : BOOLEAN, async : SUBSET Sources]

ASSUME VolatileCacheAssumption ==
    /\ Parent \notin Sources
    /\ Called \subseteq Keys
    /\ \A u \in Uses : u \in AllUses
    /\ NoThread \notin Threads
    /\ MaxWrites \in Nat /\ MaxAsync \in Nat

VARIABLES
    use,        \* how the cache is used; never changes
    data,       \* data[s]: version of the datum
    triggered,  \* triggered[s]: version the datum had when s was last triggered
    gen,        \* gen[s]: how often s was triggered; a token of s is current while
                \* it carries this number, that is while it is in _tokens
    async,      \* async[n]: the n-th AsyncVolativeToken, its task and _taskTokens
    entries,    \* entries[k]: the entry of key k, or NoEntry
    lock,       \* lock[k]: thread in lock(key)
    at,         \* at[t][k]: where thread t is in Get(k)
    old,        \* old[t][k]: the entry it found
    value,      \* value[t][k]: what it acquired, a version for each source
    tokens,     \* tokens[t][k]: the tokens monitored in the context it pushed
    start       \* start[t]: triggered when the Get that t called began

vars == <<use, data, triggered, gen, async, entries, lock, at, old, value, tokens,
          start>>
frameVars == <<at, old, value, tokens>>

Versions == [Sources -> 0..MaxWrites]
NoValue == [s \in {} |-> 0]

Init ==
    /\ use \in Uses
    /\ data = [s \in Sources |-> 0]
    /\ triggered = [s \in Sources |-> 0]
    /\ gen = [s \in Sources |-> 0]
    /\ async = [n \in 1..MaxAsync |-> [task |-> "new", of |-> Parent, tokens |-> {}]]
    /\ entries = [k \in Keys |-> NoEntry]
    /\ lock = [k \in Keys |-> NoThread]
    /\ at = [t \in Threads |-> [k \in Keys |-> "off"]]
    /\ old = [t \in Threads |-> [k \in Keys |-> NoEntry]]
    /\ value = [t \in Threads |-> [k \in Keys |-> NoValue]]
    /\ tokens = [t \in Threads |-> [k \in Keys |-> {}]]
    /\ start = [t \in Threads |-> [s \in Sources |-> 0]]

Goto(t, k, label) == at' = [at EXCEPT ![t][k] = label]

SignalCurrent(tok) == tok.gen = gen[tok.signal]

\* IsCurrent: an asynchronous token is current until its task has finished.
IsCurrent(tok) ==
    IF tok \in AsyncTokens
    THEN \/ async[tok.async].task = "running"
         \/ /\ async[tok.async].task = "finished"
            /\ \A collected \in async[tok.async].tokens : SignalCurrent(collected)
    ELSE SignalCurrent(tok)

\* a found entry of which every token is current
Hit(e) == e # NoEntry /\ \A tok \in e.tokens : IsCurrent(tok)

\* Get of key k is nested in the acquisition of Parent by the same thread.
Nested(t, k) == k # Parent /\ at[t][Parent] # "off"

\* Mutant of HitTokens: only new entries bubble up their tokens.
HitTokens_None(e) == {}

\* What PropagateTokens bubbles up of an entry that was found
HitTokens(e) == e.tokens

\* The tokens of thread t for key k become toks; bubbled ones reach the context of
\* Parent when the Get is nested.
Monitored(t, k, toks, bubbled) ==
    tokens' = [tokens EXCEPT
        ![t] = [j \in Keys |->
            IF j = k THEN toks
            ELSE IF j = Parent /\ Nested(t, k) THEN tokens[t][j] \cup bubbled
            ELSE tokens[t][j]]]

\* A thread calls Get.
Get(t, k) ==
    /\ k \in Called
    /\ \A j \in Keys : at[t][j] = "off"
    /\ Goto(t, k, "enter")
    /\ start' = [start EXCEPT ![t] = triggered]
    /\ UNCHANGED <<use, data, triggered, gen, async, entries, lock, old, value,
                   tokens>>

LockFree(t, k) == use.exclusive => lock[k] = NoThread

\* lock(key), when preventConcurrentCalls is set
Enter(t, k) ==
    /\ at[t][k] = "enter"
    /\ LockFree(t, k)
    /\ lock' = IF use.exclusive THEN [lock EXCEPT ![k] = t] ELSE lock
    /\ Goto(t, k, "lookup")
    /\ UNCHANGED <<use, data, triggered, gen, async, entries, old, value, tokens,
                   start>>

\* AddOrUpdate finds no entry (AddEntry) or one (UpdateEntry).
Lookup(t, k) ==
    LET e == entries[k] IN
    /\ at[t][k] = "lookup"
    /\ old' = [old EXCEPT ![t][k] = e]
    /\ IF Hit(e)
       THEN /\ Goto(t, k, "store")
            /\ value' = [value EXCEPT ![t][k] = e.value]
            /\ Monitored(t, k, e.tokens, HitTokens(e))
       ELSE /\ IF k = Parent
               THEN at' = [at EXCEPT ![t] =
                              [j \in Keys |-> IF j = Parent THEN "children" ELSE "enter"]]
               ELSE Goto(t, k, "monitor")
            /\ Monitored(t, k, {}, {})
            /\ UNCHANGED value
    /\ UNCHANGED <<use, data, triggered, gen, async, entries, lock, start>>

\* The acquisition of a source: ctx.Monitor(signals.When(k))
MonitorSignal(t, k) ==
    /\ at[t][k] = "monitor"
    /\ k \in Sources \ use.async
    /\ Monitored(t, k, {[signal |-> k, gen |-> gen[k]]}, {})
    /\ Goto(t, k, "read")
    /\ UNCHANGED <<use, data, triggered, gen, async, entries, lock, old, value,
                   start>>

\* Some entry or context still refers to asynchronous token n, or its task runs;
\* otherwise the number can be used for another token.
InUse(n) ==
    \/ async[n].task = "running"
    \/ \E k \in Keys : entries[k] # NoEntry /\ [async |-> n] \in entries[k].tokens
    \/ \E t \in Threads, k \in Keys :
          \/ [async |-> n] \in tokens[t][k]
          \/ old[t][k] # NoEntry /\ [async |-> n] \in old[t][k].tokens

\* ctx.Monitor(asyncTokenProvider.GetToken(task))
MonitorAsync(t, k) ==
    /\ at[t][k] = "monitor"
    /\ k \in use.async
    /\ \E n \in 1..MaxAsync :
          /\ ~InUse(n)
          /\ \A m \in 1..(n - 1) : InUse(m)
          /\ async' = [async EXCEPT ![n] = [task |-> "running", of |-> k, tokens |-> {}]]
          /\ Monitored(t, k, {[async |-> n]}, {})
    /\ Goto(t, k, "read")
    /\ UNCHANGED <<use, data, triggered, gen, entries, lock, old, value, start>>

\* The task runs on the thread pool and collects the token of the signal, or fails.
TaskRuns(n) ==
    LET s == async[n].of IN
    /\ async[n].task = "running"
    /\ \/ async' = [async EXCEPT ![n] = [task |-> "finished", of |-> s,
                                       tokens |-> {[signal |-> s, gen |-> gen[s]]}]]
       \/ async' = [async EXCEPT ![n] = [task |-> "failed", of |-> s, tokens |-> {}]]
    /\ UNCHANGED <<use, data, triggered, gen, entries, lock, frameVars, start>>

\* The datum is read: the new entry is complete, and its tokens bubble up.
ReadDatum(t, k) ==
    /\ at[t][k] = "read"
    /\ value' = [value EXCEPT ![t][k] = [s \in {k} |-> data[s]]]
    /\ Monitored(t, k, tokens[t][k], tokens[t][k])
    /\ Goto(t, k, "store")
    /\ UNCHANGED <<use, data, triggered, gen, async, entries, lock, old, start>>

\* Mutant of Combine: one of the tasks is waited for, and those that have finished count.
Combine_Any(t) ==
    LET finished == {s \in Sources : at[t][s] = "done"} IN
    /\ at[t][Parent] = "children" /\ finished # {}
    /\ value' = [value EXCEPT ![t] = [k \in Keys |->
                    IF k = Parent THEN [s \in finished |-> value[t][s][s]] ELSE NoValue]]
    /\ at' = [at EXCEPT ![t] = [k \in Keys |-> IF k = Parent THEN "store" ELSE "off"]]
    /\ UNCHANGED <<use, data, triggered, gen, async, entries, lock, old, tokens,
                   start>>
\* The tasks of Parent have finished and forwarded their tokens.
Combine(t) ==
    /\ at[t][Parent] = "children"
    /\ \A s \in Sources : at[t][s] = "done"
    /\ value' = [value EXCEPT ![t] = [k \in Keys |->
                    IF k = Parent THEN [s \in Sources |-> value[t][s][s]] ELSE NoValue]]
    /\ at' = [at EXCEPT ![t] = [k \in Keys |-> IF k = Parent THEN "store" ELSE "off"]]
    /\ UNCHANGED <<use, data, triggered, gen, async, entries, lock, old, tokens,
                   start>>

\* AddOrUpdate finds that the entry it started from has been replaced: it starts
\* over.
Retry(t, k) ==
    /\ at[t][k] = "store"
    /\ entries[k] # old[t][k]
    /\ Goto(t, k, "lookup")
    /\ UNCHANGED <<use, data, triggered, gen, async, entries, lock, old, value,
                   tokens, start>>

\* AddOrUpdate stores the entry, and Get returns its value.
Store(t, k) ==
    /\ at[t][k] = "store"
    /\ entries[k] = old[t][k]
    /\ entries' = [entries EXCEPT ![k] = [value |-> value[t][k], tokens |-> tokens[t][k]]]
    /\ lock' = IF use.exclusive THEN [lock EXCEPT ![k] = NoThread] ELSE lock
    /\ old' = [old EXCEPT ![t][k] = NoEntry]
    /\ tokens' = [tokens EXCEPT ![t][k] = {}]
    /\ IF Nested(t, k)
       THEN Goto(t, k, "done") /\ UNCHANGED <<value, start>>
       ELSE /\ Goto(t, k, "off")
            /\ value' = [value EXCEPT ![t][k] = NoValue]
            /\ start' = [start EXCEPT ![t] = [s \in Sources |-> 0]]
    /\ UNCHANGED <<use, data, triggered, gen, async>>

Write(s) ==
    /\ data[s] < MaxWrites
    /\ data' = [data EXCEPT ![s] = @ + 1]
    /\ UNCHANGED <<use, triggered, gen, async, entries, lock, frameVars, start>>

\* Mutant of Bump: the token is removed but stays current.
Bump_Removed(s) == UNCHANGED gen

\* The token in _tokens, if any, is removed and is no longer current.
Bump(s) == gen' = [gen EXCEPT ![s] = @ + 1]

Trigger(s) ==
    /\ triggered[s] < data[s]
    /\ Bump(s)
    /\ triggered' = [triggered EXCEPT ![s] = data[s]]
    /\ UNCHANGED <<use, data, async, entries, lock, frameVars, start>>

Next ==
    \/ \E t \in Threads, k \in Keys :
          \/ Get(t, k) \/ Enter(t, k) \/ Lookup(t, k)
          \/ MonitorSignal(t, k) \/ MonitorAsync(t, k) \/ ReadDatum(t, k)
          \/ Retry(t, k) \/ Store(t, k)
    \/ \E t \in Threads : Combine(t)
    \/ \E s \in Sources : Write(s) \/ Trigger(s)
    \/ \E n \in 1..MaxAsync : TaskRuns(n)

Spec == Init /\ [][Next]_vars

------------------------------------------------------------------------------
\* what key k is computed from
Of(k) == IF k = Parent THEN Sources ELSE {k}

Entries(k) == [value : [Of(k) -> 0..MaxWrites], tokens : SUBSET Tokens]

Labels == {"off", "enter", "lookup", "monitor", "read", "children", "store", "done"}

TypeOK ==
    /\ use \in Uses
    /\ data \in Versions /\ triggered \in Versions /\ gen \in Versions
    /\ async \in [1..MaxAsync -> [task : {"new", "running", "failed", "finished"},
                                  of : Keys, tokens : SUBSET SignalTokens]]
    /\ DOMAIN entries = Keys
    /\ \A k \in Keys : entries[k] \in {NoEntry} \cup Entries(k)
    /\ lock \in [Keys -> Threads \cup {NoThread}]
    /\ at \in [Threads -> [Keys -> Labels]]
    /\ DOMAIN old = Threads
    /\ \A t \in Threads : DOMAIN old[t] = Keys
    /\ \A t \in Threads, k \in Keys : old[t][k] \in {NoEntry} \cup Entries(k)
    /\ DOMAIN value = Threads
    /\ \A t \in Threads : DOMAIN value[t] = Keys
    /\ \A t \in Threads, k \in Keys :
          value[t][k] \in {NoValue} \cup [Of(k) -> 0..MaxWrites]
    /\ tokens \in [Threads -> [Keys -> SUBSET Tokens]]
    /\ start \in [Threads -> Versions]

\* An entry is current only while no source it was computed from, directly or
\* through nested entries, has been triggered with a newer version: but for the
\* sources that are monitored asynchronously.
SyncIsFresh ==
    \A k \in Keys :
        Hit(entries[k]) =>
            \A s \in Of(k) \ use.async : entries[k].value[s] >= triggered[s]

\* A Get that starts after a Trigger has returned does not return what was cached
\* before the change, through whatever entries it was nested.
GetIsFresh ==
    [][\A t \in Threads, k \in Called :
          at[t][k] = "store" /\ at'[t][k] = "off" =>
              \A s \in Of(k) \ use.async : value[t][k][s] >= start[t][s]]_vars
==============================================================================
