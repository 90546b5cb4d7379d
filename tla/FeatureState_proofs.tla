--------------------------- MODULE FeatureState_proofs ---------------------------
(***************************************************************************)
(* The invariants of FeatureState, for every set of features, dependencies *)
(* and requests, any number of calls, and every choice of what may fail.   *)
(*                                                                         *)
(* DependenciesEnabled: the descriptor that is committed comes from a      *)
(* session, so the inductive invariant says of every session what          *)
(* DependenciesEnabled says of the descriptor.  That a call keeps a list   *)
(* closed follows from what Affected is: the least set with the feature    *)
(* that is closed under its disabled dependencies, or enabled dependants.  *)
(*                                                                         *)
(* SettledAtEnd of overlapping requests: every feature that is changing is *)
(* in the care of a request, which has a task left or has written it.      *)
(*                                                                         *)
(* UpIsSupported, SettledAtEnd and HandlersLoaded of requests that do not  *)
(* overlap: the states follow the list and what is left to do is in the    *)
(* order of the features, so that lowering the first feature, or raising   *)
(* it, leaves no other without what it depends on.                         *)
(***************************************************************************)
EXTENDS FeatureState, FiniteSetTheorems, TLAPS

Counts == [Features -> Nat]
Sound(l) == l \in Counts /\ Closed(Enabled(l))

Inv ==
    /\ use \in Uses
    /\ Sound(listed)
    /\ DOMAIN session = Requests
    /\ \A r \in Requests : Sound(session[r].listed)

\* What affects the feature is affected.
LEMMA AffectedIsClosed ==
    ASSUME NEW f \in Features, NEW next \in [Features -> SUBSET Features],
           NEW g \in Affected(f, next)
    PROVE  next[g] \subseteq Affected(f, next)
<1> SUFFICES ASSUME NEW d \in next[g], NEW S \in SUBSET Features,
                    f \in S, \A x \in S : next[x] \subseteq S
             PROVE  d \in S
    BY DEF Affected
<1>1. g \in S
    BY DEF Affected
<1> QED
    BY <1>1

\* What a call names and affects is closed, too.
LEMMA AllAffectedIsClosed ==
    ASSUME NEW fs \in SUBSET Features, NEW next \in [Features -> SUBSET Features],
           NEW force \in BOOLEAN, NEW g \in AllAffected(fs, next, force)
    PROVE  next[g] \subseteq AllAffected(fs, next, force)
<1>1. PICK f \in fs : /\ g \in Affected(f, next)
                      /\ force \/ Affected(f, next) = {f}
    BY DEF AllAffected
<1>2. next[g] \subseteq Affected(f, next)
    BY <1>1, AffectedIsClosed
<1>3. Affected(f, next) \subseteq AllAffected(fs, next, force)
    BY <1>1 DEF AllAffected
<1> QED
    BY <1>2, <1>3

\* EnableFeatures keeps a descriptor closed.
LEMMA EnableKeepsClosed ==
    ASSUME FeatureStateAssumption, NEW l, Sound(l),
           NEW fs \in SUBSET Features, NEW force \in BOOLEAN
    PROVE  Sound(Added(l, ToEnable(l, fs, force)))
<1> DEFINE next == DisabledDependencies(Enabled(l))
           adds == ToEnable(l, fs, force)
           new == Added(l, adds)
<1>1. next \in [Features -> SUBSET Features]
    BY DEF FeatureStateAssumption, DisabledDependencies
<1>2. adds \subseteq Features
    BY DEF ToEnable, AllAffected, Affected
<1>3. new \in Counts /\ Enabled(new) = Enabled(l) \cup adds
    BY <1>2 DEF Sound, Counts, Added, Enabled
<1>4. ASSUME NEW f \in Enabled(new), NEW d \in Deps[f]
      PROVE  d \in Enabled(new)
    <2>1. f \in Features /\ d \in Features
        BY <1>4 DEF FeatureStateAssumption, Enabled
    <2>2. CASE f \in Enabled(l)
        BY <2>2, <1>3, <1>4 DEF Sound, Closed
    <2>3. CASE f \in adds
        <3>1. next[f] \subseteq adds
            BY <2>3, <1>1, AllAffectedIsClosed DEF ToEnable
        <3>2. d \in Enabled(l) \/ d \in next[f]
            BY <1>4, <2>1 DEF DisabledDependencies
        <3> QED
            BY <3>1, <3>2, <1>3
    <2> QED
        BY <2>2, <2>3, <1>3, <1>4
<1> QED
    BY <1>3, <1>4 DEF Sound, Closed

\* DisableFeatures keeps a descriptor closed.
LEMMA DisableKeepsClosed ==
    ASSUME FeatureStateAssumption, NEW l, Sound(l),
           NEW fs \in SUBSET Features, NEW force \in BOOLEAN
    PROVE  Sound(Removed(l, ToDisable(l, fs, force)))
<1> DEFINE next == EnabledDependants(Enabled(l))
           removes == ToDisable(l, fs, force)
           new == Removed(l, removes)
<1>1. next \in [Features -> SUBSET Features]
    BY DEF EnabledDependants, Enabled
<1>2. new \in Counts /\ Enabled(new) = Enabled(l) \ removes
    BY DEF Sound, Counts, Removed, Enabled
<1>3. ASSUME NEW f \in Enabled(new), NEW d \in Deps[f]
      PROVE  d \in Enabled(new)
    <2>1. f \in Enabled(l) /\ f \notin removes /\ d \in Enabled(l)
        BY <1>2, <1>3 DEF Sound, Closed
    <2>2. f \in next[d]
        BY <2>1, <1>3 DEF EnabledDependants, Enabled
    <2>3. d \notin removes
        BY <2>1, <2>2, <1>1, AllAffectedIsClosed DEF ToDisable
    <2> QED
        BY <2>1, <2>3, <1>2
<1> QED
    BY <1>2, <1>3 DEF Sound, Closed

\* A call of the feature manager in a session with a sound list leaves one.
LEMMA CallKeepsSound ==
    ASSUME FeatureStateAssumption, Inv, NEW r \in Requests, NEW s, Sound(s.listed),
           CallManager(r, s)
    PROVE  /\ DOMAIN session' = Requests
           /\ \A q \in Requests : Sound(session'[q].listed)
<1>1. PICK l : Sound(l) /\ Update(r, s, l)
    BY EnableKeepsClosed, DisableKeepsClosed DEF CallManager
<1>2. Updated(s, l).listed = l
    BY DEF Updated
<1>3. session' = [session EXCEPT ![r] = Updated(s, l)]
    BY <1>1 DEF Update
<1> QED
    BY <1>1, <1>2, <1>3 DEF Inv

\* A closed session, and one that has just read the rows, list closed sets.
LEMMA SessionsAreSound ==
    ASSUME Inv
    PROVE  Sound(NoSession.listed) /\ Sound(OpenSession.listed)
<1>1. Sound([f \in Features |-> 0])
    BY DEF Sound, Counts, Closed, Enabled
<1> QED
    BY <1>1 DEF NoSession, OpenSession, Inv

\* A tenant after its setup has enabled features with their dependencies.
LEMMA InvInit == FeatureStateAssumption /\ Init => Inv
<1> SUFFICES ASSUME FeatureStateAssumption, Init PROVE Inv
    OBVIOUS
<1>1. PICK S \in SUBSET Features :
          Closed(S) /\ listed = [f \in Features |-> IF f \in S THEN 1 ELSE 0]
    BY DEF Init
<1>2. listed \in Counts /\ Enabled(listed) = S
    BY <1>1 DEF Counts, Enabled
<1>3. Sound([f \in Features |-> 0])
    BY DEF Sound, Counts, Closed, Enabled
<1>4. \A r \in Requests : session[r].listed = [f \in Features |-> 0]
    BY DEF Init, NoSession
<1> QED
    BY <1>1, <1>2, <1>3, <1>4 DEF Init, Inv, Sound

\* Every call, commit, task and failure keeps lists closed, committed or not.
LEMMA InvNext == FeatureStateAssumption /\ Inv /\ [Next]_vars => Inv'
<1> SUFFICES ASSUME FeatureStateAssumption, Inv, [Next]_vars PROVE Inv'
    OBVIOUS
<1>1. CASE UNCHANGED vars
    BY <1>1 DEF vars, Inv, Sound, Counts, Closed, Enabled
<1> SUFFICES ASSUME Next PROVE Inv'
    BY <1>1
<1>0. use.requests \subseteq Requests /\ use' \in Uses
    BY DEF Next, Inv, FeatureStateAssumption, AllUses
<1>2. ASSUME NEW r \in Requests, UNCHANGED listed,
             DOMAIN session' = Requests, \A q \in Requests : Sound(session'[q].listed)
      PROVE  Inv'
    BY <1>0, <1>2 DEF Inv, Sound, Counts, Closed, Enabled
<1>3. ASSUME NEW r \in Requests, Change(r) PROVE Inv'
    <2>1. Sound((IF pc[r] = "idle" THEN OpenSession ELSE session[r]).listed)
        BY SessionsAreSound DEF Inv
    <2> QED
        BY <1>2, <1>3, <2>1, CallKeepsSound DEF Change
<1>4. ASSUME NEW r \in Requests, HandlerChanges(r) PROVE Inv'
    <2>1. Sound(session[r].listed)
        BY DEF Inv
    <2> QED
        BY <1>2, <1>4, <2>1, CallKeepsSound DEF HandlerChanges
<1>5. ASSUME NEW r \in Requests, Flush(session[r]),
             session' = [session EXCEPT ![r] = NoSession]
      PROVE  Inv'
    <2>1. Sound(listed')
        BY <1>5 DEF Flush, Inv, Sound, Counts, Closed, Enabled
    <2>2. \A q \in Requests : Sound(session'[q].listed)
        BY <1>5, SessionsAreSound DEF Inv
    <2> QED
        BY <1>0, <1>5, <2>1, <2>2 DEF Inv, Sound, Counts, Closed, Enabled
<1>6. ASSUME NEW r \in Requests, Commit(r) PROVE Inv'
    BY <1>5, <1>6 DEF Commit
<1>7. ASSUME NEW r \in Requests, EndTask(r) \/ TaskStops(r) PROVE Inv'
    BY <1>5, <1>7 DEF EndTask, TaskStops, Closing
<1>8. ASSUME NEW r \in Requests, UNCHANGED listed,
             NEW s, Sound(s.listed), session' = [session EXCEPT ![r] = s]
      PROVE  Inv'
    BY <1>2, <1>8 DEF Inv
<1>9. ASSUME NEW r \in Requests, Rollback(r) \/ TaskFails(r) PROVE Inv'
    BY <1>8, <1>9, SessionsAreSound DEF Rollback, TaskFails, Closing
<1>10. ASSUME NEW r \in Requests, StartTask(r) PROVE Inv'
    BY <1>8, <1>10, SessionsAreSound DEF StartTask
<1>11. ASSUME NEW r \in Requests, ApplyNext(r) PROVE Inv'
    <2>1. \A q \in Requests : session'[q].listed = session[q].listed
        BY <1>11 DEF ApplyNext, Inv
    <2>2. DOMAIN session' = Requests /\ UNCHANGED listed
        BY <1>11 DEF ApplyNext, Inv
    <2> QED
        BY <1>2, <1>11, <2>1, <2>2 DEF Inv
<1>12. ASSUME NEW r \in Requests, EndRequest(r) PROVE Inv'
    BY <1>0, <1>12 DEF EndRequest, Inv, Sound, Counts, Closed, Enabled
<1>13. ASSUME NEW r \in Requests, Migrate(r) PROVE Inv'
    <2>1. Sound(listed')
        BY <1>13 DEF Migrate, Flush, Inv, Sound, Counts, Closed, Enabled
    <2>2. \A q \in Requests : Sound(session'[q].listed)
        BY <1>13, <2>1 DEF Migrate, Inv, OpenSession
    <2> QED
        BY <1>0, <1>13, <2>1, <2>2 DEF Migrate, Inv, Sound, Counts, Closed, Enabled
<1> QED
    BY <1>0, <1>3, <1>4, <1>6, <1>7, <1>9, <1>10, <1>11, <1>12, <1>13 DEF Next

\* Whatever features depend on whatever others, no sequence of calls by any number
\* of requests leaves an enabled feature without one of its dependencies.
THEOREM FeatureDependenciesEnabled ==
    ASSUME FeatureStateAssumption
    PROVE  Spec => []DependenciesEnabled
<1>1. Inv => DependenciesEnabled
    BY DEF Inv, Sound, DependenciesEnabled
<1> QED
    BY <1>1, InvInit, InvNext, PTL DEF Spec

------------------------------------------------------------------------------
\* Types.  Each call adds at most one copy of a feature to a list, and each commit that
\* raises the serial number has a call behind it that no commit has used.
Counted ==
    /\ serial <= changes + 1 /\ \A f \in Features : listed[f] <= changes + 1
    /\ \A r \in Requests :
        /\ session[r].serial <= serial
        /\ session[r].changed /\ session[r].serial = serial => serial <= changes
        /\ \A f \in Features : session[r].listed[f] <= changes + 1

\* The states that a call gives to features.
LEMMA DeducedTypes ==
    ASSUME NEW s \in FeatureStates, NEW b
    PROVE  Deduced(s, b) \in FeatureStates
    BY DEF Deduced, FeatureStates, States

\* The states that ApplyChanges gives them.
LEMMA SettledTypes ==
    ASSUME NEW s \in FeatureStates
    PROVE  Settled(s) \in FeatureStates
    BY DEF Settled, FeatureStates, States

\* A session after a call.
LEMMA UpdatedTypes ==
    ASSUME NEW s \in Sessions, NEW l \in [Features -> 0..(use.changes + 1)]
    PROVE  /\ Updated(s, l) \in Sessions
           /\ Updated(s, l).listed = l /\ Updated(s, l).serial = s.serial
           /\ Updated(s, l).changed = TRUE
           /\ Updated(s, l).record
                = [f \in Features |-> Deduced(s.record[f], l[f] > 0)]
           /\ Updated(s, l).dirty
                = s.dirty \cup {f \in Features : Updated(s, l).record[f] # s.record[f]}
<1> DEFINE st == [f \in Features |-> Deduced(s.record[f], l[f] > 0)]
<1>1. \A f \in Features : s.record[f] \in FeatureStates
    BY DEF Sessions
<1>2. st \in [Features -> FeatureStates]
    BY <1>1, DeducedTypes
<1> DEFINE new == Updated(s, l)
<1>3. new = [serial |-> s.serial, listed |-> l, record |-> st, changed |-> TRUE,
             dirty |-> s.dirty \cup {f \in Features : st[f] # s.record[f]}]
    BY DEF Updated
<1> HIDE DEF st, new
<1>4. new.record = st /\ new.listed = l /\ new.serial = s.serial /\ new.changed = TRUE
      /\ new.dirty = s.dirty \cup {f \in Features : st[f] # s.record[f]}
    BY <1>3
<1>5. new \in Sessions
    <2>1. s.serial \in 0..(use.changes + 1) /\ s.dirty \subseteq Features
        BY DEF Sessions
    <2>2. s.dirty \cup {f \in Features : st[f] # s.record[f]} \in SUBSET Features
        BY <2>1
    <2> QED
        BY <1>2, <1>3, <2>1, <2>2 DEF Sessions
<1> QED
    BY <1>4, <1>5 DEF st, new

\* Every task is a set of features.
LEMMA TaskTypes ==
    ASSUME NEW st
    PROVE  ApplyChangesTask(st) \in Seq(SUBSET Features)
<1> DEFINE T == {f \in Features : Changing(st[f]) \/ st[f].enable = "Up"}
<1>1. T \in SUBSET Features
    OBVIOUS
<1>2. ApplyChangesTask(st) = <<T>> \/ ApplyChangesTask(st) = <<>>
    BY DEF ApplyChangesTask
<1> HIDE DEF T
<1>3. <<T>> \in Seq(SUBSET Features) /\ <<>> \in Seq(SUBSET Features)
    BY <1>1
<1> QED
    BY <1>2, <1>3

\* What is known of a closed session, and of one that has just been opened.
LEMMA SessionTypes ==
    ASSUME FeatureStateAssumption, TypeOK
    PROVE  /\ use.changes \in Nat /\ NoSession \in Sessions /\ OpenSession \in Sessions
           /\ Unknown \in [Features -> FeatureStates]
<1>1. use.changes \in Nat
    BY DEF FeatureStateAssumption, TypeOK, AllUses
<1>2. Unknown \in [Features -> FeatureStates]
    BY DEF Unknown, FeatureStates, States
<1> QED
    BY <1>1, <1>2 DEF TypeOK, NoSession, OpenSession, Sessions

\* A call of the feature manager updates the session with a list.
LEMMA CallTypes ==
    ASSUME FeatureStateAssumption, TypeOK, Counted, NEW r \in Requests,
           NEW s \in Sessions, CallManager(r, s),
           \A f \in Features : s.listed[f] <= changes + 1
    PROVE  \E l \in [Features -> 0..(use.changes + 1)] :
              /\ Update(r, s, l) /\ changes' = changes + 1 /\ changes' \in 0..use.changes
              /\ \A f \in Features : l[f] <= changes' + 1
<1>1. use.changes \in Nat /\ changes \in Nat /\ changes < use.changes
      /\ changes' = changes + 1
    BY SessionTypes DEF CallManager, TypeOK
<1>2. \A f \in Features : s.listed[f] \in Nat /\ s.listed[f] <= changes + 1
    BY <1>1 DEF Sessions
<1>3. ASSUME NEW S PROVE /\ Added(s.listed, S) \in [Features -> 0..(use.changes + 1)]
                         /\ \A f \in Features : Added(s.listed, S)[f] <= changes + 2
    BY <1>1, <1>2 DEF Added
<1>4. ASSUME NEW S PROVE /\ Removed(s.listed, S) \in [Features -> 0..(use.changes + 1)]
                         /\ \A f \in Features : Removed(s.listed, S)[f] <= changes + 2
    BY <1>1, <1>2 DEF Removed
<1>5. \E S : Update(r, s, Added(s.listed, S)) \/ Update(r, s, Removed(s.listed, S))
    BY DEF CallManager
<1>6. changes' + 1 = changes + 2 /\ changes' \in 0..use.changes
    BY <1>1
<1> QED
    BY <1>1, <1>3, <1>4, <1>5, <1>6

\* A call keeps the types and the counts.
LEMMA CallKeepsTypes ==
    ASSUME FeatureStateAssumption, TypeOK, Counted, use' = use, NEW r \in Requests,
           NEW s \in Sessions, CallManager(r, s), s.serial <= serial,
           \A f \in Features : s.listed[f] <= changes + 1,
           UNCHANGED <<serial, listed>>
    PROVE  /\ session' \in [Requests -> Sessions]
           /\ tasks' \in [Requests -> Seq(SUBSET Features)]
           /\ changes' \in 0..use.changes
           /\ Counted'
<1>1. PICK l \in [Features -> 0..(use.changes + 1)] :
              /\ Update(r, s, l) /\ changes' = changes + 1 /\ changes' \in 0..use.changes
              /\ \A f \in Features : l[f] <= changes' + 1
    BY CallTypes
<1> DEFINE new == Updated(s, l)
<1>2. new \in Sessions /\ new.listed = l /\ new.serial = s.serial
    BY UpdatedTypes
<1>3. session' = [session EXCEPT ![r] = new]
    BY <1>1 DEF Update
<1> HIDE DEF new
<1>4. session' \in [Requests -> Sessions] /\ session'[r] = new
      /\ \A q \in Requests \ {r} : session'[q] = session[q]
    BY <1>2, <1>3 DEF TypeOK
<1>5. tasks' \in [Requests -> Seq(SUBSET Features)]
    BY <1>1, TaskTypes DEF TypeOK, Update
<1>6. serial \in Nat /\ changes \in Nat /\ serial' <= changes'
    BY <1>1, SessionTypes DEF TypeOK, Counted
<1>7. \A f \in Features : listed'[f] <= changes' + 1
    BY <1>1, <1>6, SessionTypes DEF TypeOK, Counted
<1>8. ASSUME NEW q \in Requests
      PROVE  /\ session'[q].serial <= serial'
             /\ \A f \in Features : session'[q].listed[f] <= changes' + 1
    <2>1. CASE q = r
        BY <1>1, <1>2, <1>4, <2>1
    <2>2. CASE q # r
        <3>1. session'[q] = session[q] /\ session[q] \in Sessions
            BY <1>4, <2>2 DEF TypeOK
        <3>2. \A f \in Features : session[q].listed[f] \in Nat
            BY <3>1, SessionTypes DEF Sessions
        <3> QED
            BY <1>1, <1>6, <3>1, <3>2 DEF Counted
    <2> QED
        BY <2>1, <2>2
<1>9. Counted'
    BY <1>6, <1>7, <1>8, <1>1 DEF Counted
<1> QED
    BY <1>1, <1>4, <1>5, <1>9

------------------------------------------------------------------------------
\* Numbers up to n can be listed in their order.
LEMMA Enumeration ==
    ASSUME NEW n \in Nat, NEW at \in SUBSET (1..n)
    PROVE  /\ Cardinality(at) \in Nat
           /\ \E q \in [1..Cardinality(at) -> at] :
                \A i, j \in 1..Cardinality(at) : i < j => q[i] < q[j]
           /\ \A q \in [1..Cardinality(at) -> at] :
                (\A i, j \in 1..Cardinality(at) : i < j => q[i] < q[j])
                => \A i \in at : \E k \in 1..Cardinality(at) : q[k] = i
<1> DEFINE m == Cardinality(at)
           below == [i \in at |-> {j \in at : j <= i}]
           rank == [i \in at |-> Cardinality(below[i])]
<1> HIDE DEF below, rank
<1>0. \A i \in at : i \in Nat
    OBVIOUS
<1>1. IsFiniteSet(at) /\ m \in Nat
    <2>1. IsFiniteSet(1..n)
        BY FS_Interval
    <2>2. IsFiniteSet(at)
        BY <2>1, FS_Subset
    <2> QED
        BY <2>2, FS_CardinalityType
<1> HIDE DEF m
<1>2. IsFiniteSet(1..m) /\ Cardinality(1..m) = m
    BY <1>1, FS_Interval
<1>3. \A i \in at : IsFiniteSet(below[i]) /\ Cardinality(below[i]) \in 0..m
    <2> TAKE i \in at
    <2>1. below[i] \in SUBSET at
        BY DEF below
    <2>2. IsFiniteSet(below[i]) /\ Cardinality(below[i]) <= m
        BY <1>1, <2>1, FS_Subset DEF m
    <2> QED
        BY <1>1, <2>2, FS_CardinalityType
<1>4. \A i \in at : rank[i] \in 1..m
    <2> TAKE i \in at
    <2>1. i \in below[i]
        BY <1>0 DEF below
    <2>2. rank[i] = Cardinality(below[i])
        BY DEF rank
    <2>3. Cardinality(below[i]) # 0
        BY <1>3, <2>1, FS_EmptySet
    <2>4. Cardinality(below[i]) \in 0..m
        BY <1>3
    <2> QED
        BY <1>1, <2>2, <2>3, <2>4
<1>5. \A i, j \in at : i < j => rank[i] < rank[j]
    <2> SUFFICES ASSUME NEW i \in at, NEW j \in at, i < j PROVE rank[i] < rank[j]
        OBVIOUS
    <2>0. i \in Nat /\ j \in Nat /\ \A k \in at : k \in Nat
        BY <1>0
    <2>1. below[i] \in SUBSET below[j] /\ j \in below[j] /\ j \notin below[i]
        <3>1. below[i] = {k \in at : k <= i} /\ below[j] = {k \in at : k <= j}
            BY DEF below
        <3>2. \A k \in at : k <= i => k <= j
            BY <2>0
        <3>3. j <= j /\ ~(j <= i)
            BY <2>0
        <3> QED
            BY <3>1, <3>2, <3>3
    <2>2. rank[i] = Cardinality(below[i]) /\ rank[j] = Cardinality(below[j])
        BY DEF rank
    <2>3. below[i] # below[j]
        BY <2>1
    <2>4. Cardinality(below[i]) <= Cardinality(below[j])
        BY <1>3, <2>1, FS_Subset
    <2>5. Cardinality(below[i]) # Cardinality(below[j])
        BY <1>3, <2>1, <2>3, FS_Subset
    <2> QED
        BY <1>1, <1>3, <2>2, <2>4, <2>5
<1>6. rank \in [at -> 1..m]
    <2>1. rank = [i \in at |-> rank[i]]
        BY DEF rank
    <2> QED
        BY <1>4, <2>1
<1>7. rank \in Surjection(at, 1..m)
    <2>1. rank \in Injection(at, 1..m)
        <3>1. \A i, j \in at : rank[i] = rank[j] => i = j
            <4> SUFFICES ASSUME NEW i \in at, NEW j \in at, rank[i] = rank[j]
                         PROVE  i = j
                OBVIOUS
            <4>1. i \in Nat /\ j \in Nat /\ rank[i] \in 1..m
                BY <1>0, <1>4
            <4>2. ~(i < j) /\ ~(j < i)
                BY <1>1, <1>5, <4>1
            <4> QED
                BY <4>1, <4>2
        <3> QED
            BY <1>6, <3>1 DEF Injection, IsInjective
    <2> QED
        BY <1>1, <1>2, <2>1, FS_Injection DEF m
<1>8. \A k \in 1..m : \E i \in at : rank[i] = k
    BY <1>7 DEF Surjection
<1> DEFINE s == [k \in 1..m |-> CHOOSE i \in at : rank[i] = k]
<1>9. \A k \in 1..m : s[k] \in at /\ rank[s[k]] = k
    BY <1>8
<1>10. s \in [1..m -> at] /\ \A i, j \in 1..m : i < j => s[i] < s[j]
    <2>1. s \in [1..m -> at]
        BY <1>9
    <2> HIDE DEF s
    <2>2. ASSUME NEW i \in 1..m, NEW j \in 1..m, i < j PROVE s[i] < s[j]
        <3>1. s[i] \in at /\ s[j] \in at
            BY <1>9
        <3>4. s[i] \in Nat /\ s[j] \in Nat
            BY <1>0, <3>1
        <3>2. s[j] < s[i] => rank[s[j]] < rank[s[i]]
            BY <1>5, <3>1
        <3>3. rank[s[i]] = i /\ rank[s[j]] = j
            BY <1>9
        <3> QED
            BY <1>1, <2>2, <3>2, <3>3, <3>4
    <2> QED
        BY <2>1, <2>2
<1>11. ASSUME NEW q \in [1..m -> at], \A i, j \in 1..m : i < j => q[i] < q[j]
       PROVE  \A i \in at : \E k \in 1..m : q[k] = i
    <2>1. ASSUME NEW i \in 1..m, NEW j \in 1..m, q[i] = q[j] PROVE i = j
        <3>1. q[i] \in Nat
            BY <1>0
        <3>2. ~(i < j) /\ ~(j < i)
            BY <1>11, <2>1, <3>1
        <3> QED
            BY <1>1, <3>2
    <2>2. q \in Injection(1..m, at)
        BY <2>1 DEF Injection, IsInjective
    <2>3. q \in Surjection(1..m, at)
        BY <1>1, <1>2, <2>2, FS_Injection DEF m
    <2> QED
        BY <2>3 DEF Surjection
<1> HIDE DEF s
<1> QED
    BY <1>1, <1>10, <1>11 DEF m

\* The sequence q has the elements of S that are in the first n of another sequence,
\* in the order that they have there.
Lists(q, S, sequence, n) ==
    /\ q \in Seq(Features)
    /\ \A k \in 1..n : sequence[k] \in S => \E i \in 1..Len(q) : q[i] = sequence[k]
    /\ \E at \in [1..Len(q) -> 1..n] :
        /\ \A i \in 1..Len(q) : q[i] = sequence[at[i]] /\ sequence[at[i]] \in S
        /\ \A i, j \in 1..Len(q) : i < j => at[i] < at[j]

\* That is what Those makes.
LEMMA ThoseInOrder ==
    ASSUME NEW S, NEW n \in Nat, NEW sequence \in [1..n -> Features]
    PROVE  Lists(Those(S, sequence), S, sequence, n)
<1> DEFINE at == {i \in DOMAIN sequence : sequence[i] \in S}
           m == Cardinality(at)
           next == CHOOSE next \in [1..Cardinality(at) -> at] :
                    \A i, j \in 1..Cardinality(at) : i < j => next[i] < next[j]
           those == [i \in 1..m |-> sequence[next[i]]]
<1>1. at \in SUBSET (1..n) /\ \A k \in 1..n : sequence[k] \in S <=> k \in at
    OBVIOUS
<1>2. Those(S, sequence) = those
    BY DEF Those
<1> HIDE DEF at
<1>3. /\ m \in Nat
      /\ next \in [1..m -> at] /\ \A i, j \in 1..m : i < j => next[i] < next[j]
      /\ \A i \in at : \E k \in 1..m : next[k] = i
    <2>1. /\ m \in Nat
          /\ \E q \in [1..m -> at] : \A i, j \in 1..m : i < j => q[i] < q[j]
          /\ \A q \in [1..m -> at] :
                (\A i, j \in 1..m : i < j => q[i] < q[j])
                => \A i \in at : \E k \in 1..m : q[k] = i
        BY <1>1, Enumeration
    <2>2. next = CHOOSE q \in [1..m -> at] : \A i, j \in 1..m : i < j => q[i] < q[j]
        OBVIOUS
    <2> HIDE DEF m, next
    <2>3. next \in [1..m -> at] /\ \A i, j \in 1..m : i < j => next[i] < next[j]
        BY <2>1, <2>2
    <2> QED
        BY <2>1, <2>3
<1> HIDE DEF m, next
<1>4. \A i \in 1..m : next[i] \in 1..n /\ next[i] \in at
    BY <1>1, <1>3
<1>5. those \in Seq(Features) /\ Len(those) = m /\ \A i \in 1..m : those[i] = sequence[next[i]]
    BY <1>3, <1>4
<1> HIDE DEF those
<1>6. \A k \in 1..n : sequence[k] \in S => \E i \in 1..m : those[i] = sequence[k]
    BY <1>1, <1>3, <1>5
<1>7. next \in [1..m -> 1..n]
    BY <1>1, <1>3
<1>8. \A i \in 1..m : those[i] = sequence[next[i]] /\ sequence[next[i]] \in S
    BY <1>1, <1>4, <1>5
<1> QED
    BY <1>2, <1>3, <1>5, <1>6, <1>7, <1>8 DEF Lists

\* The available features are in the order once each.
LEMMA OrderFacts ==
    ASSUME FeatureStateAssumption
    PROVE  /\ Cardinality(Features) \in Nat /\ Len(Order) = Cardinality(Features)
           /\ Order \in [1..Cardinality(Features) -> Features]
           /\ Reversed \in [1..Cardinality(Features) -> Features]
           /\ \A i \in 1..Cardinality(Features) :
                Reversed[i] = Order[Cardinality(Features) + 1 - i]
           /\ \A f \in Features : \E i \in 1..Cardinality(Features) : Order[i] = f
           /\ \A i, j \in 1..Cardinality(Features) : Order[i] = Order[j] => i = j
<1> DEFINE n == Cardinality(Features)
<1>1. n \in Nat /\ Order \in [1..n -> Features]
      /\ \A f \in Features : \E i \in 1..n : Order[i] = f
    BY FS_CardinalityType DEF FeatureStateAssumption
<1>2. IsFiniteSet(1..n) /\ Cardinality(1..n) = n
    BY <1>1, FS_Interval
<1> HIDE DEF n
<1>3. Order \in Surjection(1..n, Features)
    BY <1>1 DEF Surjection
<1>4. Order \in Injection(1..n, Features)
    BY <1>2, <1>3, FS_SurjSameCardinalityImpliesInj DEF n
<1>5. \A i, j \in 1..n : Order[i] = Order[j] => i = j
    BY <1>1, <1>4 DEF Injection, IsInjective
<1>6. Len(Order) = n /\ DOMAIN Order = 1..n
    BY <1>1
<1>7. \A i \in 1..n : n + 1 - i \in 1..n
    BY <1>1
<1>8. Reversed = [i \in 1..n |-> Order[n + 1 - i]]
    BY <1>6 DEF Reversed
<1>9. Reversed \in [1..n -> Features]
    BY <1>1, <1>7, <1>8
<1> QED
    BY <1>1, <1>5, <1>6, <1>8, <1>9 DEF n

\* A feature comes before all that depend on it, or after them.
Upward(q, from, to) ==
    \A i, j \in from..to : i < j => q[i] # q[j] /\ q[j] \notin Deps[q[i]]
Downward(q, from, to) ==
    \A i, j \in from..to : i < j => q[i] # q[j] /\ q[i] \notin Deps[q[j]]

IsRising(s) == "Rising" \in {s.install, s.enable}

\* The features to raise are all that rise, dependencies first.
LEMMA RaisedInOrder ==
    ASSUME FeatureStateAssumption, NEW st
    PROVE  /\ Raised(st) \in Seq(Features)
           /\ Upward(Raised(st), 1, Len(Raised(st)))
           /\ \A f \in Features :
                IsRising(st[f]) <=> \E i \in 1..Len(Raised(st)) : Raised(st)[i] = f
<1> DEFINE S == {f \in Features : "Rising" \in {st[f].install, st[f].enable}}
           n == Cardinality(Features)
           q == Those(S, Order)
<1>1. Raised(st) = q /\ \A f \in Features : f \in S <=> IsRising(st[f])
    BY DEF Raised, IsRising
<1>2. /\ n \in Nat /\ Order \in [1..n -> Features]
      /\ \A f \in Features : \E i \in 1..n : Order[i] = f
      /\ \A i, j \in 1..n : Order[i] = Order[j] => i = j
    BY OrderFacts
<1>3. \A i, j \in 1..n : Order[j] \in Deps[Order[i]] => j < i
    BY <1>2 DEF FeatureStateAssumption
<1> HIDE DEF S, n
<1>0. n \in Nat /\ Order \in [1..n -> Features]
    BY <1>2
<1>10. Lists(q, S, Order, n)
    BY <1>0, ThoseInOrder
<1>4. /\ q \in Seq(Features)
      /\ \A k \in 1..n : Order[k] \in S => \E i \in 1..Len(q) : q[i] = Order[k]
    BY <1>10 DEF Lists
<1>5. PICK at \in [1..Len(q) -> 1..n] :
        /\ \A i \in 1..Len(q) : q[i] = Order[at[i]] /\ Order[at[i]] \in S
        /\ \A i, j \in 1..Len(q) : i < j => at[i] < at[j]
    BY <1>10 DEF Lists
<1> HIDE DEF q
<1>6. ASSUME NEW i \in 1..Len(q), NEW j \in 1..Len(q), i < j
      PROVE  q[i] # q[j] /\ q[j] \notin Deps[q[i]]
    <2>1. at[i] < at[j] /\ at[i] \in 1..n /\ at[j] \in 1..n
        BY <1>5, <1>6
    <2>2. q[i] = Order[at[i]] /\ q[j] = Order[at[j]]
        BY <1>5
    <2>3. at[i] # at[j] /\ ~(at[j] < at[i])
        BY <1>2, <2>1
    <2> QED
        BY ZenonT(40), <1>2, <1>3, <2>1, <2>2, <2>3
<1>7. \A f \in Features : f \in S <=> \E i \in 1..Len(q) : q[i] = f
    <2>1. \A i \in 1..Len(q) : q[i] \in S
        BY <1>5
    <2>2. ASSUME NEW f \in S PROVE \E i \in 1..Len(q) : q[i] = f
        <3>1. PICK k \in 1..n : Order[k] = f
            BY <1>2 DEF S
        <3> QED
            BY <1>4, <2>2, <3>1
    <2> QED
        BY <2>1, <2>2
<1> QED
    BY <1>1, <1>4, <1>6, <1>7 DEF Upward

\* The features to lower are all that fall, dependants first.
LEMMA LoweredInOrder ==
    ASSUME FeatureStateAssumption, NEW st
    PROVE  /\ Lowered(st) \in Seq(Features)
           /\ Downward(Lowered(st), 1, Len(Lowered(st)))
           /\ \A f \in Features : st[f].enable = "Falling" <=>
                \E i \in 1..Len(Lowered(st)) : Lowered(st)[i] = f
<1> DEFINE S == {f \in Features : st[f].enable = "Falling"}
           n == Cardinality(Features)
           q == Those(S, Reversed)
<1>1. Lowered(st) = q /\ \A f \in Features : f \in S <=> st[f].enable = "Falling"
    BY DEF Lowered
<1>2. /\ n \in Nat /\ Reversed \in [1..n -> Features] /\ DOMAIN Order = 1..n
      /\ \A f \in Features : \E i \in 1..n : Order[i] = f
      /\ \A i, j \in 1..n : Order[i] = Order[j] => i = j
      /\ \A i \in 1..n : Reversed[i] = Order[n + 1 - i]
    BY OrderFacts
<1>3. \A i, j \in 1..n : Order[j] \in Deps[Order[i]] => j < i
    BY <1>2 DEF FeatureStateAssumption
<1> HIDE DEF S, n
<1>4. \A f \in Features : \E i \in 1..n : Reversed[i] = f
    <2> TAKE f \in Features
    <2>1. PICK i \in 1..n : Order[i] = f
        BY <1>2
    <2>2. n + 1 - i \in 1..n /\ n + 1 - (n + 1 - i) = i
        BY <1>2
    <2> QED
        BY <1>2, <2>1, <2>2
<1>0. n \in Nat /\ Reversed \in [1..n -> Features]
    BY <1>2
<1>10. Lists(q, S, Reversed, n)
    BY <1>0, ThoseInOrder
<1>5. /\ q \in Seq(Features)
      /\ \A k \in 1..n : Reversed[k] \in S => \E i \in 1..Len(q) : q[i] = Reversed[k]
    BY <1>10 DEF Lists
<1>6. PICK at \in [1..Len(q) -> 1..n] :
        /\ \A i \in 1..Len(q) : q[i] = Reversed[at[i]] /\ Reversed[at[i]] \in S
        /\ \A i, j \in 1..Len(q) : i < j => at[i] < at[j]
    BY <1>10 DEF Lists
<1> HIDE DEF q
<1>7. ASSUME NEW i \in 1..Len(q), NEW j \in 1..Len(q), i < j
      PROVE  q[i] # q[j] /\ q[i] \notin Deps[q[j]]
    <2> DEFINE a == n + 1 - at[i]
               b == n + 1 - at[j]
    <2>1. at[i] < at[j] /\ at[i] \in 1..n /\ at[j] \in 1..n
        BY <1>6, <1>7
    <2>2. q[i] = Order[a] /\ q[j] = Order[b]
        BY <1>2, <1>6, <2>1
    <2>3. a \in 1..n /\ b \in 1..n /\ a # b /\ ~(a < b)
        BY <1>2, <2>1
    <2> HIDE DEF a, b
    <2> QED
        BY <1>2, <1>3, <2>2, <2>3
<1>8. \A f \in Features : f \in S <=> \E i \in 1..Len(q) : q[i] = f
    <2>1. \A i \in 1..Len(q) : q[i] \in S
        BY <1>6
    <2>2. ASSUME NEW f \in S PROVE \E i \in 1..Len(q) : q[i] = f
        <3>1. PICK k \in 1..n : Reversed[k] = f
            BY <1>4 DEF S
        <3> QED
            BY <1>5, <2>2, <3>1
    <2> QED
        BY <2>1, <2>2
<1> QED
    BY <1>1, <1>5, <1>7, <1>8 DEF Downward

\* What a task has to do is a sequence of features.
LEMMA TodoTypes ==
    ASSUME FeatureStateAssumption, NEW st
    PROVE  Lowered(st) \o Raised(st) \in Seq(Features)
    BY LoweredInOrder, RaisedInOrder

\* At the beginning the variables hold what their declarations say.
LEMMA TypeInit ==
    ASSUME FeatureStateAssumption, Init
    PROVE  TypeOK /\ Counted
<1>1. use \in Uses /\ use.changes \in Nat
    BY DEF Init, FeatureStateAssumption, AllUses
<1>2. Unknown \in [Features -> FeatureStates]
    BY DEF Unknown, FeatureStates, States
<1>3. NoSession \in Sessions
    BY <1>1, <1>2 DEF NoSession, Sessions
<1>4. listed \in [Features -> 0..1] /\ record \in [Features -> FeatureStates]
    BY DEF Init, FeatureStates, States
<1>5. listed \in [Features -> 0..(use.changes + 1)]
    BY <1>1, <1>4
<1>6. serial \in 1..(use.changes + 1) /\ changes \in 0..use.changes
    BY <1>1 DEF Init
<1>7. TypeOK
    BY <1>1, <1>2, <1>3, <1>4, <1>5, <1>6 DEF Init, TypeOK
<1>8. Counted
    BY <1>4 DEF Init, Counted, NoSession
<1> QED
    BY <1>7, <1>8

\* What the rows become that a session writes.
LEMMA FlushTypes ==
    ASSUME FeatureStateAssumption, TypeOK, Counted, NEW r \in Requests, Flush(session[r])
    PROVE  /\ serial' \in 1..(use.changes + 1) /\ serial <= serial' /\ serial' <= changes + 1
           /\ listed' \in [Features -> 0..(use.changes + 1)]
           /\ \A f \in Features : listed'[f] <= changes + 1
           /\ record' \in [Features -> FeatureStates]
           /\ session[r].changed => serial < serial'
           /\ ~session[r].changed => serial' = serial /\ listed' = listed
<1>1. session[r] \in Sessions /\ use.changes \in Nat
    BY SessionTypes DEF TypeOK
<1>2. /\ session[r].listed \in [Features -> 0..(use.changes + 1)]
      /\ session[r].record \in [Features -> FeatureStates]
      /\ session[r].serial \in Nat
    BY <1>1 DEF Sessions
<1>3. serial \in Nat /\ changes \in 0..use.changes /\ serial # 0
    BY <1>1 DEF TypeOK
<1>4. CASE session[r].changed
    <2>1. serial <= changes /\ serial' = serial + 1 /\ listed' = session[r].listed
        BY <1>4 DEF Flush, Conflict, Counted
    <2>2. record' \in [Features -> FeatureStates]
        BY <1>2 DEF Flush, TypeOK
    <2> QED
        BY <1>1, <1>2, <1>3, <1>4, <2>1, <2>2 DEF Counted
<1>5. CASE ~session[r].changed
    <2>1. serial' = serial /\ listed' = listed
        BY <1>5 DEF Flush
    <2>2. record' \in [Features -> FeatureStates]
        BY <1>2 DEF Flush, TypeOK
    <2> QED
        BY <1>1, <1>3, <1>5, <2>1, <2>2 DEF TypeOK, Counted
<1> QED
    BY <1>4, <1>5

\* A session that replaces one keeps the counts when it has not changed anything.
LEMMA CountedKept ==
    ASSUME FeatureStateAssumption, TypeOK, Counted, NEW r \in Requests, NEW s \in Sessions,
           session' = [session EXCEPT ![r] = s], changes' = changes,
           serial <= serial', serial' <= changes + 1,
           serial' \in Nat, \A f \in Features : listed'[f] <= changes + 1,
           s.serial <= serial', ~s.changed \/ (s.serial = session[r].serial /\ session[r].changed),
           \A f \in Features : s.listed[f] <= changes + 1
    PROVE  Counted'
<1>1. serial \in Nat /\ changes \in Nat
    BY SessionTypes DEF TypeOK
<1>2. ASSUME NEW q \in Requests
      PROVE  /\ session'[q].serial <= serial'
             /\ session'[q].changed /\ session'[q].serial = serial' => serial' <= changes
             /\ \A f \in Features : session'[q].listed[f] <= changes + 1
    <2>1. session[q] \in Sessions /\ session[r] \in Sessions
        BY DEF TypeOK
    <2>2. session[q].serial \in Nat /\ session[r].serial \in Nat /\ s.serial \in Nat
        BY <2>1 DEF Sessions
    <2>3. /\ session[q].serial <= serial /\ session[r].serial <= serial
          /\ session[q].changed /\ session[q].serial = serial => serial <= changes
          /\ session[r].changed /\ session[r].serial = serial => serial <= changes
          /\ \A f \in Features : session[q].listed[f] <= changes + 1
        BY DEF Counted
    <2>4. CASE q = r
        <3>1. session'[q] = s
            BY <2>4 DEF TypeOK
        <3> QED
            BY <1>1, <2>2, <2>3, <3>1
    <2>5. CASE q # r
        <3>1. session'[q] = session[q]
            BY <2>5 DEF TypeOK
        <3> QED
            BY <1>1, <2>2, <2>3, <3>1
    <2> QED
        BY <2>4, <2>5
<1> QED
    BY <1>2 DEF Counted

\* ... in particular when nothing is written.
LEMMA CountedSame ==
    ASSUME FeatureStateAssumption, TypeOK, Counted, NEW r \in Requests, NEW s \in Sessions,
           session' = [session EXCEPT ![r] = s],
           UNCHANGED serial, UNCHANGED listed, UNCHANGED changes, s.serial <= serial,
           ~s.changed \/ (s.serial = session[r].serial /\ session[r].changed),
           \A f \in Features : s.listed[f] <= changes + 1
    PROVE  Counted'
<1>1. serial' \in Nat /\ serial <= serial' /\ serial' <= changes + 1 /\ s.serial <= serial'
    BY DEF TypeOK, Counted
<1>2. \A f \in Features : listed'[f] <= changes + 1
    BY DEF Counted
<1> QED
    BY <1>1, <1>2, CountedKept

\* A session after ApplyNext has written the state of one feature.
LEMMA ApplyTypes ==
    ASSUME FeatureStateAssumption, TypeOK, NEW r \in Requests, ApplyNext(r)
    PROVE  LET f == Head(todo[r])
               s == memory[r][f]
               row == session[r].record[f]
               next == Settled(s)
               written == [install |-> IF next.install # s.install THEN next.install
                                       ELSE row.install,
                           enable |-> IF next.enable # s.enable THEN next.enable
                                      ELSE row.enable]
               new == [serial |-> session[r].serial, listed |-> session[r].listed,
                       changed |-> session[r].changed, dirty |-> session[r].dirty \cup {f},
                       record |-> [session[r].record EXCEPT ![f] = written]]
           IN  /\ f \in Features /\ s \in FeatureStates /\ row \in FeatureStates
               /\ new \in Sessions /\ session' = [session EXCEPT ![r] = new]
               /\ memory' = [memory EXCEPT ![r] = [@ EXCEPT ![f] = next]]
               /\ memory' \in [Requests -> [Features -> FeatureStates]]
               /\ todo' = [todo EXCEPT ![r] = Tail(@)] /\ todo' \in [Requests -> Seq(Features)]
<1> DEFINE f == Head(todo[r])
           s == memory[r][f]
           row == session[r].record[f]
           next == Settled(s)
           written == [install |-> IF next.install # s.install THEN next.install
                                   ELSE row.install,
                       enable |-> IF next.enable # s.enable THEN next.enable
                                  ELSE row.enable]
           rows == [session[r].record EXCEPT ![f] = written]
           new == [serial |-> session[r].serial, listed |-> session[r].listed,
                   changed |-> session[r].changed, dirty |-> session[r].dirty \cup {f},
                   record |-> rows]
<1>1. todo[r] \in Seq(Features) /\ todo[r] # <<>>
    BY DEF TypeOK, ApplyNext
<1>2. f \in Features /\ Tail(todo[r]) \in Seq(Features)
    BY <1>1
<1>3. session[r] \in Sessions
    BY DEF TypeOK
<1>4. /\ session[r].record \in [Features -> FeatureStates]
      /\ session[r].serial \in 0..(use.changes + 1) /\ session[r].changed \in BOOLEAN
      /\ session[r].listed \in [Features -> 0..(use.changes + 1)]
      /\ session[r].dirty \subseteq Features
    BY <1>3 DEF Sessions
<1>5. s \in FeatureStates /\ row \in FeatureStates
    BY <1>2, <1>4 DEF TypeOK
<1>6. next \in FeatureStates
    BY <1>5, SettledTypes
<1>7. /\ session' = [session EXCEPT ![r] = new]
      /\ memory' = [memory EXCEPT ![r] = [@ EXCEPT ![f] = next]]
      /\ todo' = [todo EXCEPT ![r] = Tail(@)]
    BY DEF ApplyNext, TypeOK
<1> HIDE DEF f, s, row, next
<1>8. written \in FeatureStates
    BY <1>5, <1>6 DEF FeatureStates
<1> HIDE DEF written
<1>9. rows \in [Features -> FeatureStates]
    BY <1>2, <1>4, <1>8
<1> HIDE DEF rows
<1>10. new \in Sessions
    BY <1>2, <1>4, <1>9 DEF Sessions
<1>11. memory' \in [Requests -> [Features -> FeatureStates]]
    <2>1. memory[r] \in [Features -> FeatureStates]
        BY DEF TypeOK
    <2>2. [memory[r] EXCEPT ![f] = next] \in [Features -> FeatureStates]
        BY <1>2, <1>6, <2>1
    <2> QED
        BY <1>7, <2>2 DEF TypeOK
<1>12. todo' \in [Requests -> Seq(Features)]
    BY <1>2, <1>7 DEF TypeOK
<1> QED
    BY <1>2, <1>5, <1>7, <1>10, <1>11, <1>12 DEF f, s, row, next, written, rows

\* Every step keeps the types and the counts.
LEMMA TypeStep ==
    ASSUME FeatureStateAssumption, TypeOK, Counted, [Next]_vars
    PROVE  TypeOK' /\ Counted'
<1>1. CASE UNCHANGED vars
    BY <1>1 DEF vars, TypeOK, Counted, Sessions
<1> SUFFICES ASSUME Next PROVE TypeOK' /\ Counted'
    BY <1>1
<1>0. use' = use /\ use.requests \subseteq Requests /\ use.changes \in Nat
      /\ NoSession \in Sessions /\ OpenSession \in Sessions
      /\ Unknown \in [Features -> FeatureStates]
    BY SessionTypes DEF Next, TypeOK, FeatureStateAssumption, AllUses
<1>2. \A s \in Sessions : s.serial \in Nat /\ s.changed \in BOOLEAN
    BY DEF Sessions
<1>3. serial \in Nat /\ changes \in Nat /\ serial <= changes + 1
      /\ \A f \in Features : listed[f] <= changes + 1
    BY DEF TypeOK, Counted
<1>4. /\ OpenSession.serial = serial /\ OpenSession.listed = listed
      /\ OpenSession.changed = FALSE
      /\ NoSession.serial = 0 /\ NoSession.changed = FALSE
      /\ \A f \in Features : NoSession.listed[f] = 0
    BY DEF OpenSession, NoSession
<1>5. ASSUME NEW r \in Requests, Change(r) PROVE TypeOK' /\ Counted'
    <2> DEFINE s == IF pc[r] = "idle" THEN OpenSession ELSE session[r]
    <2>1. s \in Sessions /\ s.serial <= serial
          /\ \A f \in Features : s.listed[f] <= changes + 1
        BY <1>0, <1>3, <1>4 DEF TypeOK, Counted
    <2>2. CallManager(r, s) /\ UNCHANGED <<serial, listed, record, loaded, memory, todo>>
          /\ pc' = [pc EXCEPT ![r] = "open"]
        BY <1>5 DEF Change
    <2> HIDE DEF s
    <2>3. /\ session' \in [Requests -> Sessions]
          /\ tasks' \in [Requests -> Seq(SUBSET Features)]
          /\ changes' \in 0..use.changes
          /\ Counted'
        BY <1>0, <2>1, <2>2, CallKeepsTypes
    <2> QED
        BY <1>0, <2>2, <2>3 DEF TypeOK, Sessions
<1>6. ASSUME NEW r \in Requests, HandlerChanges(r) PROVE TypeOK' /\ Counted'
    <2>1. session[r] \in Sessions /\ session[r].serial <= serial
          /\ \A f \in Features : session[r].listed[f] <= changes + 1
        BY DEF TypeOK, Counted
    <2>2. CallManager(r, session[r])
          /\ UNCHANGED <<serial, listed, record, pc, loaded, memory, todo>>
        BY <1>6 DEF HandlerChanges
    <2>3. /\ session' \in [Requests -> Sessions]
          /\ tasks' \in [Requests -> Seq(SUBSET Features)]
          /\ changes' \in 0..use.changes
          /\ Counted'
        BY <1>0, <2>1, <2>2, CallKeepsTypes
    <2> QED
        BY <1>0, <2>2, <2>3 DEF TypeOK, Sessions
<1>7. ASSUME NEW r \in Requests, session' = [session EXCEPT ![r] = NoSession],
             changes' = changes, serial <= serial', serial' <= changes + 1, serial' \in Nat,
             \A f \in Features : listed'[f] <= changes + 1
      PROVE  Counted' /\ session' \in [Requests -> Sessions]
    <2>1. NoSession.serial <= serial' /\ \A f \in Features : NoSession.listed[f] <= changes + 1
        BY <1>3, <1>4, <1>7
    <2>2. Counted'
        BY <1>0, <1>4, <1>7, <2>1, CountedKept
    <2> QED
        BY <1>0, <1>7, <2>2 DEF TypeOK
<1>16. ASSUME NEW r \in Requests, session' = [session EXCEPT ![r] = NoSession],
              UNCHANGED <<serial, listed, changes>>
       PROVE  Counted' /\ session' \in [Requests -> Sessions]
    <2>1. NoSession.serial <= serial /\ ~NoSession.changed
          /\ \A f \in Features : NoSession.listed[f] <= changes + 1
        BY <1>3, <1>4
    <2>2. Counted'
        BY <1>0, <1>16, <2>1, CountedSame
    <2> QED
        BY <1>0, <1>16, <2>2 DEF TypeOK
<1>8. ASSUME NEW r \in Requests, Commit(r) PROVE TypeOK' /\ Counted'
    <2>1. Flush(session[r]) /\ session' = [session EXCEPT ![r] = NoSession]
          /\ pc' = [pc EXCEPT ![r] = "ending"]
          /\ UNCHANGED <<tasks, loaded, memory, todo, changes>>
        BY <1>8 DEF Commit
    <2>2. /\ serial' \in 1..(use.changes + 1) /\ serial <= serial' /\ serial' <= changes + 1
          /\ listed' \in [Features -> 0..(use.changes + 1)]
          /\ \A f \in Features : listed'[f] <= changes + 1
          /\ record' \in [Features -> FeatureStates]
        BY <2>1, FlushTypes
    <2>3. serial' \in Nat
        BY <2>2
    <2>4. Counted' /\ session' \in [Requests -> Sessions]
        BY <1>7, <2>1, <2>2, <2>3
    <2> QED
        BY <1>0, <2>1, <2>2, <2>4 DEF TypeOK, Sessions
<1>9. ASSUME NEW r \in Requests, EndTask(r) PROVE TypeOK' /\ Counted'
    <2>1. Flush(session[r]) /\ Closing(r, "ending") /\ changes' = changes
          /\ tasks' = [tasks EXCEPT ![r] = @ \o Refired(r)]
        BY <1>9 DEF EndTask
    <2>2. /\ serial' \in 1..(use.changes + 1) /\ serial <= serial' /\ serial' <= changes + 1
          /\ listed' \in [Features -> 0..(use.changes + 1)]
          /\ \A f \in Features : listed'[f] <= changes + 1
          /\ record' \in [Features -> FeatureStates]
        BY <2>1, FlushTypes
    <2>3. serial' \in Nat
        BY <2>2
    <2>4. Counted' /\ session' \in [Requests -> Sessions]
        BY <1>7, <2>1, <2>2, <2>3 DEF Closing
    <2>5. tasks' \in [Requests -> Seq(SUBSET Features)]
        <3>1. Refired(r) \in Seq(SUBSET Features)
            BY TaskTypes DEF Refired
        <3>2. tasks[r] \o Refired(r) \in Seq(SUBSET Features)
            BY <3>1 DEF TypeOK
        <3> QED
            BY <2>1, <3>2 DEF TypeOK
    <2>6. pc' \in [Requests -> {"idle", "open", "applying", "ending", "stopped"}]
        BY <2>1 DEF TypeOK, Closing
    <2>7. loaded' \in [Requests -> SUBSET Features] /\ todo' \in [Requests -> Seq(Features)]
        BY <2>1 DEF TypeOK, Closing
    <2>8. memory' \in [Requests -> [Features -> FeatureStates]]
        BY <1>0, <2>1 DEF TypeOK, Closing
    <2>9. use' \in Uses /\ use'.changes = use.changes /\ changes' \in 0..use'.changes
        BY <1>0, <2>1 DEF TypeOK
    <2>10. /\ serial' \in 1..(use'.changes + 1)
           /\ listed' \in [Features -> 0..(use'.changes + 1)]
        BY <2>2, <2>9
    <2>11. Sessions' = Sessions
        BY <1>0 DEF Sessions
    <2>12. TypeOK'
        BY <2>2, <2>4, <2>5, <2>6, <2>7, <2>8, <2>9, <2>10, <2>11 DEF TypeOK
    <2> QED
        BY <2>4, <2>12
<1>17. ASSUME NEW r \in Requests, TaskStops(r) PROVE TypeOK' /\ Counted'
    <2>1. Flush(session[r]) /\ Closing(r, "stopped") /\ UNCHANGED <<tasks, changes>>
        BY <1>17 DEF TaskStops
    <2>2. /\ serial' \in 1..(use.changes + 1) /\ serial <= serial' /\ serial' <= changes + 1
          /\ listed' \in [Features -> 0..(use.changes + 1)]
          /\ \A f \in Features : listed'[f] <= changes + 1
          /\ record' \in [Features -> FeatureStates]
        BY <2>1, FlushTypes
    <2>3. serial' \in Nat
        BY <2>2
    <2>4. Counted' /\ session' \in [Requests -> Sessions]
        BY <1>7, <2>1, <2>2, <2>3 DEF Closing
    <2>5. /\ pc' \in [Requests -> {"idle", "open", "applying", "ending", "stopped"}]
          /\ loaded' \in [Requests -> SUBSET Features] /\ todo' \in [Requests -> Seq(Features)]
        BY <2>1 DEF TypeOK, Closing
    <2>6. memory' \in [Requests -> [Features -> FeatureStates]]
        BY <1>0, <2>1 DEF TypeOK, Closing
    <2>7. /\ use' \in Uses /\ use'.changes = use.changes /\ changes' \in 0..use'.changes
          /\ tasks' \in [Requests -> Seq(SUBSET Features)]
        BY <1>0, <2>1 DEF TypeOK
    <2>8. /\ serial' \in 1..(use'.changes + 1)
          /\ listed' \in [Features -> 0..(use'.changes + 1)]
        BY <2>2, <2>7
    <2>9. Sessions' = Sessions
        BY <1>0 DEF Sessions
    <2>10. TypeOK'
        BY <2>2, <2>4, <2>5, <2>6, <2>7, <2>8, <2>9 DEF TypeOK
    <2> QED
        BY <2>4, <2>10
<1>10. ASSUME NEW r \in Requests, Rollback(r) PROVE TypeOK' /\ Counted'
    <2>1. session' = [session EXCEPT ![r] = NoSession] /\ pc' = [pc EXCEPT ![r] = "ending"]
          /\ UNCHANGED <<serial, listed, record, tasks, loaded, memory, todo, changes>>
        BY <1>10 DEF Rollback
    <2>2. Counted' /\ session' \in [Requests -> Sessions]
        BY <1>16, <2>1
    <2> QED
        BY <1>0, <2>1, <2>2 DEF TypeOK, Sessions
<1>11. ASSUME NEW r \in Requests, TaskFails(r) PROVE TypeOK' /\ Counted'
    <2>1. Closing(r, "idle") /\ UNCHANGED <<serial, listed, record, changes>>
          /\ tasks' = [tasks EXCEPT ![r] = <<>>]
        BY <1>11 DEF TaskFails
    <2>2. Counted' /\ session' \in [Requests -> Sessions]
        BY <1>16, <2>1 DEF Closing
    <2>3. tasks' \in [Requests -> Seq(SUBSET Features)]
        BY <2>1 DEF TypeOK
    <2> QED
        BY <1>0, <2>1, <2>2, <2>3 DEF TypeOK, Sessions, Closing
<1>12. ASSUME NEW r \in Requests, StartTask(r) PROVE TypeOK' /\ Counted'
    <2>1. /\ session' = [session EXCEPT ![r] = OpenSession]
          /\ tasks[r] # <<>> /\ tasks' = [tasks EXCEPT ![r] = Tail(@)]
          /\ loaded' = [loaded EXCEPT ![r] = Head(tasks[r])]
          /\ memory' = [memory EXCEPT ![r] = record]
          /\ todo' = [todo EXCEPT ![r] = Lowered(record) \o Raised(record)]
          /\ pc' = [pc EXCEPT ![r] = "applying"]
          /\ UNCHANGED <<serial, listed, record, changes>>
        BY <1>12 DEF StartTask
    <2>2. Head(tasks[r]) \in SUBSET Features /\ Tail(tasks[r]) \in Seq(SUBSET Features)
        BY <2>1 DEF TypeOK
    <2>3. todo' \in [Requests -> Seq(Features)]
        BY <2>1, TodoTypes DEF TypeOK
    <2>4. Counted'
        <3>1. OpenSession.serial <= serial /\ ~OpenSession.changed
              /\ \A f \in Features : OpenSession.listed[f] <= changes + 1
            BY <1>3, <1>4
        <3> QED
            BY <1>0, <2>1, <3>1, CountedSame
    <2>5. session' \in [Requests -> Sessions]
        BY <1>0, <2>1 DEF TypeOK
    <2>6. tasks' \in [Requests -> Seq(SUBSET Features)] /\ loaded' \in [Requests -> SUBSET Features]
        BY <2>1, <2>2 DEF TypeOK
    <2> QED
        BY <1>0, <2>1, <2>3, <2>4, <2>5, <2>6 DEF TypeOK, Sessions
<1>13. ASSUME NEW r \in Requests, ApplyNext(r) PROVE TypeOK' /\ Counted'
    <2>1. PICK new \in Sessions :
            /\ session' = [session EXCEPT ![r] = new]
            /\ new.serial = session[r].serial /\ new.listed = session[r].listed
            /\ new.changed = session[r].changed
        BY <1>13, ApplyTypes
    <2>2. /\ memory' \in [Requests -> [Features -> FeatureStates]]
          /\ todo' \in [Requests -> Seq(Features)]
        BY <1>13, ApplyTypes
    <2>3. UNCHANGED <<serial, listed, record, pc, tasks, loaded, changes>>
        BY <1>13 DEF ApplyNext
    <2>4. session[r].serial <= serial /\ \A f \in Features : session[r].listed[f] <= changes + 1
        BY DEF Counted
    <2>5. new.changed \in BOOLEAN
        BY DEF Sessions
    <2>6. Counted'
        BY <2>1, <2>3, <2>4, <2>5, CountedSame
    <2>7. session' \in [Requests -> Sessions]
        BY <2>1 DEF TypeOK
    <2> QED
        BY <1>0, <2>2, <2>3, <2>6, <2>7 DEF TypeOK, Sessions
<1>14. ASSUME NEW r \in Requests, EndRequest(r) PROVE TypeOK' /\ Counted'
    BY <1>0, <1>14 DEF EndRequest, TypeOK, Counted, Sessions
<1>15. ASSUME NEW r \in Requests, Migrate(r) PROVE TypeOK' /\ Counted'
    <2>1. /\ session' = [session EXCEPT ![r] = OpenSession']
          /\ UNCHANGED <<pc, tasks, loaded, memory, todo, changes>>
          /\ UNCHANGED <<serial, listed, record>> \/ Flush(session[r])
        BY <1>15 DEF Migrate
    <2>2. /\ serial' \in 1..(use.changes + 1) /\ serial <= serial' /\ serial' <= changes + 1
          /\ listed' \in [Features -> 0..(use.changes + 1)]
          /\ \A f \in Features : listed'[f] <= changes + 1
          /\ record' \in [Features -> FeatureStates]
        BY <1>3, <2>1, FlushTypes DEF TypeOK
    <2> DEFINE new == OpenSession'
    <2>3. new \in Sessions /\ new.serial = serial' /\ new.listed = listed' /\ new.changed = FALSE
        BY <1>0, <2>2 DEF OpenSession, Sessions
    <2>4. session' = [session EXCEPT ![r] = new] /\ serial' \in Nat /\ serial' <= serial'
        BY <2>1, <2>2
    <2> HIDE DEF new
    <2>5. Counted'
        BY <2>1, <2>2, <2>3, <2>4, CountedKept
    <2>6. session' \in [Requests -> Sessions]
        BY <2>3, <2>4 DEF TypeOK
    <2> QED
        BY <1>0, <2>1, <2>2, <2>5, <2>6 DEF TypeOK, Sessions
<1> QED
    BY <1>0, <1>5, <1>6, <1>8, <1>9, <1>10, <1>11, <1>12, <1>13, <1>14, <1>15, <1>17 DEF Next

\* Serial numbers and lists count no more calls than there were, and what a task does
\* is always a sequence of features, however requests interleave and fail.
THEOREM FeatureTypeOK ==
    ASSUME FeatureStateAssumption
    PROVE  Spec => []TypeOK
    BY TypeInit, TypeStep, PTL DEF Spec

------------------------------------------------------------------------------
\* The steps of a request.
Step(r) ==
    \/ Change(r) \/ Commit(r) \/ Rollback(r)
    \/ StartTask(r) \/ Migrate(r) \/ HandlerChanges(r) \/ ApplyNext(r)
    \/ EndTask(r) \/ TaskStops(r) \/ TaskFails(r)
    \/ EndRequest(r)

\* A request leaves alone what belongs to another.
LEMMA OthersKept ==
    ASSUME TypeOK, NEW r \in Requests, Step(r), NEW q \in Requests \ {r}
    PROVE  /\ pc'[q] = pc[q] /\ session'[q] = session[q] /\ tasks'[q] = tasks[q]
           /\ loaded'[q] = loaded[q] /\ memory'[q] = memory[q] /\ todo'[q] = todo[q]
<1>1. CASE Change(r)
    BY <1>1 DEF Change, CallManager, Update, TypeOK
<1>2. CASE Commit(r) \/ Rollback(r)
    BY <1>2 DEF Commit, Rollback, TypeOK
<1>3. CASE StartTask(r)
    BY <1>3 DEF StartTask, TypeOK
<1>4. CASE Migrate(r)
    BY <1>4 DEF Migrate, TypeOK
<1>5. CASE HandlerChanges(r)
    BY <1>5 DEF HandlerChanges, CallManager, Update, TypeOK
<1>6. CASE ApplyNext(r)
    BY <1>6 DEF ApplyNext, TypeOK
<1>7. CASE EndTask(r) \/ TaskStops(r) \/ TaskFails(r)
    BY <1>7 DEF EndTask, TaskStops, TaskFails, Closing, TypeOK
<1>8. CASE EndRequest(r)
    BY <1>8 DEF EndRequest, TypeOK
<1> QED
    BY <1>1, <1>2, <1>3, <1>4, <1>5, <1>6, <1>7, <1>8 DEF Step

\* Every step is one of a request that there is.
LEMMA StepOfOne ==
    ASSUME FeatureStateAssumption, TypeOK, Next
    PROVE  use' = use /\ \E r \in use.requests : r \in Requests /\ Step(r)
<1>1. use.requests \subseteq Requests
    BY DEF TypeOK, FeatureStateAssumption, AllUses
<1> QED
    BY <1>1 DEF Next, Step

\* What belongs to a request that is idle, ended or not there.
Orderly ==
    \A r \in Requests :
        /\ r \notin use.requests => pc[r] = "idle"
        /\ pc[r] = "idle" => tasks[r] = <<>>
        /\ pc[r] \notin {"open", "applying"} => session[r] = NoSession
        /\ pc[r] # "applying" => todo[r] = <<>>

\* ... which is so in every state.
LEMMA OrderlyInit == Init => Orderly
    BY DEF Init, Orderly

LEMMA OrderlyStep ==
    ASSUME FeatureStateAssumption, TypeOK, Orderly, [Next]_vars
    PROVE  Orderly'
<1>1. CASE UNCHANGED vars
    BY <1>1 DEF vars, Orderly
<1> SUFFICES ASSUME Next PROVE Orderly'
    BY <1>1
<1>2. PICK r \in use.requests : r \in Requests /\ Step(r)
    BY StepOfOne
<1>3. use' = use
    BY StepOfOne
<1>4. /\ pc'[r] = "idle" => tasks'[r] = <<>>
      /\ pc'[r] \notin {"open", "applying"} => session'[r] = NoSession
      /\ pc'[r] # "applying" => todo'[r] = <<>>
    <2>0. r \in Requests /\ (pc[r] # "applying" => todo[r] = <<>>)
          /\ (pc[r] \notin {"open", "applying"} => session[r] = NoSession)
        BY <1>2 DEF Orderly
    <2>1. CASE Change(r)
        <3>1. pc'[r] = "open" /\ todo' = todo /\ pc[r] # "applying"
            BY <2>0, <2>1 DEF Change, TypeOK
        <3> QED
            BY <2>0, <3>1
    <2>2. CASE Commit(r) \/ Rollback(r)
        BY <2>0, <2>2 DEF Commit, Rollback, TypeOK
    <2>3. CASE StartTask(r)
        BY <2>0, <2>3 DEF StartTask, TypeOK
    <2>4. CASE Migrate(r) \/ HandlerChanges(r) \/ ApplyNext(r)
        <3>1. pc'[r] = "applying"
            BY <2>4 DEF Migrate, HandlerChanges, ApplyNext
        <3> QED
            BY <3>1
    <2>5. CASE EndTask(r) \/ TaskStops(r)
        BY <2>0, <2>5 DEF EndTask, TaskStops, Closing, TypeOK
    <2>6. CASE TaskFails(r)
        BY <2>0, <2>6 DEF TaskFails, Closing, TypeOK
    <2>7. CASE EndRequest(r)
        BY <2>0, <2>7 DEF EndRequest, TypeOK
    <2> QED
        BY <1>2, <2>1, <2>2, <2>3, <2>4, <2>5, <2>6, <2>7 DEF Step
<1>5. \A q \in Requests \ {r} : /\ pc'[q] = pc[q] /\ session'[q] = session[q]
                                /\ tasks'[q] = tasks[q] /\ todo'[q] = todo[q]
    BY <1>2, OthersKept
<1>6. NoSession' = NoSession
    BY DEF NoSession, Unknown
<1> QED
    BY <1>2, <1>3, <1>4, <1>5, <1>6 DEF Orderly

\* A request that has the tenant for itself has read the descriptor as it is, and a
\* task whose handlers leave the features alone does not change it.
Smooth ==
    /\ OneAtATime => \A r \in Requests :
            pc[r] \in {"open", "applying"} => session[r].serial = serial
    /\ ~use.handlers => \A r \in Requests : pc[r] = "applying" => ~session[r].changed

\* ... which is so in every state.
LEMMA SmoothInit == Init => Smooth
    BY DEF Init, Smooth

LEMMA SmoothStep ==
    ASSUME FeatureStateAssumption, TypeOK, Orderly, Smooth, [Next]_vars
    PROVE  Smooth'
<1>1. CASE UNCHANGED vars
    BY <1>1 DEF vars, Smooth, OneAtATime
<1> SUFFICES ASSUME Next PROVE Smooth'
    BY <1>1
<1>2. PICK r \in use.requests : r \in Requests /\ Step(r)
    BY StepOfOne
<1>3. use' = use
    BY StepOfOne
<1>4. \A q \in Requests \ {r} : pc'[q] = pc[q] /\ session'[q] = session[q]
    BY <1>2, OthersKept
<1>5. /\ OneAtATime /\ pc'[r] \in {"open", "applying"} => session'[r].serial = serial'
      /\ ~use.handlers /\ pc'[r] = "applying" => ~session'[r].changed
    <2>0. /\ r \in Requests
          /\ OneAtATime /\ pc[r] \in {"open", "applying"} => session[r].serial = serial
          /\ ~use.handlers /\ pc[r] = "applying" => ~session[r].changed
        BY <1>2 DEF Smooth
    <2>1. CASE Change(r)
        <3> DEFINE s == IF pc[r] = "idle" THEN OpenSession ELSE session[r]
        <3>1. pc'[r] = "open" /\ pc[r] \in {"idle", "open"} /\ serial' = serial
            BY <2>0, <2>1 DEF Change, TypeOK
        <3>2. PICK l : session'[r] = Updated(s, l)
            BY ZenonT(40), <2>0, <2>1 DEF Change, CallManager, Update, TypeOK
        <3>3. session'[r].serial = s.serial
            BY <3>2 DEF Updated
        <3> QED
            BY <2>0, <3>1, <3>3 DEF OpenSession
    <2>2. CASE \/ Commit(r) \/ Rollback(r) \/ EndTask(r) \/ TaskStops(r) \/ TaskFails(r)
               \/ EndRequest(r)
        <3>1. pc'[r] \in {"ending", "stopped", "idle"}
            BY <2>0, <2>2
               DEF Commit, Rollback, EndTask, TaskStops, TaskFails, EndRequest, Closing, TypeOK
        <3> QED
            BY <3>1
    <2>3. CASE StartTask(r)
        <3>1. session'[r] = OpenSession /\ serial' = serial
            BY <2>0, <2>3 DEF StartTask, TypeOK
        <3> QED
            BY <3>1 DEF OpenSession
    <2>4. CASE Migrate(r)
        <3>1. session'[r] = OpenSession'
            BY <2>0, <2>4 DEF Migrate, TypeOK
        <3> QED
            BY <3>1 DEF OpenSession
    <2>5. CASE HandlerChanges(r)
        <3>1. use.handlers /\ pc[r] = "applying" /\ serial' = serial
            BY <2>5 DEF HandlerChanges
        <3>2. PICK l : session'[r] = Updated(session[r], l)
            BY <2>0, <2>5 DEF HandlerChanges, CallManager, Update, TypeOK
        <3>3. session'[r].serial = session[r].serial
            BY <3>2 DEF Updated
        <3> QED
            BY <2>0, <3>1, <3>3
    <2>6. CASE ApplyNext(r)
        <3>1. pc[r] = "applying" /\ serial' = serial
            BY <2>6 DEF ApplyNext
        <3>2. session'[r].serial = session[r].serial /\ session'[r].changed = session[r].changed
            BY <2>0, <2>6 DEF ApplyNext, TypeOK
        <3> QED
            BY <2>0, <3>1, <3>2
    <2> QED
        BY <1>2, <2>1, <2>2, <2>3, <2>4, <2>5, <2>6 DEF Step
<1>6. ASSUME NEW q \in Requests, OneAtATime, pc'[q] \in {"open", "applying"}
      PROVE  session'[q].serial = serial'
    <2>1. CASE q = r
        BY <1>5, <1>6, <2>1
    <2>2. CASE q # r
        <3>1. q \in use.requests
            BY <1>4, <1>6, <2>2 DEF Orderly
        <3> QED
            BY <1>2, <1>6, <2>2, <3>1 DEF OneAtATime
    <2> QED
        BY <2>1, <2>2
<1>7. ASSUME NEW q \in Requests, ~use.handlers, pc'[q] = "applying"
      PROVE  ~session'[q].changed
    <2>1. CASE q = r
        BY <1>5, <1>7, <2>1
    <2>2. CASE q # r
        BY <1>4, <1>7, <2>2 DEF Smooth
    <2> QED
        BY <2>1, <2>2
<1> QED
    BY <1>3, <1>6, <1>7 DEF Smooth, OneAtATime

------------------------------------------------------------------------------
\* A call does not settle a feature that is changing.
LEMMA StillChanging ==
    ASSUME NEW s \in FeatureStates, Changing(s), NEW b \in BOOLEAN
    PROVE  Changing(Deduced(s, b))
    BY DEF Changing, Deduced, FeatureStates, States

\* A feature that changes is in the task, and so is one that is up.
LEMMA TaskHas ==
    ASSUME NEW st
    PROVE  /\ \A f \in Features : Changing(st[f]) =>
                ApplyChangesTask(st) # <<>> /\ f \in Head(ApplyChangesTask(st))
           /\ \A f \in Features : ApplyChangesTask(st) # <<>> /\ st[f].enable = "Up"
                => f \in Head(ApplyChangesTask(st))
<1> DEFINE T == {f \in Features : Changing(st[f]) \/ st[f].enable = "Up"}
<1>1. ApplyChangesTask(st)
        = IF \E f \in Features : Changing(st[f]) THEN <<T>> ELSE <<>>
    BY DEF ApplyChangesTask
<1>2. /\ \A f \in Features : Changing(st[f]) => f \in T
      /\ \A f \in Features : st[f].enable = "Up" => f \in T
    OBVIOUS
<1> HIDE DEF T
<1>3. <<T>> # <<>> /\ Head(<<T>>) = T
    OBVIOUS
<1> QED
    BY <1>1, <1>2, <1>3

\* There is at most one.
LEMMA TaskIsOne ==
    ASSUME NEW st
    PROVE  ApplyChangesTask(st) = <<>> \/ Tail(ApplyChangesTask(st)) = <<>>
<1> DEFINE T == {f \in Features : Changing(st[f]) \/ st[f].enable = "Up"}
<1>1. ApplyChangesTask(st) = <<T>> \/ ApplyChangesTask(st) = <<>>
    BY DEF ApplyChangesTask
<1> HIDE DEF T
<1>2. Tail(<<T>>) = <<>>
    OBVIOUS
<1> QED
    BY <1>1, <1>2

\* What a call leaves in a session, and among the tasks of its request.
LEMMA CallEffects ==
    ASSUME FeatureStateAssumption, TypeOK, Counted, Inv, NEW r \in Requests,
           NEW s \in Sessions, CallManager(r, s), Sound(s.listed),
           \A f \in Features : s.listed[f] <= changes + 1
    PROVE  \E l \in [Features -> Nat], new \in Sessions :
              /\ Sound(l) /\ session'[r] = new /\ new.listed = l /\ new.changed
              /\ new.record = [f \in Features |-> Deduced(s.record[f], l[f] > 0)]
              /\ s.dirty \subseteq new.dirty
              /\ \A f \in Features \ new.dirty : new.record[f] = s.record[f]
              /\ tasks'[r] = tasks[r] \o ApplyChangesTask(new.record)
<1>1. PICK l \in [Features -> 0..(use.changes + 1)] : Update(r, s, l)
    BY CallTypes
<1>2. PICK m : Sound(m) /\ Update(r, s, m)
    BY EnableKeepsClosed, DisableKeepsClosed DEF CallManager
<1>3. session'[r] = Updated(s, l) /\ session'[r] = Updated(s, m)
    BY <1>1, <1>2 DEF Update, TypeOK
<1>4. Updated(s, l).listed = l /\ Updated(s, m).listed = m
    BY DEF Updated
<1>5. Sound(l)
    BY <1>2, <1>3, <1>4
<1> DEFINE new == Updated(s, l)
<1>6. /\ new \in Sessions /\ new.listed = l /\ new.changed
      /\ new.record = [f \in Features |-> Deduced(s.record[f], l[f] > 0)]
      /\ new.dirty = s.dirty \cup {f \in Features : new.record[f] # s.record[f]}
    BY UpdatedTypes
<1>7. tasks'[r] = tasks[r] \o ApplyChangesTask(new.record)
    BY <1>1 DEF Update, TypeOK
<1>8. l \in [Features -> Nat]
    BY <1>5 DEF Sound, Counts
<1> HIDE DEF new
<1>9. s.dirty \subseteq new.dirty /\ \A f \in Features \ new.dirty : new.record[f] = s.record[f]
    BY <1>6
<1>10. session'[r] = new
    BY <1>3 DEF new
<1> QED
    BY <1>5, <1>6, <1>7, <1>8, <1>9, <1>10

\* What comes after pending tasks does not take them away.
LEMMA TasksKept ==
    ASSUME NEW q \in Seq(SUBSET Features), NEW st
    PROVE  LET both == q \o ApplyChangesTask(st) IN
           /\ q # <<>> => both # <<>> /\ Head(both) = Head(q)
           /\ q = <<>> => both = ApplyChangesTask(st)
           /\ ApplyChangesTask(st) # <<>> => both # <<>>
<1> DEFINE t == ApplyChangesTask(st)
<1>1. t \in Seq(SUBSET Features)
    BY TaskTypes
<1> HIDE DEF t
<1>2. /\ q # <<>> => q \o t # <<>> /\ Head(q \o t) = Head(q)
      /\ q = <<>> => q \o t = t
      /\ t # <<>> => q \o t # <<>>
    BY <1>1
<1> QED
    BY <1>2 DEF t

\* The request r has feature f in its care.
Covers(r, f) ==
    /\ pc[r] # "idle"
    /\ tasks[r] # <<>> \/ (pc[r] = "applying"
                           /\ (f \in session[r].dirty \/ Changing(session[r].record[f])))

\* Every feature that is changing is in the care of a request, and a request that makes
\* one change has a task for it.
Covered ==
    /\ \A f \in Features : Changing(record[f]) => \E r \in Requests : Covers(r, f)
    /\ \A r \in Requests, f \in Features :
          pc[r] = "open" /\ Changing(session[r].record[f]) => tasks[r] # <<>>

\* ... when the tenant has been set up ...
LEMMA CoveredInit == Init => Covered
    BY DEF Init, Covered, Changing

\* ... and after every call ...
LEMMA CallCovers ==
    ASSUME FeatureStateAssumption, TypeOK, Counted, Inv, Covered,
           NEW r \in Requests, Change(r) \/ HandlerChanges(r), use' = use
    PROVE  /\ \A f \in Features : Changing(record'[f]) => \E q \in Requests : Covers(q, f)'
           /\ \A f \in Features :
                pc'[r] = "open" /\ Changing(session'[r].record[f]) => tasks'[r] # <<>>
<1> DEFINE s == IF pc[r] = "idle" THEN OpenSession ELSE session[r]
<1>1. s \in Sessions /\ Sound(s.listed) /\ \A f \in Features : s.listed[f] <= changes + 1
    BY SessionTypes, SessionsAreSound DEF TypeOK, Inv, Counted, OpenSession
<1>2. CallManager(r, s) /\ record' = record
      /\ (pc[r] # "idle" => s = session[r])
      /\ (HandlerChanges(r) => pc[r] = "applying" /\ pc' = pc)
      /\ (Change(r) => pc'[r] = "open" /\ pc[r] # "applying")
    BY DEF Change, HandlerChanges, TypeOK
<1> HIDE DEF s
<1>3. PICK l \in [Features -> Nat], new \in Sessions :
              /\ Sound(l) /\ session'[r] = new /\ new.listed = l /\ new.changed
              /\ new.record = [f \in Features |-> Deduced(s.record[f], l[f] > 0)]
              /\ s.dirty \subseteq new.dirty
              /\ \A f \in Features \ new.dirty : new.record[f] = s.record[f]
              /\ tasks'[r] = tasks[r] \o ApplyChangesTask(new.record)
    BY <1>1, <1>2, CallEffects
<1>4. \A f \in Features : s.record[f] \in FeatureStates
    BY <1>1 DEF Sessions
<1>5. ASSUME NEW f \in Features, Changing(s.record[f]) PROVE Changing(new.record[f])
    <2>1. new.record[f] = Deduced(s.record[f], l[f] > 0) /\ (l[f] > 0) \in BOOLEAN
        BY <1>3
    <2>2. Changing(Deduced(s.record[f], l[f] > 0))
        BY <1>4, <1>5, <2>1, StillChanging
    <2> QED
        BY <2>1, <2>2
<1>6. /\ tasks[r] # <<>> => tasks'[r] # <<>>
      /\ ApplyChangesTask(new.record) # <<>> => tasks'[r] # <<>>
    BY <1>3, TasksKept DEF TypeOK
<1>7. \A f \in Features : Changing(new.record[f]) => tasks'[r] # <<>>
    BY <1>6, TaskHas
<1>8. \A q \in Requests \ {r} : pc'[q] = pc[q] /\ session'[q] = session[q]
                                /\ tasks'[q] = tasks[q]
    BY OthersKept DEF Step
<1>9. ASSUME NEW f \in Features, Changing(record'[f])
      PROVE  \E q \in Requests : Covers(q, f)'
    <2>1. PICK q \in Requests : Covers(q, f)
        BY <1>2, <1>9 DEF Covered
    <2>2. CASE q # r
        BY <1>8, <2>1, <2>2 DEF Covers
    <2>3. CASE q = r
        <3>1. pc[r] # "idle" /\ pc'[r] # "idle" /\ s = session[r]
            BY <1>2, <2>1, <2>3 DEF Covers
        <3>2. CASE tasks[r] # <<>>
            BY <1>6, <3>1, <3>2 DEF Covers
        <3>3. CASE pc[r] = "applying" /\ f \in s.dirty
            BY <1>2, <1>3, <3>1, <3>3 DEF Covers
        <3>4. CASE Changing(s.record[f])
            BY <1>5, <1>7, <3>1, <3>4 DEF Covers
        <3> QED
            BY <2>1, <2>3, <3>1, <3>2, <3>3, <3>4 DEF Covers
    <2> QED
        BY <2>2, <2>3
<1> QED
    BY <1>3, <1>7, <1>9

\* ... and after every step: what a request has not settled it still has a task for.
LEMMA CoveredStep ==
    ASSUME FeatureStateAssumption, TypeOK, Counted, Inv, Orderly, Smooth, Covered,
           NoTaskFails, [Next]_vars
    PROVE  Covered'
<1>1. CASE UNCHANGED vars
    BY <1>1 DEF vars, Covered, Covers
<1> SUFFICES ASSUME Next PROVE Covered'
    BY <1>1
<1>2. PICK r \in use.requests : r \in Requests /\ Step(r)
    BY StepOfOne
<1>3. use' = use
    BY StepOfOne
<1>4. \A q \in Requests \ {r} : pc'[q] = pc[q] /\ session'[q] = session[q]
                                /\ tasks'[q] = tasks[q]
    BY <1>2, OthersKept
<1>5. pc[r] = "applying" => ~Conflict(session[r])
    BY <1>2 DEF NoTaskFails, Smooth, Conflict
<1>6. \A q \in Requests \ {r}, f \in Features : Covers(q, f) => Covers(q, f)'
    BY <1>4 DEF Covers
<1>7. /\ \A f \in Features : Changing(record'[f]) => \E q \in Requests : Covers(q, f)'
      /\ \A f \in Features :
            pc'[r] = "open" /\ Changing(session'[r].record[f]) => tasks'[r] # <<>>
    <2>1. CASE Change(r) \/ HandlerChanges(r)
        BY <1>2, <1>3, <2>1, CallCovers
    <2>2. CASE Commit(r)
        <3>1. /\ pc[r] = "open" /\ pc'[r] = "ending" /\ tasks' = tasks
              /\ record' = [f \in Features |-> IF f \in session[r].dirty
                                               THEN session[r].record[f] ELSE record[f]]
            BY <1>2, <2>2 DEF Commit, Flush, TypeOK
        <3>2. ASSUME NEW f \in Features, Changing(record'[f])
              PROVE  \E q \in Requests : Covers(q, f)'
            <4>1. CASE tasks[r] # <<>>
                BY <1>2, <3>1, <4>1 DEF Covers
            <4>2. CASE tasks[r] = <<>>
                <5>1. ~Changing(session[r].record[f])
                    BY <1>2, <3>1, <4>2 DEF Covered
                <5>2. Changing(record[f])
                    BY <3>1, <3>2, <5>1
                <5>3. PICK q \in Requests : Covers(q, f)
                    BY <5>2 DEF Covered
                <5>4. q # r
                    BY <3>1, <4>2, <5>3 DEF Covers
                <5> QED
                    BY <1>6, <5>3, <5>4
            <4> QED
                BY <4>1, <4>2
        <3> QED
            BY <3>1, <3>2
    <2>3. CASE Rollback(r)
        <3>1. pc[r] = "open" /\ pc'[r] = "ending" /\ tasks' = tasks /\ record' = record
            BY <1>2, <2>3 DEF Rollback, TypeOK
        <3>2. \A f \in Features : Covers(r, f) => Covers(r, f)'
            BY <3>1 DEF Covers
        <3> QED
            BY <1>2, <1>6, <3>1, <3>2 DEF Covered
    <2>4. CASE StartTask(r)
        <3>1. pc'[r] = "applying" /\ session'[r] = OpenSession /\ record' = record
            BY <1>2, <2>4 DEF StartTask, TypeOK
        <3>2. session'[r].record = record'
            BY <3>1 DEF OpenSession
        <3> QED
            BY <1>2, <3>1, <3>2 DEF Covers
    <2>5. CASE Migrate(r)
        <3>1. pc'[r] = "applying" /\ session'[r] = OpenSession'
            BY <1>2, <2>5 DEF Migrate, TypeOK
        <3>2. session'[r].record = record'
            BY <3>1 DEF OpenSession
        <3> QED
            BY <1>2, <3>1, <3>2 DEF Covers
    <2>6. CASE ApplyNext(r)
        <3> DEFINE g == Head(todo[r])
        <3>1. /\ pc[r] = "applying" /\ pc'[r] = "applying" /\ tasks' = tasks
              /\ record' = record
              /\ session'[r].dirty = session[r].dirty \cup {g}
              /\ \A f \in Features \ {g} : session'[r].record[f] = session[r].record[f]
            <4>1. session[r] \in Sessions /\ r \in Requests
                BY <1>2 DEF TypeOK
            <4>2. session[r].record \in [Features -> FeatureStates]
                BY <4>1 DEF Sessions
            <4> QED
                BY <2>6, <4>1, <4>2 DEF ApplyNext, TypeOK
        <3> HIDE DEF g
        <3>2. \A f \in Features : Covers(r, f) => Covers(r, f)'
            BY <3>1 DEF Covers
        <3> QED
            BY <1>2, <1>6, <3>1, <3>2 DEF Covered
    <2>7. CASE EndTask(r)
        <3>1. /\ pc[r] = "applying" /\ pc'[r] = "ending"
              /\ record' = [f \in Features |-> IF f \in session[r].dirty
                                               THEN session[r].record[f] ELSE record[f]]
              /\ tasks'[r] = tasks[r] \o ApplyChangesTask(session[r].record)
            BY <1>2, <2>7 DEF EndTask, Flush, Closing, Refired, TypeOK
        <3>2. /\ tasks[r] # <<>> => tasks'[r] # <<>>
              /\ ApplyChangesTask(session[r].record) # <<>> => tasks'[r] # <<>>
            BY <1>2, <3>1, TasksKept DEF TypeOK
        <3>3. ASSUME NEW f \in Features, Changing(record'[f])
              PROVE  \E q \in Requests : Covers(q, f)'
            <4>1. CASE tasks'[r] # <<>>
                BY <1>2, <3>1, <4>1 DEF Covers
            <4>2. CASE tasks'[r] = <<>>
                <5>1. ~Changing(session[r].record[f]) /\ tasks[r] = <<>>
                    BY <3>2, <4>2, TaskHas
                <5>2. Changing(record[f]) /\ f \notin session[r].dirty
                    BY <3>1, <3>3, <5>1
                <5>3. PICK q \in Requests : Covers(q, f)
                    BY <5>2 DEF Covered
                <5>4. q # r
                    BY <5>1, <5>2, <5>3 DEF Covers
                <5> QED
                    BY <1>6, <5>3, <5>4
            <4> QED
                BY <4>1, <4>2
        <3> QED
            BY <3>1, <3>3
    <2>8. CASE TaskStops(r) \/ TaskFails(r)
        BY <1>5, <2>8 DEF TaskStops, TaskFails, NoTaskFails
    <2>9. CASE EndRequest(r)
        <3>1. /\ pc[r] \in {"ending", "stopped"} /\ pc'[r] = "idle"
              /\ tasks[r] = <<>> /\ record' = record
            BY <1>2, <2>9 DEF EndRequest, TypeOK
        <3>2. \A f \in Features : ~Covers(r, f)
            BY <3>1 DEF Covers
        <3> QED
            BY <1>2, <1>6, <3>1, <3>2 DEF Covered
    <2> QED
        BY <1>2, <2>1, <2>2, <2>3, <2>4, <2>5, <2>6, <2>7, <2>8, <2>9 DEF Step
<1>8. ASSUME NEW q \in Requests, NEW f \in Features,
             pc'[q] = "open", Changing(session'[q].record[f])
      PROVE  tasks'[q] # <<>>
    BY <1>4, <1>7, <1>8 DEF Covered
<1> QED
    BY <1>7, <1>8 DEF Covered

------------------------------------------------------------------------------
\* A feature that is up has its dependencies up, and they are not lowered before it.
Supported(st) ==
    \A f \in Features : \A d \in Deps[f] :
        /\ st[f].enable = "Up" => st[d].enable = "Up"
        /\ st[f].enable = "Falling" => st[d].enable # "Down"

\* q is what there is to do for states st: first what falls, then what rises.
Work(q, st) ==
    \E k \in 0..Len(q) :
        /\ Downward(q, 1, k) /\ Upward(q, k + 1, Len(q))
        /\ \A f \in Features : st[f].enable = "Falling" <=> \E i \in 1..k : q[i] = f
        /\ \A f \in Features : IsRising(st[f]) <=> \E i \in (k + 1)..Len(q) : q[i] = f

\* Changed makes new of the states st for a descriptor that lists m.
ChangedTo(st, m, new) == \A f \in Features : new[f] = Deduced(st[f], m[f] > 0)

\* A call leaves states that follow the new list, and are supported if it is closed.
LEMMA CallSupports ==
    ASSUME FeatureStateAssumption, NEW st \in [Features -> FeatureStates],
           NEW l, NEW m, Sound(l), Sound(m), Follows(st, l), Supported(st),
           NEW new, ChangedTo(st, m, new)
    PROVE  Follows(new, m) /\ Supported(new)
<1>1. ASSUME NEW f \in Features
      PROVE  /\ l[f] \in Nat /\ m[f] \in Nat
             /\ st[f].install \in States /\ st[f].enable \in States
             /\ m[f] > 0 =>
                  /\ new[f].install = IF st[f].install = "Up" THEN "Up" ELSE "Rising"
                  /\ new[f].enable = IF st[f].enable = "Up" THEN "Up" ELSE "Rising"
             /\ m[f] = 0 =>
                  /\ new[f].install = st[f].install
                  /\ new[f].enable = IF st[f].enable \in {"Down", "Undefined"}
                                     THEN st[f].enable ELSE "Falling"
    <2>1. l[f] \in Nat /\ m[f] \in Nat /\ st[f] \in FeatureStates
        BY DEF Sound, Counts
    <2>2. new[f] = Deduced(st[f], m[f] > 0)
        BY DEF ChangedTo
    <2> QED
        BY <2>1, <2>2 DEF Deduced, FeatureStates
<1>2. Follows(new, m)
    <2> SUFFICES ASSUME NEW f \in Features
                 PROVE  /\ new[f].install # "Falling"
                        /\ m[f] > 0 => /\ new[f].enable \in {"Rising", "Up"}
                                       /\ new[f].install \in {"Rising", "Up"}
                        /\ m[f] = 0 => new[f].enable \in {"Falling", "Down", "Undefined"}
        BY DEF Follows
    <2> QED
        BY <1>1 DEF Follows
<1>3. ASSUME NEW f \in Features, NEW d \in Deps[f]
      PROVE  /\ new[f].enable = "Up" => new[d].enable = "Up"
             /\ new[f].enable = "Falling" => new[d].enable # "Down"
    <2>1. d \in Features
        BY DEF FeatureStateAssumption
    <2>2. /\ l[f] > 0 => l[d] > 0
          /\ m[f] > 0 => m[d] > 0
        BY <2>1 DEF Sound, Closed, Enabled
    <2>3. /\ st[f].enable = "Up" => st[d].enable = "Up"
          /\ st[f].enable = "Falling" => st[d].enable # "Down"
        BY DEF Supported
    <2>4. /\ l[d] > 0 => st[d].enable \in {"Rising", "Up"}
          /\ l[f] = 0 => st[f].enable \in {"Falling", "Down", "Undefined"}
        BY <2>1 DEF Follows
    <2>5. /\ l[f] \in Nat /\ l[d] \in Nat /\ m[f] \in Nat /\ m[d] \in Nat
          /\ st[f].enable \in States /\ st[d].enable \in States
          /\ m[f] > 0 => new[f].enable = IF st[f].enable = "Up" THEN "Up" ELSE "Rising"
          /\ m[d] > 0 => new[d].enable = IF st[d].enable = "Up" THEN "Up" ELSE "Rising"
          /\ m[f] = 0 => new[f].enable = IF st[f].enable \in {"Down", "Undefined"}
                                         THEN st[f].enable ELSE "Falling"
          /\ m[d] = 0 => new[d].enable = IF st[d].enable \in {"Down", "Undefined"}
                                         THEN st[d].enable ELSE "Falling"
        BY <1>1, <2>1
    <2>6. new[f].enable = "Up" => new[d].enable = "Up"
        BY <2>2, <2>3, <2>5
    <2>7. new[f].enable = "Falling" => new[d].enable # "Down"
        <3>1. CASE m[d] > 0
            BY <2>5, <3>1
        <3>2. CASE m[d] = 0 /\ m[f] = 0
            BY <2>2, <2>3, <2>4, <2>5, <3>2 DEF States
        <3> QED
            BY <2>2, <2>5, <3>1, <3>2
    <2> QED
        BY <2>6, <2>7
<1> QED
    BY <1>2, <1>3 DEF Supported

\* No feature depends on itself.
LEMMA NotOnItself ==
    ASSUME FeatureStateAssumption, NEW f \in Features
    PROVE  f \notin Deps[f]
<1>1. PICK i \in DOMAIN Order : Order[i] = f
    BY DEF FeatureStateAssumption
<1>2. i \in Nat
    BY OrderFacts
<1>3. f \in Deps[f] => i < i
    BY <1>1 DEF FeatureStateAssumption
<1> QED
    BY <1>2, <1>3

\* What ApplyChanges begins with is what there is to do.
LEMMA WorkBegins ==
    ASSUME FeatureStateAssumption, NEW st
    PROVE  Work(Lowered(st) \o Raised(st), st)
<1> DEFINE down == Lowered(st)
           up == Raised(st)
           q == down \o up
           k == Len(down)
<1>1. /\ down \in Seq(Features) /\ Downward(down, 1, k)
      /\ \A f \in Features : st[f].enable = "Falling" <=> \E i \in 1..k : down[i] = f
    BY LoweredInOrder
<1>2. /\ up \in Seq(Features) /\ Upward(up, 1, Len(up))
      /\ \A f \in Features : IsRising(st[f]) <=> \E i \in 1..Len(up) : up[i] = f
    BY RaisedInOrder
<1> HIDE DEF down, up
<1>3. /\ Len(q) = k + Len(up) /\ k \in Nat /\ Len(up) \in Nat
      /\ \A i \in 1..k : q[i] = down[i]
      /\ \A i \in (k + 1)..Len(q) : q[i] = up[i - k]
      /\ \A i \in 1..Len(up) : q[i + k] = up[i]
    BY <1>1, <1>2
<1> HIDE DEF q, k
<1>4. Downward(q, 1, k)
    BY <1>1, <1>3 DEF Downward
<1>5. Upward(q, k + 1, Len(q))
    <2> SUFFICES ASSUME NEW i \in (k + 1)..Len(q), NEW j \in (k + 1)..Len(q), i < j
                 PROVE  q[i] # q[j] /\ q[j] \notin Deps[q[i]]
        BY DEF Upward
    <2>1. i - k \in 1..Len(up) /\ j - k \in 1..Len(up) /\ i - k < j - k
        BY <1>3
    <2>2. up[i - k] # up[j - k] /\ up[j - k] \notin Deps[up[i - k]]
        BY <1>2, <2>1 DEF Upward
    <2> QED
        BY <1>3, <2>2
<1>6. \A f \in Features : st[f].enable = "Falling" <=> \E i \in 1..k : q[i] = f
    BY <1>1, <1>3
<1>7. \A f \in Features : IsRising(st[f]) <=> \E i \in (k + 1)..Len(q) : q[i] = f
    <2> TAKE f \in Features
    <2>1. ASSUME NEW i \in 1..Len(up), up[i] = f PROVE \E j \in (k + 1)..Len(q) : q[j] = f
        <3>1. i + k \in (k + 1)..Len(q) /\ q[i + k] = f
            BY <1>3, <2>1
        <3> QED
            BY <3>1
    <2>2. ASSUME NEW j \in (k + 1)..Len(q), q[j] = f PROVE \E i \in 1..Len(up) : up[i] = f
        <3>1. j - k \in 1..Len(up) /\ up[j - k] = f
            BY <1>3, <2>2
        <3> QED
            BY <3>1
    <2> QED
        BY <1>2, <2>1, <2>2
<1>8. k \in 0..Len(q)
    BY <1>3
<1> QED
    BY <1>4, <1>5, <1>6, <1>7, <1>8 DEF Work, q, down, up

\* Nothing is left to do when nothing changes.
LEMMA WorkEnds ==
    ASSUME NEW st, Work(<<>>, st), NEW f \in Features
    PROVE  st[f].enable # "Falling" /\ ~IsRising(st[f])
<1>1. Len(<<>>) = 0
    OBVIOUS
<1>2. PICK k \in 0..0 :
        /\ st[f].enable = "Falling" <=> \E i \in 1..k : <<>>[i] = f
        /\ IsRising(st[f]) <=> \E i \in (k + 1)..0 : <<>>[i] = f
    BY <1>1 DEF Work
<1>3. k = 0
    BY <1>2
<1> QED
    BY <1>2, <1>3

\* Feature f may be lowered next, or raised, and only f has been settled since.
LowerNext(f, st) ==
    st[f].enable = "Falling" /\ \A g \in Features : st[g].enable = "Falling" => f \notin Deps[g]
RaiseNext(f, st) ==
    /\ IsRising(st[f]) /\ \A d \in Deps[f] : ~IsRising(st[d])
    /\ \A g \in Features : st[g].enable # "Falling"
SettledOne(f, st, new) ==
    new[f] = Settled(st[f]) /\ \A g \in Features \ {f} : new[g] = st[g]

\* The first part of what there is to do: a feature that falls, with none that depends
\* on it behind it.
LEMMA LoweredNext ==
    ASSUME FeatureStateAssumption, NEW st \in [Features -> FeatureStates],
           NEW l, Sound(l), Follows(st, l), Supported(st),
           NEW f \in Features, LowerNext(f, st), NEW new, SettledOne(f, st, new)
    PROVE  /\ Follows(new, l) /\ Supported(new)
           /\ \A g \in Features : IsRising(new[g]) <=> IsRising(st[g])
           /\ \A g \in Features : new[g].enable = "Falling"
                                    <=> st[g].enable = "Falling" /\ g # f
<1>1. new[f].install = st[f].install /\ new[f].enable = "Down"
    BY DEF Settled, SettledOne, LowerNext
<1>2. \A g \in Features \ {f} : new[g] = st[g]
    BY DEF SettledOne
<1>3. l[f] = 0
    BY DEF Follows, Sound, Counts, LowerNext
<1>4. Follows(new, l)
    BY <1>1, <1>2, <1>3 DEF Follows, LowerNext
<1>5. ASSUME NEW g \in Features, NEW d \in Deps[g]
      PROVE  /\ new[g].enable = "Up" => new[d].enable = "Up"
             /\ new[g].enable = "Falling" => new[d].enable # "Down"
    <2>1. d \in Features
        BY DEF FeatureStateAssumption
    <2>2. /\ st[g].enable = "Up" => st[d].enable = "Up"
          /\ st[g].enable = "Falling" => st[d].enable # "Down"
        BY DEF Supported
    <2> QED
        BY <1>1, <1>2, <2>1, <2>2 DEF LowerNext
<1> QED
    BY <1>1, <1>2, <1>4, <1>5 DEF Supported, IsRising, LowerNext

\* The second part: a feature that rises, with none that it depends on behind it.
LEMMA RaisedNext ==
    ASSUME FeatureStateAssumption, NEW st \in [Features -> FeatureStates],
           NEW l, Sound(l), Follows(st, l), Supported(st),
           NEW f \in Features, RaiseNext(f, st), NEW new, SettledOne(f, st, new)
    PROVE  /\ Follows(new, l) /\ Supported(new)
           /\ \A g \in Features : IsRising(new[g]) <=> IsRising(st[g]) /\ g # f
           /\ \A g \in Features : new[g].enable # "Falling"
<1>1. /\ new[f].install = IF st[f].install = "Rising" THEN "Up" ELSE st[f].install
      /\ new[f].enable = IF st[f].enable = "Rising" THEN "Up" ELSE st[f].enable
    BY DEF Settled, SettledOne, RaiseNext
<1>2. \A g \in Features \ {f} : new[g] = st[g]
    BY DEF SettledOne
<1>3. l[f] \in Nat
    BY DEF Sound, Counts
<1>4. Follows(new, l)
    BY <1>1, <1>2, <1>3 DEF Follows
<1>5. ASSUME NEW g \in Features, NEW d \in Deps[g], new[g].enable = "Up"
      PROVE  new[d].enable = "Up"
    <2>1. d \in Features
        BY DEF FeatureStateAssumption
    <2>2. CASE st[g].enable = "Up"
        <3>1. st[d].enable = "Up"
            BY <2>2 DEF Supported
        <3> QED
            BY <1>1, <1>2, <2>1, <3>1
    <2>3. CASE st[g].enable # "Up"
        <3>1. g = f /\ st[f].enable = "Rising"
            BY <1>1, <1>2, <1>5, <2>3
        <3>2. l[f] > 0
            BY <1>3, <3>1 DEF Follows
        <3>3. l[d] > 0
            BY <2>1, <3>1, <3>2 DEF Sound, Closed, Enabled
        <3>4. st[d].enable = "Up"
            BY <2>1, <3>1, <3>3 DEF Follows, IsRising, RaiseNext
        <3>5. d # f
            BY <3>1, <3>4
        <3> QED
            BY <1>2, <2>1, <3>4, <3>5
    <2> QED
        BY <2>2, <2>3
<1>6. \A g \in Features : new[g].enable # "Falling"
    BY <1>1, <1>2 DEF RaiseNext
<1> QED
    BY <1>1, <1>2, <1>4, <1>5, <1>6 DEF Supported, IsRising, RaiseNext

\* A task keeps the states supported at every event, and does what there is to do.
LEMMA WorkGoesOn ==
    ASSUME FeatureStateAssumption, NEW st \in [Features -> FeatureStates],
           NEW l, Sound(l), Follows(st, l), Supported(st),
           NEW q \in Seq(Features), q # <<>>, Work(q, st),
           NEW new, SettledOne(Head(q), st, new)
    PROVE  Follows(new, l) /\ Supported(new) /\ Work(Tail(q), new)
<1> DEFINE f == Head(q)
           t == Tail(q)
           n == Len(q)
<1>1. /\ f \in Features /\ f = q[1] /\ t \in Seq(Features)
      /\ n \in Nat /\ n >= 1 /\ Len(t) = n - 1
      /\ \A i \in 1..n : q[i] \in Features
      /\ \A i \in 1..(n - 1) : t[i] = q[i + 1]
    OBVIOUS
<1>0. f \in Features
    BY <1>1
<1>2. PICK k \in 0..n :
        /\ Downward(q, 1, k) /\ Upward(q, k + 1, n)
        /\ \A g \in Features : st[g].enable = "Falling" <=> \E i \in 1..k : q[i] = g
        /\ \A g \in Features : IsRising(st[g]) <=> \E i \in (k + 1)..n : q[i] = g
    BY DEF Work
<1>3. SettledOne(f, st, new)
    OBVIOUS
<1> HIDE DEF f, t, n
<1>4. ASSUME NEW j \in 0..(n - 1), NEW m \in 0..n, j + 1 = m
      PROVE  /\ Downward(q, 1, m) => Downward(t, 1, j)
             /\ Upward(q, m + 1, n) => Upward(t, j + 1, n - 1)
             /\ \A g \in Features :
                    (\E i \in 1..j : t[i] = g) <=> \E i \in 2..m : q[i] = g
             /\ \A g \in Features :
                    (\E i \in (j + 1)..(n - 1) : t[i] = g) <=> \E i \in (m + 1)..n : q[i] = g
    <2>1. ASSUME Downward(q, 1, m) PROVE Downward(t, 1, j)
        <3> SUFFICES ASSUME NEW a \in 1..j, NEW b \in 1..j, a < b
                     PROVE  t[a] # t[b] /\ t[a] \notin Deps[t[b]]
            BY DEF Downward
        <3>1. a + 1 \in 1..m /\ b + 1 \in 1..m /\ a + 1 < b + 1
              /\ t[a] = q[a + 1] /\ t[b] = q[b + 1]
            BY <1>1, <1>4
        <3> QED
            BY <2>1, <3>1 DEF Downward
    <2>2. ASSUME Upward(q, m + 1, n) PROVE Upward(t, j + 1, n - 1)
        <3> SUFFICES ASSUME NEW a \in (j + 1)..(n - 1), NEW b \in (j + 1)..(n - 1), a < b
                     PROVE  t[a] # t[b] /\ t[b] \notin Deps[t[a]]
            BY DEF Upward
        <3>1. a + 1 \in (m + 1)..n /\ b + 1 \in (m + 1)..n /\ a + 1 < b + 1
              /\ t[a] = q[a + 1] /\ t[b] = q[b + 1]
            BY <1>1, <1>4
        <3> QED
            BY <2>2, <3>1 DEF Upward
    <2> DEFINE Moved(g, a, b) ==
                (\E i \in a..(b - 1) : t[i] = g) <=> \E i \in (a + 1)..b : q[i] = g
    <2>3. ASSUME NEW g \in Features, NEW a \in Nat, NEW b \in Nat, a >= 1, b <= n
          PROVE  Moved(g, a, b)
        <3>1. ASSUME NEW i \in a..(b - 1), t[i] = g PROVE \E h \in (a + 1)..b : q[h] = g
            <4>1. i + 1 \in (a + 1)..b /\ t[i] = q[i + 1]
                BY <1>1, <2>3, <3>1
            <4> QED
                BY <3>1, <4>1
        <3>2. ASSUME NEW i \in (a + 1)..b, q[i] = g PROVE \E h \in a..(b - 1) : t[h] = g
            <4>1. i - 1 \in a..(b - 1) /\ i - 1 \in 1..(n - 1) /\ (i - 1) + 1 = i
                BY <1>1, <2>3, <3>2
            <4>2. t[i - 1] = q[i]
                BY <1>1, <4>1
            <4> QED
                BY <3>2, <4>1, <4>2
        <3> QED
            BY <3>1, <3>2
    <2> HIDE DEF Moved
    <2>4. ASSUME NEW g \in Features
          PROVE  (\E i \in 1..j : t[i] = g) <=> \E i \in 2..m : q[i] = g
        <3>1. 1 \in Nat /\ m \in Nat /\ 1 >= 1 /\ m <= n /\ m - 1 = j /\ 1 + 1 = 2
            BY <1>1, <1>4
        <3>2. Moved(g, 1, m)
            BY <2>3, <3>1
        <3> QED
            BY <3>1, <3>2 DEF Moved
    <2>5. ASSUME NEW g \in Features
          PROVE  (\E i \in (j + 1)..(n - 1) : t[i] = g) <=> \E i \in (m + 1)..n : q[i] = g
        <3>1. m \in Nat /\ n \in Nat /\ m >= 1 /\ n <= n /\ j + 1 = m
            BY <1>1, <1>4
        <3>2. Moved(g, m, n)
            BY <2>3, <3>1
        <3> QED
            BY <3>1, <3>2 DEF Moved
    <2> QED
        BY <2>1, <2>2, <2>4, <2>5
<1>5. CASE k > 0
    <2>0. n \in Nat /\ k \in 1..n
        BY <1>1, <1>5
    <2>1. /\ 1 \in 1..k /\ k - 1 \in 0..(n - 1) /\ (k - 1) + 1 = k
          /\ \A i \in 2..k : i \in 1..k /\ 1 < i
          /\ \A i \in 1..k : i = 1 \/ i \in 2..k
        BY <2>0
    <2>2. st[f].enable = "Falling"
        BY <1>1, <1>2, <2>1
    <2>3. \A i \in 2..k : q[i] # f /\ f \notin Deps[q[i]]
        BY <1>1, <1>2, <2>1 DEF Downward
    <2>4. \A g \in Features : st[g].enable = "Falling" /\ g # f <=> \E i \in 2..k : q[i] = g
        BY <1>1, <1>2, <2>1, <2>3
    <2>5. \A g \in Features : st[g].enable = "Falling" => f \notin Deps[g]
        BY <1>1, <2>3, <2>4, NotOnItself
    <2>6. /\ Follows(new, l) /\ Supported(new)
          /\ \A g \in Features : IsRising(new[g]) <=> IsRising(st[g])
          /\ \A g \in Features : new[g].enable = "Falling" <=> st[g].enable = "Falling" /\ g # f
        <3>1. LowerNext(f, st)
            BY <2>2, <2>5 DEF LowerNext
        <3> QED
            BY <1>0, <1>3, <3>1, LoweredNext
    <2> DEFINE j == k - 1
    <2>11. j \in 0..(n - 1) /\ j + 1 = k
        BY <2>1
    <2> HIDE DEF j
    <2>7. /\ Downward(q, 1, k) => Downward(t, 1, j)
          /\ Upward(q, k + 1, n) => Upward(t, j + 1, n - 1)
          /\ \A g \in Features : (\E i \in 1..j : t[i] = g) <=> \E i \in 2..k : q[i] = g
          /\ \A g \in Features :
                (\E i \in (j + 1)..(n - 1) : t[i] = g) <=> \E i \in (k + 1)..n : q[i] = g
        BY <1>4, <2>11
    <2>8. \A g \in Features : new[g].enable = "Falling" <=> \E i \in 1..j : t[i] = g
        BY <2>4, <2>6, <2>7
    <2>9. \A g \in Features : IsRising(new[g]) <=> \E i \in (j + 1)..(n - 1) : t[i] = g
        BY <1>2, <2>6, <2>7
    <2>10. Work(t, new)
        <3>1. n - 1 = Len(t)
            BY <1>1
        <3>2. j \in 0..Len(t) /\ Downward(t, 1, j) /\ Upward(t, j + 1, Len(t))
            BY <1>2, <2>11, <2>7, <3>1
        <3>3. \A g \in Features : IsRising(new[g]) <=> \E i \in (j + 1)..Len(t) : t[i] = g
            BY <2>9, <3>1
        <3> QED
            BY <2>8, <3>2, <3>3 DEF Work
    <2> QED
        BY <2>6, <2>10 DEF t
<1>6. CASE k = 0
    <2>1. \A g \in Features : st[g].enable # "Falling"
        BY <1>2, <1>6
    <2>2. /\ 1 \in 1..n /\ \A i \in 2..n : i \in 1..n /\ 1 < i
          /\ \A i \in 1..n : i = 1 \/ i \in 2..n
        BY <1>1
    <2>3. Upward(q, 1, n) /\ \A g \in Features : IsRising(st[g]) <=> \E i \in 1..n : q[i] = g
        BY <1>2, <1>6
    <2>4. IsRising(st[f])
        BY <1>1, <2>2, <2>3
    <2>5. \A i \in 2..n : q[i] # f /\ q[i] \notin Deps[f]
        BY <1>1, <2>2, <2>3 DEF Upward
    <2>6. \A g \in Features : IsRising(st[g]) /\ g # f <=> \E i \in 2..n : q[i] = g
        BY <1>1, <2>2, <2>3, <2>5
    <2>7. \A d \in Deps[f] : ~IsRising(st[d])
        <3> SUFFICES ASSUME NEW d \in Deps[f], IsRising(st[d]) PROVE FALSE
            OBVIOUS
        <3>1. d \in Features /\ d # f
            BY <1>1, NotOnItself DEF FeatureStateAssumption
        <3> QED
            BY <2>5, <2>6, <3>1
    <2>8. /\ Follows(new, l) /\ Supported(new)
          /\ \A g \in Features : IsRising(new[g]) <=> IsRising(st[g]) /\ g # f
          /\ \A g \in Features : new[g].enable # "Falling"
        <3>1. RaiseNext(f, st)
            BY <2>1, <2>4, <2>7 DEF RaiseNext
        <3> QED
            BY <1>0, <1>3, <3>1, RaisedNext
    <2> DEFINE j == 0
               m == 1
    <2>9. j \in 0..(n - 1) /\ m \in 0..n /\ j + 1 = m /\ m + 1 = 2 /\ j = 0
          /\ Len(t) = n - 1 /\ j \in 0..Len(t)
        BY <1>1
    <2>10. Upward(q, 2, n)
        BY <2>2, <2>3 DEF Upward
    <2> HIDE DEF j, m
    <2>11. /\ Upward(q, m + 1, n) => Upward(t, j + 1, n - 1)
           /\ \A g \in Features :
                (\E i \in (j + 1)..(n - 1) : t[i] = g) <=> \E i \in (m + 1)..n : q[i] = g
        BY <1>4, <2>9
    <2>12. Upward(t, j + 1, Len(t))
        BY <2>9, <2>10, <2>11
    <2>13. \A g \in Features : IsRising(new[g]) <=> \E i \in (j + 1)..Len(t) : t[i] = g
        <3>1. \A g \in Features : IsRising(new[g]) <=> \E i \in 2..n : q[i] = g
            BY <2>6, <2>8
        <3> QED
            BY <2>9, <2>11, <3>1
    <2>14. Downward(t, 1, j) /\ \A g \in Features : ~\E i \in 1..j : t[i] = g
        BY <2>9 DEF Downward
    <2>15. \A g \in Features : new[g].enable = "Falling" <=> \E i \in 1..j : t[i] = g
        BY <2>8, <2>14
    <2>16. j \in 0..Len(t) /\ Downward(t, 1, j)
        BY <2>9, <2>14
    <2>17. Work(t, new)
        BY <2>12, <2>13, <2>15, <2>16 DEF Work
    <2> QED
        BY <2>8, <2>17 DEF t
<1> QED
    BY <1>2, <1>5, <1>6

------------------------------------------------------------------------------
\* A request has a task for feature f, and if it makes one change the next is one.
Pending(r, f) == tasks[r] # <<>> /\ (use.once => f \in Head(tasks[r]))

\* A request that has the tenant for itself: its rows are those of the tenant but for
\* what it has written, its tasks are for all that is changing, and what ApplyChanges
\* has to do is what the states ask for.  If it makes one change it has one task, so that
\* none is left when that one is stopped.
AloneIn(r) ==
    /\ pc[r] \in {"open", "applying"} =>
        /\ Follows(session[r].record, session[r].listed) /\ Supported(session[r].record)
        /\ ~session[r].changed => session[r].listed = listed
        /\ \A f \in Features \ session[r].dirty : session[r].record[f] = record[f]
    /\ pc[r] = "open" => \A f \in Features :
          Changing(record[f]) \/ Changing(session[r].record[f]) => Pending(r, f)
    /\ pc[r] = "ending" => \A f \in Features : Changing(record[f]) => Pending(r, f)
    /\ use.once => /\ pc[r] \in {"applying", "stopped"} => tasks[r] = <<>>
                   /\ tasks[r] = <<>> \/ Tail(tasks[r]) = <<>>
    /\ pc[r] = "applying" =>
        /\ session[r].record = memory[r] /\ Work(todo[r], memory[r])
        /\ use.once => \A i \in 1..Len(todo[r]) : todo[r][i] \in loaded[r]

Alone ==
    /\ Follows(record, listed) /\ Supported(record)
    /\ \A r \in Requests : AloneIn(r)

\* A tenant after its setup follows its descriptor.
LEMMA AloneInit ==
    ASSUME FeatureStateAssumption, Init
    PROVE  Alone
<1>1. PICK S \in SUBSET Features :
          /\ Closed(S)
          /\ listed = [f \in Features |-> IF f \in S THEN 1 ELSE 0]
          /\ record = [f \in Features |->
                          IF f \in S THEN [install |-> "Up", enable |-> "Up"]
                          ELSE [install |-> "Undefined", enable |-> "Undefined"]]
    BY DEF Init
<1>2. ASSUME NEW f \in Features
      PROVE  /\ record[f].install = IF f \in S THEN "Up" ELSE "Undefined"
             /\ record[f].enable = IF f \in S THEN "Up" ELSE "Undefined"
             /\ listed[f] = IF f \in S THEN 1 ELSE 0
    BY <1>1
<1>3. Follows(record, listed)
    BY <1>2 DEF Follows
<1>4. ASSUME NEW f \in Features, NEW d \in Deps[f]
      PROVE  /\ record[f].enable = "Up" => record[d].enable = "Up"
             /\ record[f].enable # "Falling"
    <2>1. d \in Features /\ (f \in S => d \in S)
        BY <1>1 DEF FeatureStateAssumption, Closed
    <2> QED
        BY <1>2, <2>1
<1>5. \A r \in Requests : pc[r] = "idle" /\ tasks[r] = <<>>
    BY DEF Init
<1> QED
    BY <1>3, <1>4, <1>5 DEF Alone, AloneIn, Supported

\* The rows become what the session has.
LEMMA FlushAlone ==
    ASSUME TypeOK, NEW r \in Requests, AloneIn(r), pc[r] \in {"open", "applying"},
           Flush(session[r])
    PROVE  listed' = session[r].listed /\ record' = session[r].record
<1>1. session[r].record \in [Features -> FeatureStates]
    BY DEF TypeOK, Sessions
<1>2. record' = [f \in Features |-> IF f \in session[r].dirty THEN session[r].record[f]
                                    ELSE record[f]]
    BY DEF Flush
<1>3. \A f \in Features : record'[f] = session[r].record[f]
    BY <1>2 DEF AloneIn
<1>4. record' = [f \in Features |-> record'[f]]
    BY <1>2
<1>5. session[r].record = [f \in Features |-> session[r].record[f]]
    BY <1>1
<1> QED
    BY <1>3, <1>4, <1>5 DEF Flush, AloneIn

\* A request changes features.
LEMMA ChangeAlone ==
    ASSUME FeatureStateAssumption, TypeOK, Counted, Inv, Orderly, Alone, use' = use,
           NEW r \in Requests, Change(r)
    PROVE  AloneIn(r)'
<1> DEFINE s == IF pc[r] = "idle" THEN OpenSession ELSE session[r]
<1>1. /\ s \in Sessions /\ Sound(s.listed) /\ \A f \in Features : s.listed[f] <= changes + 1
      /\ Follows(s.record, s.listed) /\ Supported(s.record)
      /\ \A f \in Features \ s.dirty : s.record[f] = record[f]
    <2>1. pc[r] \in {"idle", "open"}
        BY DEF Change
    <2>2. CASE pc[r] = "idle"
        <3>1. s = OpenSession
            BY <2>2
        <3>2. s.listed = listed /\ s.record = record
            BY <3>1 DEF OpenSession
        <3>3. OpenSession \in Sessions /\ Sound(OpenSession.listed)
            BY SessionTypes, SessionsAreSound
        <3> QED
            BY <3>1, <3>2, <3>3 DEF Alone, Counted
    <2>3. CASE pc[r] = "open"
        <3>1. s = session[r]
            BY <2>3
        <3> QED
            BY <2>3, <3>1 DEF TypeOK, Inv, Counted, Alone, AloneIn
    <2> QED
        BY <2>1, <2>2, <2>3
<1>2. /\ CallManager(r, s) /\ record' = record /\ listed' = listed
      /\ pc'[r] = "open" /\ pc[r] \in {"idle", "open"} /\ (use.once => pc[r] = "idle")
    BY DEF Change, TypeOK
<1>3. /\ pc[r] = "idle" => s.record = record /\ tasks[r] = <<>>
      /\ pc[r] = "open" => s = session[r]
    BY DEF OpenSession, Orderly
<1> HIDE DEF s
<1>4. PICK l \in [Features -> Nat], new \in Sessions :
              /\ Sound(l) /\ session'[r] = new /\ new.listed = l /\ new.changed
              /\ new.record = [f \in Features |-> Deduced(s.record[f], l[f] > 0)]
              /\ s.dirty \subseteq new.dirty
              /\ \A f \in Features \ new.dirty : new.record[f] = s.record[f]
              /\ tasks'[r] = tasks[r] \o ApplyChangesTask(new.record)
    BY ZenonT(40), <1>1, <1>2, CallEffects
<1>5. s.record \in [Features -> FeatureStates]
    BY <1>1 DEF Sessions
<1>6. Follows(new.record, l) /\ Supported(new.record)
    <2>1. ChangedTo(s.record, l, new.record)
        BY <1>4 DEF ChangedTo
    <2>2. Sound(l) /\ Sound(s.listed) /\ Follows(s.record, s.listed) /\ Supported(s.record)
        BY <1>1, <1>4
    <2> QED
        BY <1>5, <2>1, <2>2, CallSupports
<1>7. \A f \in Features \ new.dirty : new.record[f] = record'[f]
    BY <1>1, <1>2, <1>4
<1>8. ASSUME NEW f \in Features, Changing(s.record[f]) PROVE Changing(new.record[f])
    <2>1. new.record[f] = Deduced(s.record[f], l[f] > 0) /\ (l[f] > 0) \in BOOLEAN
        BY <1>4
    <2>2. Changing(Deduced(s.record[f], l[f] > 0))
        BY <1>5, <1>8, <2>1, StillChanging
    <2> QED
        BY <2>1, <2>2
<1>9. /\ tasks[r] # <<>> => tasks'[r] # <<>> /\ Head(tasks'[r]) = Head(tasks[r])
      /\ tasks[r] = <<>> => tasks'[r] = ApplyChangesTask(new.record)
      /\ ApplyChangesTask(new.record) # <<>> => tasks'[r] # <<>>
    <2>1. tasks'[r] = tasks[r] \o ApplyChangesTask(new.record)
          /\ tasks[r] \in Seq(SUBSET Features)
        BY <1>4 DEF TypeOK
    <2> QED
        BY ZenonT(40), <2>1, TasksKept
<1>10. ASSUME NEW f \in Features, Changing(record'[f]) \/ Changing(new.record[f])
       PROVE  Pending(r, f)'
    <2>1. CASE Changing(new.record[f])
        <3>1. ApplyChangesTask(new.record) # <<>> /\ f \in Head(ApplyChangesTask(new.record))
            BY <2>1, TaskHas
        <3> QED
            BY <1>2, <1>3, <1>9, <3>1 DEF Pending
    <2>2. CASE Changing(record[f]) /\ ~Changing(new.record[f])
        <3>1. pc[r] = "open"
            BY <1>2, <1>3, <1>8, <2>2
        <3>2. Pending(r, f)
            BY <2>2, <3>1 DEF Alone, AloneIn
        <3> QED
            BY <1>2, <1>9, <3>1, <3>2 DEF Pending
    <2> QED
        BY <1>2, <1>10, <2>1, <2>2
<1>11. ASSUME use.once PROVE tasks'[r] = <<>> \/ Tail(tasks'[r]) = <<>>
    <2>1. tasks'[r] = ApplyChangesTask(new.record)
        BY <1>2, <1>3, <1>9, <1>11
    <2> QED
        BY <2>1, TaskIsOne
<1> QED
    BY <1>2, <1>4, <1>6, <1>7, <1>10, <1>11 DEF AloneIn

\* A request starts a task: all that is changing is in it, and what there is to do is
\* in the order of the features.
LEMMA StartAlone ==
    ASSUME FeatureStateAssumption, TypeOK, Alone, use' = use,
           NEW r \in Requests, StartTask(r)
    PROVE  AloneIn(r)'
<1>1. /\ pc[r] \in {"ending", "stopped"} /\ pc'[r] = "applying"
      /\ session'[r] = OpenSession /\ tasks[r] # <<>> /\ tasks'[r] = Tail(tasks[r])
      /\ loaded'[r] = Head(tasks[r]) /\ memory'[r] = record
      /\ todo'[r] = Lowered(record) \o Raised(record)
      /\ listed' = listed /\ record' = record
    BY DEF StartTask, TypeOK
<1>2. Follows(session'[r].record, session'[r].listed) /\ Supported(session'[r].record)
      /\ session'[r].listed = listed' /\ session'[r].record = record'
    BY <1>1 DEF OpenSession, Alone
<1>3. Work(todo'[r], memory'[r])
    BY <1>1, WorkBegins
<1>4. ASSUME use.once, NEW i \in 1..Len(todo'[r]) PROVE todo'[r][i] \in loaded'[r]
    <2> DEFINE down == Lowered(record)
               up == Raised(record)
               f == todo'[r][i]
    <2>1. /\ down \in Seq(Features) /\ up \in Seq(Features)
          /\ \A g \in Features : record[g].enable = "Falling"
                <=> \E j \in 1..Len(down) : down[j] = g
          /\ \A g \in Features : IsRising(record[g]) <=> \E j \in 1..Len(up) : up[j] = g
        BY LoweredInOrder, RaisedInOrder
    <2> HIDE DEF down, up
    <2>2. todo'[r] = down \o up
        BY <1>1 DEF down, up
    <2>3. f \in Features
          /\ ((\E j \in 1..Len(down) : down[j] = f) \/ \E j \in 1..Len(up) : up[j] = f)
        <3>1. Len(todo'[r]) = Len(down) + Len(up) /\ Len(down) \in Nat /\ Len(up) \in Nat
              /\ i \in Nat
            BY <2>1, <2>2
        <3>2. CASE i <= Len(down)
            <4>1. i \in 1..Len(down) /\ f = down[i]
                BY <2>1, <2>2, <3>1, <3>2
            <4> QED
                BY <2>1, <4>1
        <3>3. CASE i > Len(down)
            <4>1. i - Len(down) \in 1..Len(up) /\ f = up[i - Len(down)]
                BY <2>1, <2>2, <3>1, <3>3
            <4> QED
                BY <2>1, <4>1
        <3> QED
            BY <3>1, <3>2, <3>3
    <2>4. Changing(record[f])
        BY <2>1, <2>3 DEF Changing, IsRising
    <2>5. Pending(r, f)
        <3>1. pc[r] = "ending"
            BY <1>1, <1>4 DEF Alone, AloneIn
        <3> QED
            BY <2>3, <2>4, <3>1 DEF Alone, AloneIn
    <2> QED
        BY <1>1, <1>4, <2>5 DEF Pending
<1>5. ASSUME use.once PROVE tasks'[r] = <<>>
    BY <1>1, <1>5 DEF Alone, AloneIn
<1> QED
    BY <1>1, <1>2, <1>3, <1>4, <1>5 DEF AloneIn

\* A task settles a feature.
LEMMA ApplyAlone ==
    ASSUME FeatureStateAssumption, TypeOK, Inv, Alone, use' = use,
           NEW r \in Requests, ApplyNext(r)
    PROVE  AloneIn(r)'
<1> DEFINE f == Head(todo[r])
           st == memory[r]
           new == memory'[r]
           q == todo[r]
<1>1. /\ pc[r] = "applying" /\ pc'[r] = "applying" /\ q # <<>> /\ q \in Seq(Features)
      /\ loaded' = loaded /\ listed' = listed /\ record' = record /\ tasks' = tasks
      /\ session[r] \in Sessions /\ st \in [Features -> FeatureStates]
    BY DEF ApplyNext, TypeOK
<1>2. f \in Features
    BY <1>1
<1>3. /\ session[r].record = st /\ Work(q, st) /\ Follows(st, session[r].listed)
      /\ Supported(st) /\ (~session[r].changed => session[r].listed = listed)
      /\ \A g \in Features \ session[r].dirty : st[g] = record[g]
      /\ use.once => tasks[r] = <<>> /\ \A i \in 1..Len(q) : q[i] \in loaded[r]
    BY <1>1 DEF Alone, AloneIn
<1>4. /\ todo'[r] = Tail(q) /\ new = [st EXCEPT ![f] = Settled(st[f])]
      /\ session'[r].listed = session[r].listed /\ session'[r].changed = session[r].changed
      /\ session'[r].dirty = session[r].dirty \cup {f}
      /\ session'[r].record = [session[r].record EXCEPT ![f] =
            [install |-> IF Settled(st[f]).install # st[f].install
                         THEN Settled(st[f]).install ELSE session[r].record[f].install,
             enable |-> IF Settled(st[f]).enable # st[f].enable
                        THEN Settled(st[f]).enable ELSE session[r].record[f].enable]]
    BY DEF ApplyNext, TypeOK
<1>5. SettledOne(f, st, new) /\ new \in [Features -> FeatureStates]
    <2>1. Settled(st[f]) \in FeatureStates
        BY <1>1, <1>2, SettledTypes
    <2> QED
        BY <1>1, <1>2, <1>4, <2>1 DEF SettledOne
<1>6. session'[r].record = new
    <2> DEFINE next == Settled(st[f])
    <2>1. next \in FeatureStates /\ st[f] \in FeatureStates
        BY <1>1, <1>2, SettledTypes
    <2>2. session'[r].record = [st EXCEPT ![f] =
            [install |-> IF next.install # st[f].install THEN next.install ELSE st[f].install,
             enable |-> IF next.enable # st[f].enable THEN next.enable ELSE st[f].enable]]
        BY <1>3, <1>4
    <2> HIDE DEF next
    <2>3. [install |-> IF next.install # st[f].install THEN next.install ELSE st[f].install,
           enable |-> IF next.enable # st[f].enable THEN next.enable ELSE st[f].enable]
             = next
        BY <2>1 DEF FeatureStates
    <2>4. new = [st EXCEPT ![f] = next]
        BY <1>4 DEF next
    <2> QED
        BY <2>2, <2>3, <2>4
<1>7. Sound(session[r].listed)
    BY DEF Inv
<1> HIDE DEF f, st, new, q
<1>8. Follows(new, session[r].listed) /\ Supported(new) /\ Work(Tail(q), new)
    <2>1. SettledOne(Head(q), st, new) /\ q \in Seq(Features) /\ q # <<>>
        BY <1>1, <1>5 DEF f, q
    <2>2. Work(q, st) /\ Follows(st, session[r].listed) /\ Supported(st)
          /\ st \in [Features -> FeatureStates]
        BY <1>1, <1>3
    <2> QED
        BY <1>7, <2>1, <2>2, WorkGoesOn
<1>9. \A g \in Features \ session'[r].dirty : new[g] = record'[g]
    BY <1>1, <1>3, <1>4, <1>5 DEF SettledOne
<1>10. ASSUME use.once, NEW i \in 1..Len(Tail(q)) PROVE Tail(q)[i] \in loaded'[r]
    <2>1. i + 1 \in 1..Len(q) /\ Tail(q)[i] = q[i + 1]
        BY <1>1
    <2> QED
        BY <1>1, <1>3, <1>10, <2>1
<1> QED
    BY <1>1, <1>3, <1>4, <1>6, <1>8, <1>9, <1>10 DEF AloneIn, new, q

\* A commit, a migration, the end of a task or request, and a failure: the tenant has
\* what the session had, and what has not been settled is pending.
LEMMA EndAlone ==
    ASSUME FeatureStateAssumption, TypeOK, Smooth, Alone, ~use.handlers, use' = use,
           NEW r \in Requests,
           \/ Commit(r) \/ Rollback(r) \/ Migrate(r)
           \/ EndTask(r) \/ TaskStops(r) \/ TaskFails(r) \/ EndRequest(r)
    PROVE  AloneIn(r)' /\ Follows(record', listed') /\ Supported(record')
<1>0. AloneIn(r) /\ Follows(record, listed) /\ Supported(record)
    BY DEF Alone
<1>1. ASSUME Commit(r)
      PROVE  AloneIn(r)' /\ Follows(record', listed') /\ Supported(record')
    <2>1. pc[r] = "open" /\ pc'[r] = "ending" /\ Flush(session[r]) /\ tasks' = tasks
        BY <1>1 DEF Commit, TypeOK
    <2>2. listed' = session[r].listed /\ record' = session[r].record
        BY <1>0, <2>1, FlushAlone
    <2>3. Follows(record', listed') /\ Supported(record')
        BY <1>0, <2>1, <2>2 DEF AloneIn
    <2>4. \A f \in Features : Changing(record'[f]) => Pending(r, f)'
        BY <1>0, <2>1, <2>2 DEF AloneIn, Pending
    <2>5. use.once => tasks'[r] = <<>> \/ Tail(tasks'[r]) = <<>>
        BY <1>0, <2>1 DEF AloneIn
    <2> QED
        BY <2>1, <2>3, <2>4, <2>5 DEF AloneIn
<1>2. ASSUME Rollback(r)
      PROVE  AloneIn(r)' /\ Follows(record', listed') /\ Supported(record')
    <2>1. pc[r] = "open" /\ pc'[r] = "ending" /\ UNCHANGED <<listed, record, tasks>>
        BY <1>2 DEF Rollback, TypeOK
    <2>2. \A f \in Features : Changing(record'[f]) => Pending(r, f)'
        BY <1>0, <2>1 DEF AloneIn, Pending
    <2> QED
        BY <1>0, <2>1, <2>2 DEF AloneIn
<1>3. ASSUME Migrate(r)
      PROVE  AloneIn(r)' /\ Follows(record', listed') /\ Supported(record')
    <2>1. /\ pc[r] = "applying" /\ session'[r] = OpenSession' /\ pc' = pc
          /\ UNCHANGED <<tasks, loaded, memory, todo>>
        BY <1>3 DEF Migrate, TypeOK
    <2>2. ~Conflict(session[r])
        BY <2>1 DEF Smooth, Conflict
    <2>3. Flush(session[r])
        BY <1>3, <2>2 DEF Migrate
    <2>4. listed' = session[r].listed /\ record' = session[r].record
        BY <1>0, <2>1, <2>3, FlushAlone
    <2>5. Follows(record', listed') /\ Supported(record') /\ record' = memory'[r]
        BY <1>0, <2>1, <2>4 DEF AloneIn
    <2>6. session'[r].listed = listed' /\ session'[r].record = record'
        BY <2>1 DEF OpenSession
    <2>7. Work(todo'[r], memory'[r])
          /\ (use.once => /\ tasks'[r] = <<>>
                          /\ \A i \in 1..Len(todo'[r]) : todo'[r][i] \in loaded'[r])
        BY <1>0, <2>1 DEF AloneIn
    <2> QED
        BY <2>1, <2>5, <2>6, <2>7 DEF AloneIn
<1>4. ASSUME EndTask(r)
      PROVE  AloneIn(r)' /\ Follows(record', listed') /\ Supported(record')
    <2>1. /\ pc[r] = "applying" /\ pc'[r] = "ending" /\ todo[r] = <<>> /\ Flush(session[r])
        BY <1>4 DEF EndTask, Closing, TypeOK
    <2>2. listed' = session[r].listed /\ record' = session[r].record
        BY <1>0, <2>1, FlushAlone
    <2>3. Follows(record', listed') /\ Supported(record') /\ Work(<<>>, record')
        BY <1>0, <2>1, <2>2 DEF AloneIn
    <2>4. ASSUME NEW f \in Features PROVE ~Changing(record'[f])
        <3>1. record'[f].enable # "Falling" /\ ~IsRising(record'[f])
            BY <2>3, WorkEnds
        <3>2. record'[f].install # "Falling"
            BY <2>3 DEF Follows
        <3> QED
            BY <3>1, <3>2 DEF Changing, IsRising
    <2>5. ASSUME use.once PROVE tasks'[r] = <<>> \/ Tail(tasks'[r]) = <<>>
        <3>1. tasks[r] = <<>> /\ tasks'[r] = tasks[r] \o ApplyChangesTask(session[r].record)
            BY <1>0, <1>4, <2>1, <2>5 DEF AloneIn, EndTask, Refired, TypeOK
        <3>2. tasks'[r] = ApplyChangesTask(session[r].record)
            BY <3>1, TaskTypes
        <3> QED
            BY <3>2, TaskIsOne
    <2> QED
        BY <2>1, <2>3, <2>4, <2>5 DEF AloneIn
<1>5. ASSUME TaskFails(r) \/ EndRequest(r)
      PROVE  AloneIn(r)' /\ Follows(record', listed') /\ Supported(record')
    <2>1. pc'[r] = "idle" /\ record' = record /\ listed' = listed /\ tasks'[r] = <<>>
        BY <1>5 DEF TaskFails, EndRequest, Closing, TypeOK
    <2> QED
        BY <1>0, <2>1 DEF AloneIn
<1>6. ASSUME TaskStops(r)
      PROVE  AloneIn(r)' /\ Follows(record', listed') /\ Supported(record')
    <2>1. pc[r] = "applying" /\ pc'[r] = "stopped" /\ Flush(session[r]) /\ tasks' = tasks
        BY <1>6 DEF TaskStops, Closing, TypeOK
    <2>2. listed' = session[r].listed /\ record' = session[r].record
        BY <1>0, <2>1, FlushAlone
    <2>3. Follows(record', listed') /\ Supported(record')
        BY <1>0, <2>1, <2>2 DEF AloneIn
    <2> QED
        BY <1>0, <2>1, <2>3 DEF AloneIn
<1> QED
    BY <1>1, <1>2, <1>3, <1>4, <1>5, <1>6

\* The tenant of requests that do not overlap, and whose handlers leave the features
\* alone, is so after every step.
LEMMA AloneStep ==
    ASSUME FeatureStateAssumption, TypeOK, Counted, Inv, Orderly, Smooth, Alone,
           OneAfterAnother, [Next]_vars
    PROVE  Alone'
<1>1. CASE UNCHANGED vars
    BY <1>1 DEF vars, Alone, AloneIn, Pending
<1> SUFFICES ASSUME Next PROVE Alone'
    BY <1>1
<1>2. PICK r \in use.requests : r \in Requests /\ Step(r)
    BY StepOfOne
<1>3. use' = use
    BY StepOfOne
<1>4. ASSUME NEW q \in Requests \ {r} PROVE AloneIn(q)'
    <2>1. q \notin use.requests
        BY <1>2 DEF OneAfterAnother, OneAtATime
    <2>2. pc'[q] = "idle" /\ tasks'[q] = <<>>
        BY <1>2, <2>1, OthersKept DEF Orderly
    <2> QED
        BY <2>2 DEF AloneIn
<1>5. ~use.handlers
    BY DEF OneAfterAnother
<1>6. AloneIn(r)' /\ Follows(record', listed') /\ Supported(record')
    <2>1. CASE Change(r)
        <3>1. record' = record /\ listed' = listed
            BY <2>1 DEF Change
        <3> QED
            BY <1>2, <1>3, <2>1, <3>1, ChangeAlone DEF Alone
    <2>2. CASE StartTask(r)
        <3>1. record' = record /\ listed' = listed
            BY <2>2 DEF StartTask
        <3> QED
            BY <1>2, <1>3, <2>2, <3>1, StartAlone DEF Alone
    <2>3. CASE ApplyNext(r)
        <3>1. record' = record /\ listed' = listed
            BY <2>3 DEF ApplyNext
        <3> QED
            BY <1>2, <1>3, <2>3, <3>1, ApplyAlone DEF Alone
    <2>4. CASE HandlerChanges(r)
        BY <1>5, <2>4 DEF HandlerChanges
    <2> QED
        BY <1>2, <1>3, <1>5, <2>1, <2>2, <2>3, <2>4, EndAlone DEF Step
<1> QED
    BY <1>4, <1>6 DEF Alone

------------------------------------------------------------------------------
\* All of it.
FullInv ==
    /\ TypeOK /\ Counted /\ Inv /\ Orderly /\ Smooth
    /\ NoTaskFails => Covered
    /\ OneAfterAnother => Alone

\* The inductive invariant holds in every reachable state.
LEMMA FullInvHolds ==
    ASSUME FeatureStateAssumption
    PROVE  Spec => []FullInv
<1>1. Init => FullInv
    BY TypeInit, InvInit, OrderlyInit, SmoothInit, CoveredInit, AloneInit DEF FullInv
<1>2. ASSUME FullInv, [Next]_vars PROVE FullInv'
    <2>1. TypeOK' /\ Counted' /\ Inv' /\ Orderly' /\ Smooth'
        BY <1>2, TypeStep, InvNext, OrderlyStep, SmoothStep DEF FullInv
    <2>2. use' = use
        BY <1>2, StepOfOne DEF FullInv, vars
    <2>3. (NoTaskFails' <=> NoTaskFails) /\ (OneAfterAnother' <=> OneAfterAnother)
        BY <2>2 DEF NoTaskFails, OneAfterAnother, OneAtATime
    <2>4. NoTaskFails => Covered'
        BY <1>2, CoveredStep DEF FullInv
    <2>5. OneAfterAnother => Alone'
        BY <1>2, AloneStep DEF FullInv
    <2> QED
        BY <2>1, <2>3, <2>4, <2>5 DEF FullInv
<1> QED
    BY <1>1, <1>2, PTL DEF Spec

\* However many features there are and whatever they depend on, and whatever fails, a
\* feature is up only while its dependencies are, at every event of ApplyChanges.
THEOREM FeatureUpIsSupported ==
    ASSUME FeatureStateAssumption
    PROVE  Spec => []UpIsSupported
<1>1. FullInv => UpIsSupported
    <2> SUFFICES ASSUME FullInv, OneAfterAnother, NEW r \in Requests,
                        NEW f \in Features, NEW d \in Deps[f]
                 PROVE  LET enable == [g \in {d, f} |-> session[r].record[g].enable] IN
                        /\ enable[f] = "Up" => enable[d] = "Up"
                        /\ enable[f] = "Falling" => enable[d] # "Down"
        BY DEF UpIsSupported
    <2>1. Supported(session[r].record)
        <3>1. CASE pc[r] \in {"open", "applying"}
            BY <3>1 DEF FullInv, Alone, AloneIn
        <3>2. CASE pc[r] \notin {"open", "applying"}
            <4>1. session[r].record = Unknown
                BY <3>2 DEF FullInv, Orderly, NoSession
            <4>2. \A g \in Features : Unknown[g].enable = "Undefined"
                BY DEF Unknown
            <4> QED
                BY <4>1, <4>2 DEF Supported
        <3> QED
            BY <3>1, <3>2
    <2> QED
        BY <2>1 DEF Supported
<1> QED
    BY <1>1, FullInvHolds, PTL

\* The state records follow the descriptor, whatever fails or stops half-way, and agree
\* with it when the last task of a request has run to its end; and none is rising or
\* falling once all requests are done, if no task fails or stops.
THEOREM FeatureSettledAtEnd ==
    ASSUME FeatureStateAssumption
    PROVE  Spec => []SettledAtEnd
<1>1. FullInv => SettledAtEnd
    <2>1. ASSUME FullInv, OneAfterAnother, NEW r \in Requests,
                 pc[r] = "ending", tasks[r] = <<>>
          PROVE  Agree
        <3> SUFFICES ASSUME NEW f \in Features
                     PROVE  /\ Resting(record[f])
                            /\ listed[f] > 0 <=> record[f].enable = "Up"
                            /\ listed[f] > 0 => record[f].install = "Up"
            BY DEF Agree
        <3>1. ~Changing(record[f])
            BY <2>1 DEF FullInv, Alone, AloneIn, Pending
        <3>2. /\ record[f].install # "Falling" /\ listed[f] \in Nat
              /\ listed[f] > 0 => record[f].enable \in {"Rising", "Up"}
                                  /\ record[f].install \in {"Rising", "Up"}
              /\ listed[f] = 0 => record[f].enable \in {"Falling", "Down", "Undefined"}
            BY <2>1 DEF FullInv, Alone, Follows, Inv, Sound, Counts
        <3> QED
            BY <3>1, <3>2 DEF Changing, Resting
    <2>2. ASSUME FullInv, AtRest, NoTaskFails, NEW f \in Features
          PROVE  Resting(record[f])
        <3>1. ~Changing(record[f])
            BY <2>2 DEF FullInv, Covered, Covers, AtRest
        <3> QED
            BY <3>1 DEF Changing, Resting
    <2>3. FullInv /\ OneAfterAnother => Follows(record, listed)
        BY DEF FullInv, Alone
    <2> QED
        BY <2>1, <2>2, <2>3 DEF SettledAtEnd
<1> QED
    BY <1>1, FullInvHolds, PTL

\* The events of a feature are fired in a shell that has loaded it, if no request changes
\* features twice.
THEOREM FeatureHandlersLoaded ==
    ASSUME FeatureStateAssumption
    PROVE  Spec => []HandlersLoaded
<1>1. FullInv => HandlersLoaded
    <2> SUFFICES ASSUME FullInv, OneAfterAnother, use.once, NEW r \in Requests,
                        todo[r] # <<>>
                 PROVE  Head(todo[r]) \in loaded[r]
        BY DEF HandlersLoaded
    <2>1. pc[r] = "applying" /\ todo[r] \in Seq(Features)
        BY DEF FullInv, Orderly, TypeOK
    <2>2. \A i \in 1..Len(todo[r]) : todo[r][i] \in loaded[r]
        BY <2>1 DEF FullInv, Alone, AloneIn
    <2>3. 1 \in 1..Len(todo[r]) /\ Head(todo[r]) = todo[r][1]
        BY <2>1
    <2> QED
        BY <2>2, <2>3
<1> QED
    BY <1>1, FullInvHolds, PTL
==============================================================================
