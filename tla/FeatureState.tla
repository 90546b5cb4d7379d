------------------------------ MODULE FeatureState ------------------------------
(***************************************************************************)
(* The features of one tenant: the shell descriptor, which lists the       *)
(* enabled ones; the state records, which follow it through Rising and     *)
(* Falling; and the ApplyChanges tasks, which a request runs when it ends  *)
(* and which fire the events of the features that change.                  *)
(*                                                                         *)
(* A request and every task run in a transaction of their own, at          *)
(* ReadCommitted, through a session that reads a row once and writes whole *)
(* rows.  A commit that replaces a descriptor replaced by another one      *)
(* meanwhile fails, as it deletes rows that are gone; other rows keep what *)
(* was written last.  InstallState is never Falling: no code sets it.      *)
(***************************************************************************)
EXTENDS Naturals, Sequences, FiniteSets

CONSTANTS
    Features,
    Deps,            \* Deps[f]: the features f names as its dependencies
    Order,           \* AvailableFeatures: dependencies first
    Requests,
    Uses             \* ways in which the tenant is used, of which one is chosen

States == {"Undefined", "Rising", "Up", "Falling", "Down"}

AllUses ==
    [requests : SUBSET Requests,             \* the requests that there are
     once : BOOLEAN,                         \* a request changes features but once
     handlers : BOOLEAN,                     \* event handlers call the feature manager
     failing : SUBSET {"request", "task"},   \* what may fail
     changes : Nat]                          \* bound: calls of the feature manager

ASSUME FeatureStateAssumption ==
    /\ IsFiniteSet(Features)
    /\ Deps \in [Features -> SUBSET Features]
    /\ Order \in [1..Cardinality(Features) -> Features]
    /\ \A f \in Features : \E i \in DOMAIN Order : Order[i] = f
    /\ \A i, j \in DOMAIN Order : Order[j] \in Deps[Order[i]] => j < i
    /\ Uses \subseteq AllUses

VARIABLES
    use,      \* the way in which the tenant is used
    serial,   \* ShellDescriptorRecord.SerialNumber
    listed,   \* listed[f]: how often the descriptor lists f
    record,   \* record[f]: InstallState and EnableState of f
    pc,       \* pc[r]: what request r is doing
    session,  \* session[r]: the rows as the open session of r has them
    tasks,    \* tasks[r]: pending tasks of r, each the features of its descriptor
    loaded,   \* loaded[r]: the features of the shell in which r runs a task
    memory,   \* memory[r]: the shell state that ApplyChanges works on
    todo,     \* todo[r]: the changes it still has to make
    changes   \* calls of the feature manager so far

vars == <<use, serial, listed, record, pc, session, tasks, loaded, memory, todo, changes>>

FeatureStates == [install : States, enable : States]
Unknown == [f \in Features |-> [install |-> "Undefined", enable |-> "Undefined"]]

NoSession == [serial |-> 0, listed |-> [f \in Features |-> 0], record |-> Unknown,
              dirty |-> {}, changed |-> FALSE]

OpenSession == [serial |-> serial, listed |-> listed, record |-> record,
                dirty |-> {}, changed |-> FALSE]

\* the features that a descriptor lists
Enabled(l) == {f \in Features : l[f] > 0}

\* every dependency of a feature in S is in S
Closed(S) == \A f \in S : Deps[f] \subseteq S

\* A tenant after its setup: some features are enabled, with their dependencies.
Init ==
    /\ use \in Uses
    /\ serial = 1
    /\ \E S \in SUBSET Features :
          /\ Closed(S)
          /\ listed = [f \in Features |-> IF f \in S THEN 1 ELSE 0]
          /\ record = [f \in Features |->
                          IF f \in S THEN [install |-> "Up", enable |-> "Up"]
                          ELSE [install |-> "Undefined", enable |-> "Undefined"]]
    /\ pc = [r \in Requests |-> "idle"]
    /\ session = [r \in Requests |-> NoSession]
    /\ tasks = [r \in Requests |-> <<>>]
    /\ loaded = [r \in Requests |-> {}]
    /\ memory = [r \in Requests |-> Unknown]
    /\ todo = [r \in Requests |-> <<>>]
    /\ changes = 0

------------------------------------------------------------------------------
\* Mutant of Affected: only the direct neighbours
Affected_Direct(f, next) == {f} \cup next[f]

\* f and what is reached from it through next
Affected(f, next) ==
    {g \in Features : \A S \in SUBSET Features :
        (f \in S /\ \A x \in S : next[x] \subseteq S) => g \in S}

DisabledDependencies(on) == [f \in Features |-> Deps[f] \ on]
EnabledDependants(on) == [f \in Features |-> {g \in on : f \in Deps[g]}]

\* What a call names together with what it affects; a feature that affects others
\* is left out unless the call is forced.
AllAffected(fs, next, force) ==
    UNION {IF force \/ Affected(f, next) = {f} THEN Affected(f, next) ELSE {} : f \in fs}

\* Mutant of Changing: features that fall are forgotten.
Changing_Rising(s) == s.install = "Rising" \/ s.enable = "Rising"

Changing(s) == s.install \in {"Rising", "Falling"} \/ s.enable \in {"Rising", "Falling"}

\* Mutant of ApplyChangesTask: the shell has only the features that are up.
ApplyChangesTask_Up(st) ==
    IF \E f \in Features : Changing(st[f])
    THEN <<{f \in Features : st[f].enable = "Up"}>>
    ELSE <<>>

\* FireApplyChangesIfNeeded: the task, if a feature of the shell state is changing
ApplyChangesTask(st) ==
    IF \E f \in Features : Changing(st[f])
    THEN <<{f \in Features : Changing(st[f]) \/ st[f].enable = "Up"}>>
    ELSE <<>>

\* What Changed makes of the state of a feature that is or is not listed
Deduced(s, isListed) ==
    IF isListed
    THEN [install |-> IF s.install = "Up" THEN "Up" ELSE "Rising",
          enable |-> IF s.enable = "Up" THEN "Up" ELSE "Rising"]
    ELSE [install |-> s.install,
          enable |-> IF s.enable \in {"Down", "Undefined"} THEN s.enable ELSE "Falling"]

\* UpdateShellDescriptor and Changed: session s after a call that lists l
Updated(s, l) ==
    LET st == [f \in Features |-> Deduced(s.record[f], l[f] > 0)] IN
    [serial |-> s.serial, listed |-> l, record |-> st, changed |-> TRUE,
     dirty |-> s.dirty \cup {f \in Features : st[f] # s.record[f]}]

\* EnableFeatures adds what is affected, whether it is listed or not.
ToEnable(l, fs, force) == AllAffected(fs, DisabledDependencies(Enabled(l)), force)
Added(l, S) == [f \in Features |-> IF f \in S THEN l[f] + 1 ELSE l[f]]

\* DisableFeatures removes every copy of what is affected.
ToDisable(l, fs, force) == AllAffected(fs, EnabledDependants(Enabled(l)), force)
Removed(l, S) == [f \in Features |-> IF f \in S THEN 0 ELSE l[f]]

\* The descriptor is updated with list l, in session s of request r.
Update(r, s, l) ==
    /\ session' = [session EXCEPT ![r] = Updated(s, l)]
    /\ tasks' = [tasks EXCEPT ![r] = @ \o ApplyChangesTask(Updated(s, l).record)]

\* A call of the feature manager in session s of request r; one that affects
\* nothing updates nothing.
CallManager(r, s) ==
    /\ changes < use.changes
    /\ changes' = changes + 1
    /\ \E fs \in SUBSET Features, force \in BOOLEAN :
          \/ /\ ToEnable(s.listed, fs, force) # {}
             /\ Update(r, s, Added(s.listed, ToEnable(s.listed, fs, force)))
          \/ /\ ToDisable(s.listed, fs, force) # {}
             /\ Update(r, s, Removed(s.listed, ToDisable(s.listed, fs, force)))

------------------------------------------------------------------------------
\* A request enables or disables features, perhaps several times.
Change(r) ==
    /\ pc[r] \in IF use.once THEN {"idle"} ELSE {"idle", "open"}
    /\ CallManager(r, IF pc[r] = "idle" THEN OpenSession ELSE session[r])
    /\ pc' = [pc EXCEPT ![r] = "open"]
    /\ UNCHANGED <<serial, listed, record, loaded, memory, todo>>

Conflict(s) == s.changed /\ s.serial # serial

\* Mutant of Flush: every session writes the descriptor, with a new serial number.
Flush_Always(s) ==
    /\ ~Conflict(s)
    /\ serial' = serial + 1
    /\ listed' = s.listed
    /\ record' = [f \in Features |-> IF f \in s.dirty THEN s.record[f] ELSE record[f]]

\* The rows that the session has changed are written.
Flush(s) ==
    /\ ~Conflict(s)
    /\ serial' = IF s.changed THEN serial + 1 ELSE serial
    /\ listed' = IF s.changed THEN s.listed ELSE listed
    /\ record' = [f \in Features |-> IF f \in s.dirty THEN s.record[f] ELSE record[f]]

Commit(r) ==
    /\ pc[r] = "open"
    /\ Flush(session[r])
    /\ pc' = [pc EXCEPT ![r] = "ending"]
    /\ session' = [session EXCEPT ![r] = NoSession]
    /\ UNCHANGED <<tasks, loaded, memory, todo, changes>>

\* The request fails, or its commit; its tasks stay pending.
Rollback(r) ==
    /\ pc[r] = "open"
    /\ "request" \in use.failing \/ Conflict(session[r])
    /\ pc' = [pc EXCEPT ![r] = "ending"]
    /\ session' = [session EXCEPT ![r] = NoSession]
    /\ UNCHANGED <<serial, listed, record, tasks, loaded, memory, todo, changes>>

\* The features of S, as they follow each other in a sequence.
Those(S, sequence) ==
    LET at == {i \in DOMAIN sequence : sequence[i] \in S}
        next == CHOOSE next \in [1..Cardinality(at) -> at] :
                    \A i, j \in 1..Cardinality(at) : i < j => next[i] < next[j]
    IN [i \in 1..Cardinality(at) |-> sequence[next[i]]]

Reversed == [i \in DOMAIN Order |-> Order[Len(Order) + 1 - i]]

\* Mutant of Lowered: the features are not taken in reverse order.
Lowered_InOrder(st) == Those({f \in Features : st[f].enable = "Falling"}, Order)

\* the features to lower, in reverse order
Lowered(st) == Those({f \in Features : st[f].enable = "Falling"}, Reversed)

\* the features to raise, in order
Raised(st) ==
    Those({f \in Features : "Rising" \in {st[f].install, st[f].enable}}, Order)

\* ExecuteNextTask: the shell is built from the descriptor of the task, and
\* ApplyChanges reads the shell state.
StartTask(r) ==
    /\ pc[r] \in {"ending", "stopped"}
    /\ tasks[r] # <<>>
    /\ pc' = [pc EXCEPT ![r] = "applying"]
    /\ session' = [session EXCEPT ![r] = OpenSession]
    /\ tasks' = [tasks EXCEPT ![r] = Tail(@)]
    /\ loaded' = [loaded EXCEPT ![r] = Head(tasks[r])]
    /\ memory' = [memory EXCEPT ![r] = record]
    /\ todo' = [todo EXCEPT ![r] = Lowered(record) \o Raised(record)]
    /\ UNCHANGED <<serial, listed, record, changes>>

\* what becomes of a feature that ApplyChanges lowers or raises
Settled(s) ==
    IF s.enable = "Falling"
    THEN [install |-> s.install, enable |-> "Down"]
    ELSE [install |-> IF s.install = "Rising" THEN "Up" ELSE s.install,
          enable |-> IF s.enable = "Rising" THEN "Up" ELSE s.enable]

\* The events of the next feature are fired, and its state is written, column by
\* column, from what ApplyChanges has in memory.
ApplyNext(r) ==
    LET f == Head(todo[r])
        s == memory[r][f]
        next == Settled(s)
        row == session[r].record[f]
    IN
    /\ pc[r] = "applying"
    /\ todo[r] # <<>>
    /\ memory' = [memory EXCEPT ![r][f] = next]
    /\ session' = [session EXCEPT ![r] =
          [serial |-> @.serial, listed |-> @.listed, changed |-> @.changed,
           dirty |-> @.dirty \cup {f},
           record |-> [@.record EXCEPT ![f] =
              [install |-> IF next.install # s.install THEN next.install ELSE row.install,
               enable |-> IF next.enable # s.enable THEN next.enable ELSE row.enable]]]]
    /\ todo' = [todo EXCEPT ![r] = Tail(@)]
    /\ UNCHANGED <<serial, listed, record, pc, tasks, loaded, changes>>

\* The handler of Installing runs the migrations of the feature and of those it
\* depends on, each in a transaction of its own: what the task has written so far
\* is committed.  If that fails, or a migration, the event bus goes on.
Migrate(r) ==
    /\ pc[r] = "applying"
    /\ todo[r] # <<>>
    /\ memory[r][Head(todo[r])].install = "Rising"
    /\ IF Conflict(session[r])
       THEN UNCHANGED <<serial, listed, record>>
       ELSE Flush(session[r])
    /\ session' = [session EXCEPT ![r] = OpenSession']
    /\ UNCHANGED <<pc, tasks, loaded, memory, todo, changes>>

\* A handler of an event enables or disables features.
HandlerChanges(r) ==
    /\ use.handlers
    /\ pc[r] = "applying"
    /\ CallManager(r, session[r])
    /\ UNCHANGED <<serial, listed, record, pc, loaded, memory, todo>>

\* the task fired again if handlers initiated further changes
Refired(r) == ApplyChangesTask(session[r].record)

Closing(r, label) ==
    /\ pc' = [pc EXCEPT ![r] = label]
    /\ session' = [session EXCEPT ![r] = NoSession]
    /\ loaded' = [loaded EXCEPT ![r] = {}]
    /\ memory' = [memory EXCEPT ![r] = Unknown]
    /\ todo' = [todo EXCEPT ![r] = <<>>]

EndTask(r) ==
    /\ pc[r] = "applying"
    /\ todo[r] = <<>>
    /\ Flush(session[r])
    /\ tasks' = [tasks EXCEPT ![r] = @ \o Refired(r)]
    /\ Closing(r, "ending")
    /\ UNCHANGED changes

\* An exception ends ApplyChanges before its next feature, or before it fires a task
\* again (LoadFeatures may throw, or an update of a record).  Unless it is fatal the event
\* bus keeps it: the task ends like any other and what it has written is committed.
\* "stopped" is "ending" for the code.
TaskStops(r) ==
    /\ pc[r] = "applying"
    /\ "task" \in use.failing
    /\ Flush(session[r])
    /\ Closing(r, "stopped")
    /\ UNCHANGED <<tasks, changes>>

\* A fatal exception, or a commit that fails, cancels the transaction of the task and
\* ends EndRequest: the task and those behind it are gone.
TaskFails(r) ==
    /\ pc[r] = "applying"
    /\ "task" \in use.failing \/ (todo[r] = <<>> /\ Conflict(session[r]))
    /\ tasks' = [tasks EXCEPT ![r] = <<>>]
    /\ Closing(r, "idle")
    /\ UNCHANGED <<serial, listed, record, changes>>

EndRequest(r) ==
    /\ pc[r] \in {"ending", "stopped"}
    /\ tasks[r] = <<>>
    /\ pc' = [pc EXCEPT ![r] = "idle"]
    /\ UNCHANGED <<serial, listed, record, session, tasks, loaded, memory, todo, changes>>

Next ==
    /\ UNCHANGED use
    /\ \E r \in use.requests :
          \/ Change(r) \/ Commit(r) \/ Rollback(r)
          \/ StartTask(r) \/ Migrate(r) \/ HandlerChanges(r) \/ ApplyNext(r)
          \/ EndTask(r) \/ TaskStops(r) \/ TaskFails(r)
          \/ EndRequest(r)

Spec == Init /\ [][Next]_vars

------------------------------------------------------------------------------
Sessions == [serial : 0..(use.changes + 1), listed : [Features -> 0..(use.changes + 1)],
             record : [Features -> FeatureStates], dirty : SUBSET Features,
             changed : BOOLEAN]

TypeOK ==
    /\ use \in Uses
    /\ serial \in 1..(use.changes + 1)
    /\ listed \in [Features -> 0..(use.changes + 1)]
    /\ record \in [Features -> FeatureStates]
    /\ pc \in [Requests -> {"idle", "open", "applying", "ending", "stopped"}]
    /\ session \in [Requests -> Sessions]
    /\ tasks \in [Requests -> Seq(SUBSET Features)]
    /\ loaded \in [Requests -> SUBSET Features]
    /\ memory \in [Requests -> [Features -> FeatureStates]]
    /\ todo \in [Requests -> Seq(Features)]
    /\ changes \in 0..use.changes

\* The dependencies of an enabled feature are enabled, whatever calls are made, of
\* several features at once, forced or not, by concurrent requests.
DependenciesEnabled == Closed(Enabled(listed))

\* requests that do not overlap
OneAtATime == \A q, r \in use.requests : q = r

\* ... and whose handlers leave the features alone
OneAfterAnother == OneAtATime /\ ~use.handlers

\* A feature is up only while its dependencies are: they are raised before it, and
\* not lowered before it, at every event that ApplyChanges fires.
UpIsSupported ==
    OneAfterAnother =>
        \A r \in Requests, f \in Features : \A d \in Deps[f] :
            LET enable == [g \in {d, f} |-> session[r].record[g].enable] IN
            /\ enable[f] = "Up" => enable[d] = "Up"
            /\ enable[f] = "Falling" => enable[d] # "Down"

Resting(s) == {s.install, s.enable} \cap {"Rising", "Falling"} = {}

\* the state records say what the descriptor says
Agree ==
    \A f \in Features :
        /\ Resting(record[f])
        /\ listed[f] > 0 <=> record[f].enable = "Up"
        /\ listed[f] > 0 => record[f].install = "Up"

\* The states st are those that a descriptor which lists l asks for, or on their way.
Follows(st, l) ==
    \A f \in Features :
        /\ st[f].install # "Falling"
        /\ l[f] > 0 => st[f].enable \in {"Rising", "Up"} /\ st[f].install \in {"Rising", "Up"}
        /\ l[f] = 0 => st[f].enable \in {"Falling", "Down", "Undefined"}

AtRest == \A r \in Requests : pc[r] = "idle"

\* no task fails or is stopped, nor fails because another request has changed features
\* since a handler of this one did
NoTaskFails == "task" \notin use.failing /\ (OneAtATime \/ ~use.handlers)

\* The state records never part from the descriptor: whatever fails or stops half-way, a
\* feature is where it is listed to be or on its way, for a later task to bring it there.
\* When the last task of a request has run to its end all are there, whatever failed
\* before.  A task that fails, or is stopped, may leave features rising or falling, until
\* features are changed again; if none does, none is once nothing is left to do, though
\* requests overlap.
SettledAtEnd ==
    /\ OneAfterAnother =>
        /\ Follows(record, listed)
        /\ \A r \in Requests : pc[r] = "ending" /\ tasks[r] = <<>> => Agree
    /\ AtRest /\ NoTaskFails => \A f \in Features : Resting(record[f])

\* The events of a feature are fired in a shell that has loaded it, for its own
\* handlers and migrations to run, provided that no request changes features twice.
HandlersLoaded ==
    OneAfterAnother /\ use.once =>
        \A r \in Requests : todo[r] # <<>> => Head(todo[r]) \in loaded[r]
==============================================================================
