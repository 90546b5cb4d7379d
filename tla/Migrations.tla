------------------------------- MODULE Migrations -------------------------------
(***************************************************************************)
(* Data migrations (Orchard/Data/Migration): a feature has migration       *)
(* classes, a class has the steps Create, UpdateFrom1, ..., and a record   *)
(* in the database with the version that was reached.  Every migration     *)
(* runs in a transaction, which is committed when the next one begins.     *)
(*                                                                         *)
(* Scopes run migrations, each with a manager of its own: the activation   *)
(* of a shell, on machines that share a distributed lock, and without it   *)
(* the Installing events of a task and the Migration step of a recipe.     *)
(* The recursion of Update is the list of the calls that are left to do.   *)
(***************************************************************************)
EXTENDS Naturals, Sequences, SequencesExt, FiniteSets

CONSTANTS
    Scopes,
    Features,
    Classes,        \* migration classes
    Uses            \* what there is to migrate, by whom, and what may happen

\* A class belongs to one feature, and the container has an instance of it.
ASSUME MigrationsAssumption ==
    /\ "none" \notin Classes /\ "none" \notin Scopes
    /\ \A u \in Uses :
        /\ u.installed \in [Classes -> Nat] /\ u.latest \in [Classes -> Nat]
        /\ \A s \in Scopes : u.scopes[s].plan \in Seq(Features)
        /\ u.dependencies \in [Features -> Seq(Features)]
        /\ u.classes \in [Features -> Seq(Classes)]
        /\ \A c \in Classes : \E f \in Features :
            \A g \in Features : c \in Range(u.classes[g]) <=> g = f
        /\ u.order \in Seq(Classes) /\ Classes \subseteq Range(u.order)

\* No feature depends on itself through others.
ASSUME AcyclicAssumption ==
    /\ IsFiniteSet(Features)
    /\ \A u \in Uses : \E rank \in [Features -> 1..Cardinality(Features)] :
        \A f \in Features : \A d \in Range(u.dependencies[f]) : rank[d] < rank[f]

VARIABLES
    use,        \* the one of Uses that this behaviour is about
    version,    \* version[c]: the committed record of c, 0 when there is none
    steps,      \* steps[c]: the steps of c that are committed, in their order
    holder,     \* the scope that has the lock of AutomaticDataMigrations, or none
    at,         \* where a scope is
    plan,       \* the features that a scope has yet to update
    calls,      \* what is left of the call of Update that runs
    processed,  \* _processedFeatures
    open,       \* the transaction of a scope
    failed      \* features whose update failed in a scope, or a commit of theirs

vars == <<use, version, steps, holder, at, plan, calls, processed, open, failed>>
database == <<version, steps>>
progress == <<plan, calls, processed, failed>>

NoScope == "none"

\* A transaction has a class that it migrates, the version of it that was read, the
\* one that was reached, the steps that it wrote, and the record when it wrote that.
NoTransaction == [class |-> "none"]
Transaction(c, v) ==
    [class |-> c, read |-> v, current |-> v, wrote |-> <<>>, recorded |-> FALSE]

Init ==
    /\ use \in Uses
    /\ version = use.installed
    /\ steps = [c \in Classes |-> [i \in 1..use.installed[c] |-> i - 1]]
    /\ holder = NoScope
    /\ at = [s \in Scopes |-> "ready"]
    /\ plan = [s \in Scopes |-> use.scopes[s].plan]
    /\ calls = [s \in Scopes |-> <<>>]
    /\ processed = [s \in Scopes |-> {}]
    /\ open = [s \in Scopes |-> NoTransaction]
    /\ failed = [s \in Scopes |-> {}]

------------------------------------------------------------------------------
Kind(s) == use.scopes[s].kind
\* The step of a recipe that says "*" lists the features when it starts, as an activation
\* does that has the lock.
Lists(s) == Kind(s) \in {"activation", "all"}
FeatureOf(c) == CHOOSE f \in Features : c \in Range(use.classes[f])

\* The other scopes whose open transaction is at class c.
Rivals(s, c) == {o \in Scopes \ {s} : open[o].class = c}

\* A row that another transaction has inserted is waited for, unless the database
\* reads snapshots; one that NHibernate updates is written when it commits.
Readable(s, c) ==
    use.snapshot \/ \A o \in Rivals(s, c) : ~(open[o].recorded /\ open[o].read = 0)

\* The database lets one transaction change what the steps of c change.
Writable(s, c) == \A o \in Rivals(s, c) : open[o].wrote = <<>>

\* Mutant of HasStep: an update from the latest version.
HasStep_Latest(c, v) == v <= use.latest[c]
\* UpdateFrom the version that is reached, and Create when it is 0.
HasStep(c, v) == v < use.latest[c]

\* A table that is there cannot be created; data can be written again.
StepConflicts(c, v) == ~use.data /\ v \in Range(steps[c])

\* GetFeaturesThatNeedUpdate: a feature for each class with a step left, in the order
\* of the classes.
NeedUpdate ==
    LET left == {i \in DOMAIN use.order : HasStep(use.order[i], version[use.order[i]])}
        next == CHOOSE next \in [1..Cardinality(left) -> left] :
                    \A i, j \in 1..Cardinality(left) : i < j => next[i] < next[j]
    IN [i \in 1..Cardinality(left) |-> FeatureOf(use.order[next[i]])]

\* Mutant of Dependencies: only the feature itself is updated.
Dependencies_None(f) == <<>>
Dependencies(f) == [i \in DOMAIN use.dependencies[f] |->
                        [update |-> TRUE, of |-> use.dependencies[f][i]]]
Migrate(f) == [i \in DOMAIN use.classes[f] |->
                        [update |-> FALSE, of |-> use.classes[f][i]]]

\* The transaction of s is committed, if it has one.
Committed(s) ==
    /\ version' = [c \in Classes |-> IF open[s].class = c /\ open[s].recorded
                                     THEN open[s].current ELSE version[c]]
    /\ steps' = [c \in Classes |-> IF open[s].class = c THEN steps[c] \o open[s].wrote
                                   ELSE steps[c]]

Running(s) == at[s] \notin {"ready", "ended", "dead"}

------------------------------------------------------------------------------
\* TryAcquireLock, which gives up after 250 milliseconds: the shell starts anyway.
Activate(s) ==
    /\ at[s] = "ready" /\ Kind(s) = "activation"
    /\ \/ holder = NoScope /\ holder' = s /\ at' = [at EXCEPT ![s] = "listing"]
       \/ holder # NoScope /\ holder' = holder /\ at' = [at EXCEPT ![s] = "ended"]
    /\ UNCHANGED <<use, database, progress, open>>

ListFeatures(s) ==
    /\ at[s] = "listing" /\ \A c \in Classes : Readable(s, c)
    /\ plan' = [plan EXCEPT ![s] = NeedUpdate]
    /\ at' = [at EXCEPT ![s] = "calling"]
    /\ UNCHANGED <<use, database, holder, calls, processed, failed, open>>

\* Installing events, or the step of a recipe: without a lock.
Begin(s) ==
    /\ at[s] = "ready" /\ Kind(s) # "activation"
    /\ at' = [at EXCEPT ![s] = IF Lists(s) THEN "listing" ELSE "calling"]
    /\ UNCHANGED <<use, database, holder, progress, open>>

Call(s) ==
    /\ at[s] = "calling" /\ calls[s] = <<>> /\ plan[s] # <<>>
    /\ calls' = [calls EXCEPT ![s] = <<[update |-> TRUE, of |-> Head(plan[s])]>>]
    /\ plan' = [plan EXCEPT ![s] = Tail(@)]
    /\ UNCHANGED <<use, database, holder, at, processed, failed, open>>

Calls(s) == at[s] = "calling" /\ calls[s] # <<>>

\* Update(feature): its dependencies, and then its own migrations.
UpdateFeature(s) ==
    /\ Calls(s) /\ Head(calls[s]).update
    /\ LET f == Head(calls[s]).of IN
       IF f \in processed[s]
       THEN /\ calls' = [calls EXCEPT ![s] = Tail(@)]
            /\ UNCHANGED processed
       ELSE /\ calls' = [calls EXCEPT ![s] = Dependencies(f) \o Migrate(f) \o Tail(@)]
            /\ processed' = [processed EXCEPT ![s] = @ \cup {f}]
    /\ UNCHANGED <<use, database, holder, at, plan, failed, open>>

\* Mutant of RequireNew: the transaction that is open goes on.
RequireNew_Demand(s) ==
    /\ Calls(s) /\ ~Head(calls[s]).update
    /\ at' = [at EXCEPT ![s] = "reading"]
    /\ UNCHANGED <<use, database, holder, open, progress>>
\* The transaction of the migration before is committed.
RequireNew(s) ==
    /\ Calls(s) /\ ~Head(calls[s]).update
    /\ Committed(s)
    /\ open' = [open EXCEPT ![s] = NoTransaction]
    /\ at' = [at EXCEPT ![s] = "reading"]
    /\ UNCHANGED <<use, holder, progress>>

ReadVersion(s) ==
    LET c == Head(calls[s]).of IN
    /\ at[s] = "reading" /\ Readable(s, c)
    /\ open' = [open EXCEPT ![s] = Transaction(c, version[c])]
    /\ at' = [at EXCEPT ![s] = "migrating"]
    /\ UNCHANGED <<use, database, holder, progress>>

StepIsNext(s) == at[s] = "migrating" /\ HasStep(open[s].class, open[s].current)

Stepped(t) ==
    [class |-> t.class, read |-> t.read, current |-> t.current + 1,
     wrote |-> Append(t.wrote, t.current), recorded |-> t.recorded]

ApplyStep(s) ==
    /\ StepIsNext(s) /\ Writable(s, open[s].class)
    /\ ~StepConflicts(open[s].class, open[s].current)
    /\ open' = [open EXCEPT ![s] = Stepped(@)]
    /\ UNCHANGED <<use, database, holder, at, progress>>

\* Mutant of Recorded: a version that was there is not written again.
Recorded_Once(t) == t.read = 0
Recorded(t) == t.current # t.read

Written(t) ==
    [class |-> t.class, read |-> t.read, current |-> t.current,
     wrote |-> t.wrote, recorded |-> Recorded(t)]

\* No step is left: the version is written, unless it is the one that was read.
Record(s) ==
    /\ at[s] = "migrating" /\ ~HasStep(open[s].class, open[s].current)
    /\ open' = [open EXCEPT ![s] = Written(@)]
    /\ calls' = [calls EXCEPT ![s] = Tail(@)]
    /\ at' = [at EXCEPT ![s] = "calling"]
    /\ UNCHANGED <<use, database, holder, plan, processed, failed>>

\* What becomes of an exception that Update throws: it is logged by the activation and
\* kept by the event bus, and the next feature follows; it ends the step of a recipe.
Throws(s) ==
    /\ calls' = [calls EXCEPT ![s] = <<>>]
    /\ at' = [at EXCEPT ![s] = IF Kind(s) \in {"step", "all"} THEN "closing" ELSE "calling"]
    /\ UNCHANGED <<use, holder, plan, processed>>

Fails(s, c) == failed' = [failed EXCEPT ![s] = @ \cup {FeatureOf(c)}]

\* Mutant of FailStep: the transaction is not cancelled.
FailStep_Kept(s) ==
    /\ StepIsNext(s)
    /\ \/ "fail" \in use.may
       \/ Writable(s, open[s].class) /\ StepConflicts(open[s].class, open[s].current)
    /\ Fails(s, open[s].class)
    /\ Throws(s)
    /\ UNCHANGED <<database, open>>
\* A step throws, and its transaction is cancelled.
FailStep(s) ==
    /\ StepIsNext(s)
    /\ \/ "fail" \in use.may
       \/ Writable(s, open[s].class) /\ StepConflicts(open[s].class, open[s].current)
    /\ Fails(s, open[s].class)
    /\ open' = [open EXCEPT ![s] = NoTransaction]
    /\ Throws(s)
    /\ UNCHANGED database

\* The thread is aborted: a fatal exception, which cancels nothing.
Abort(s) ==
    /\ "abort" \in use.may /\ StepIsNext(s)
    /\ Fails(s, open[s].class)
    /\ calls' = [calls EXCEPT ![s] = <<>>]
    /\ at' = [at EXCEPT ![s] = "closing"]
    /\ UNCHANGED <<use, database, holder, plan, processed, open>>

\* The commit of the migration before fails: in the update of the feature of the next
\* one, which ends, or in Dispose.
CommitFails(s) ==
    /\ "commit" \in use.may /\ open[s] # NoTransaction
    /\ \/ /\ Calls(s) /\ ~Head(calls[s]).update
          /\ failed' = [failed EXCEPT ![s] =
                @ \cup {FeatureOf(open[s].class), FeatureOf(Head(calls[s]).of)}]
          /\ Throws(s)
       \/ /\ at[s] = "closing" /\ holder # s
          /\ Fails(s, open[s].class)
          /\ at' = [at EXCEPT ![s] = "ended"]
          /\ UNCHANGED <<use, holder, plan, calls, processed>>
    /\ open' = [open EXCEPT ![s] = NoTransaction]
    /\ UNCHANGED database

Finish(s) ==
    /\ at[s] = "calling" /\ calls[s] = <<>> /\ plan[s] = <<>>
    /\ at' = [at EXCEPT ![s] = "closing"]
    /\ UNCHANGED <<use, database, holder, progress, open>>

\* The lock is disposed before the scope, and with it the last transaction, is.
Unlock(s) ==
    /\ at[s] = "closing" /\ holder = s
    /\ holder' = NoScope
    /\ UNCHANGED <<use, database, at, progress, open>>

Close(s) ==
    /\ at[s] = "closing" /\ holder # s
    /\ Committed(s)
    /\ open' = [open EXCEPT ![s] = NoTransaction]
    /\ at' = [at EXCEPT ![s] = "ended"]
    /\ UNCHANGED <<use, holder, progress>>

Crash(s) ==
    /\ "crash" \in use.may /\ Running(s)
    /\ at' = [at EXCEPT ![s] = "dead"]
    /\ open' = [open EXCEPT ![s] = NoTransaction]
    /\ UNCHANGED <<use, database, holder, progress>>

\* The validity of the lock of a process that died is over.
Expire ==
    /\ holder # NoScope /\ at[holder] = "dead"
    /\ holder' = NoScope
    /\ UNCHANGED <<use, database, at, progress, open>>

Run(s) ==
    \/ ListFeatures(s) \/ Call(s) \/ UpdateFeature(s) \/ RequireNew(s) \/ ReadVersion(s)
    \/ ApplyStep(s) \/ Record(s) \/ FailStep(s) \/ Finish(s) \/ Unlock(s) \/ Close(s)

Next ==
    \/ \E s \in Scopes :
        Activate(s) \/ Begin(s) \/ Run(s) \/ Abort(s) \/ CommitFails(s) \/ Crash(s)
    \/ Expire

Spec == Init /\ [][Next]_vars

\* A scope that has begun goes on.
FairSpec == Spec /\ \A s \in Scopes : WF_vars(Run(s))

------------------------------------------------------------------------------
\* Every variable holds what its declaration says.
TypeOK ==
    /\ version \in [Classes -> Nat]
    /\ steps \in [Classes -> Seq(Nat)]
    /\ holder \in Scopes \cup {NoScope}
    /\ at \in [Scopes -> {"ready", "listing", "calling", "reading", "migrating", "closing",
                          "ended", "dead"}]
    /\ \A s \in Scopes :
        /\ plan[s] \in Seq(Features)
        /\ \A i \in DOMAIN calls[s] :
            calls[s][i].of \in IF calls[s][i].update THEN Features ELSE Classes
        /\ processed[s] \subseteq Features /\ failed[s] \subseteq Features
        /\ at[s] = "migrating" => open[s].class \in Classes
        /\ open[s] # NoTransaction =>
            /\ open[s].read <= open[s].current
            /\ open[s].read # open[s].current => open[s].current <= use.latest[open[s].class]

\* Only one scope, if any, has begun.
Alone == \E s \in Scopes : \A o \in Scopes \ {s} : at[o] = "ready"

\* Every step has been applied that comes before the recorded version, in that order
\* and once, and no other, whatever fails and whoever runs migrations at a time.  It
\* takes a database that refuses to apply a step twice when there are several scopes,
\* and nothing that aborts a step.
WholeMigrations ==
    /\ "abort" \notin use.may
    /\ ~use.data \/ Alone
    => \A c \in Classes : steps[c] = [i \in 1..version[c] |-> i - 1]

UpToDate(f) == \A c \in Range(use.classes[f]) : version[c] >= use.latest[c]

Needs(f) == Range(use.dependencies[f])

\* The features that f depends on, directly or not.
Below(f) ==
    {d \in Features : \A S \in SUBSET Features :
        Needs(f) \subseteq S /\ (\A g \in S : Needs(g) \subseteq S) => d \in S}

\* No step of a feature runs before those of all that it depends on are committed, by
\* this scope or by another, unless one of these failed in the scope before: then the
\* dependency counts as processed.  Features that depend on each other do not exist.
DependenciesFirst ==
    \A s \in Scopes :
        at[s] = "migrating" /\ open[s].wrote # <<>> =>
            LET below == Below(FeatureOf(open[s].class))
            IN (\A d \in below : UpToDate(d)) \/ below \cap failed[s] # {}

\* What a scope is there to update: all that there is, when it got the lock.
Asked(s) ==
    IF ~Lists(s) THEN Range(use.scopes[s].plan)
    ELSE IF Kind(s) = "all" \/ processed[s] # {} THEN Features ELSE {}

\* A scope that ends without a failure leaves what it was asked for up to date, what
\* others have left unfinished included.
LeavesUpToDate ==
    \A s \in Scopes :
        at[s] = "ended" /\ failed[s] = {} => \A f \in Asked(s) : UpToDate(f)

\* No scope waits for ever for another one: each holds the locks of one migration.
EveryScopeEnds ==
    \A s \in Scopes : Running(s) ~> at[s] \in {"ended", "dead"}
==============================================================================
