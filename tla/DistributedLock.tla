--------------------------- MODULE DistributedLock ---------------------------
(***************************************************************************)
(* DistributedLockService and the DistributedLock objects it returns       *)
(* (src/src/Orchard/Tasks/Locking), for one lock name of one tenant.       *)
(*                                                                         *)
(* A machine is one environment identifier, that is one worker process of  *)
(* the web farm.  IDistributedLockService is an IDependency: every work    *)
(* context has an instance of its own, with its own dictionary _locks.  A  *)
(* thread runs one work context after the other (NewScope).  What the      *)
(* threads of a machine share is the .NET monitor of the interned lock     *)
(* name; what the machines share is the lock record in the database.      *)
(*                                                                         *)
(* Transactions of ExecuteOnSeparateTransaction are atomic steps that may  *)
(* fail: the loser of two racing inserts gets the exception of the unique  *)
(* key on Name, which is DbError here.                                     *)
(***************************************************************************)
EXTENDS Integers

CONSTANTS
    Machines,      \* environment identifiers
    Threads,       \* threads of execution of the whole farm
    Uses,          \* farms, and ways in which their callers use the lock
    NoThread,      \* the owner of a free monitor
    NoRecord,      \* the table has no row for the lock
    MaxEntries     \* bound: recursion count of a monitor

\* throws: AcquireLock rather than TryAcquireLock; timed: timeout has a value
AllCalls == [throws : BOOLEAN, timed : BOOLEAN]

NoLock == -1

\* A time of expiry is kept as the time left until then (Tick), Forever for a
\* null ValidUntilUtc: the model needs no bound on the clock.
Forever == -2
Expired == -1
TimesLeft == Nat \cup {Expired, Forever}

\* a row of DistributedLockRecord, as far as the service reads it
Records == [machine : Machines, left : TimesLeft]

\* machineOf: the machine a thread runs on; leases: the values of maxValidFor;
\* nested: callers acquire again while they hold the lock; reacquire: in a scope
\* that released it; dbMayFail: transactions may fail; mayCrash: processes may die
AllUses ==
    [machineOf : [Threads -> Machines], leases : SUBSET (Nat \cup {Forever}),
     calls : SUBSET AllCalls, nested : BOOLEAN, reacquire : BOOLEAN,
     dbMayFail : BOOLEAN, mayCrash : BOOLEAN]

ASSUME DistributedLockAssumption ==
    /\ \A u \in Uses : u \in AllUses
    /\ NoThread \notin Threads
    /\ NoRecord \notin Records
    /\ MaxEntries \in Nat

VARIABLES
    use,       \* the farm and its callers; never changes
    monitor,   \* monitor[m]: thread owning the monitor of machine m
    entries,   \* entries[m]: recursion count of that monitor
    locks,     \* locks[t]: _count of the object in _locks, or NoLock
    record,    \* the row of DistributedLockRecord, or NoRecord
    lease,     \* lease[t]: while t holds the lock, time left of what it was granted
    pc         \* where thread t is

vars == <<use, monitor, entries, locks, record, lease, pc>>

MachineOf == use.machineOf
Leases == use.leases
Calls == use.calls

Init ==
    /\ use \in Uses
    /\ monitor = [m \in Machines |-> NoThread]
    /\ entries = [m \in Machines |-> 0]
    /\ locks = [t \in Threads |-> NoLock]
    /\ record = NoRecord
    /\ lease = [t \in Threads |-> Expired]
    /\ pc = [t \in Threads |-> "idle"]

Holds(t) == locks[t] > 0

\* Mutants of ValidRecord: a null ValidUntilUtc is not valid; the time of
\* expiry is not looked at.
ValidRecord_NullExpired == record # NoRecord /\ record.left \in Nat

\* EnsureDistributedLockRecord finds a record that has not expired:
\* ValidUntilUtc == null || ValidUntilUtc >= UtcNow
ValidRecord == record # NoRecord /\ record.left # Expired

\* one unit of time passes
Elapse(left) == IF left \in Nat THEN left - 1 ELSE left

\* Mutant of ExitMonitor: the release exits twice.
ExitMonitor_Twice(m) ==
    /\ entries' = [entries EXCEPT ![m] = @ - 2]
    /\ monitor' = [monitor EXCEPT ![m] = NoThread]

\* Monitor.Exit by the thread that owns the monitor of machine m
ExitMonitor(m) ==
    /\ entries' = [entries EXCEPT ![m] = @ - 1]
    /\ monitor' = [monitor EXCEPT ![m] = IF entries[m] = 1 THEN NoThread ELSE @]

\* Mutant of MonitorFree: the name is not interned, so that every call locks an
\* object of its own.
MonitorFree_NotInterned(t) == TRUE

\* The monitor t wants is free or its own: monitors are reentrant.
MonitorFree(t) == monitor[MachineOf[t]] \in {NoThread, t}

\* Mutant of LastRelease: every Dispose releases, however deep the nesting.
LastRelease_Every(t) == TRUE

\* This Dispose brings _count to 0.
LastRelease(t) == locks[t] = 1

Goto(t, label) == pc' = [pc EXCEPT ![t] = label]

\* The caller invokes TryAcquireLock or AcquireLock.
Call(t) ==
    /\ pc[t] = "idle"
    /\ Holds(t) => use.nested
    /\ locks[t] = 0 => use.reacquire
    /\ Goto(t, "entering")
    /\ UNCHANGED <<use, monitor, entries, locks, record, lease>>

\* Monitor.TryEnter succeeds.
EnterMonitor(t) ==
    LET m == MachineOf[t] IN
    /\ pc[t] = "entering"
    /\ MonitorFree(t)
    /\ entries[m] < MaxEntries
    /\ monitor' = [monitor EXCEPT ![m] = t]
    /\ entries' = [entries EXCEPT ![m] = @ + 1]
    /\ Goto(t, "inside")
    /\ UNCHANGED <<use, locks, record, lease>>

\* Monitor.TryEnter times out: null or a TimeoutException, nothing to undo.
\* The kind of call matters only where it times out, and is chosen there.
MonitorTimeout(t) ==
    /\ pc[t] = "entering"
    /\ \E c \in Calls : c.timed
    /\ ~MonitorFree(t)
    /\ Goto(t, "idle")
    /\ UNCHANGED <<use, monitor, entries, locks, record, lease>>

\* The dictionary has a lock object: taken for a reentrance, count incremented.
Reenter(t, d) ==
    /\ pc[t] = "inside"
    /\ locks[t] # NoLock
    /\ locks' = [locks EXCEPT ![t] = @ + 1]
    /\ lease' = IF Holds(t) THEN lease ELSE [lease EXCEPT ![t] = d]
    /\ Goto(t, "idle")
    /\ UNCHANGED <<use, monitor, entries, record>>

\* The lock object is created and added to the dictionary.
Granted(t, d) ==
    /\ locks' = [locks EXCEPT ![t] = 1]
    /\ lease' = [lease EXCEPT ![t] = d]
    /\ Goto(t, "idle")

Attempting(t) == pc[t] \in {"inside", "waiting"} /\ locks[t] = NoLock

\* EnsureDistributedLockRecord creates the record in place of an expired one.
CreateRecord(t, d) ==
    /\ Attempting(t)
    /\ ~ValidRecord
    /\ record' = [machine |-> MachineOf[t], left |-> d]
    /\ Granted(t, d)
    /\ UNCHANGED <<use, monitor, entries>>

\* EnsureDistributedLockRecord finds a valid record of its own machine.
ReuseRecord(t, d) ==
    /\ Attempting(t)
    /\ ValidRecord
    /\ record.machine = MachineOf[t]
    /\ Granted(t, d)
    /\ UNCHANGED <<use, monitor, entries, record>>

\* Another machine has a valid record: RepeatUntilTimeout delays and retries.
AwaitRecord(t) ==
    /\ pc[t] = "inside" /\ locks[t] = NoLock
    /\ ValidRecord
    /\ record.machine # MachineOf[t]
    /\ Goto(t, "waiting")
    /\ UNCHANGED <<use, monitor, entries, locks, record, lease>>

\* The transaction throws: the catch clause exits the monitor and rethrows.
DbError(t) ==
    /\ use.dbMayFail
    /\ Attempting(t)
    /\ ExitMonitor(MachineOf[t])
    /\ Goto(t, "idle")
    /\ UNCHANGED <<use, locks, record, lease>>

\* The waited time reaches the timeout: AcquireLock throws, and the catch
\* clause exits the monitor; TryAcquireLock returns null, and nothing does.
GiveUp(t, c) ==
    /\ pc[t] = "waiting"
    /\ c.timed
    /\ IF c.throws THEN ExitMonitor(MachineOf[t])
                         ELSE UNCHANGED <<monitor, entries>>
    /\ Goto(t, "idle")
    /\ UNCHANGED <<use, locks, record, lease>>

\* DistributedLock.Dispose; the release action exits the monitor once and
\* goes on to delete the record.
Dispose(t) ==
    /\ pc[t] = "idle"
    /\ Holds(t)
    /\ locks' = [locks EXCEPT ![t] = @ - 1]
    /\ IF LastRelease(t)
       THEN /\ ExitMonitor(MachineOf[t])
            /\ Goto(t, "deleting")
            /\ lease' = [lease EXCEPT ![t] = Expired]
       ELSE UNCHANGED <<monitor, entries, lease, pc>>
    /\ UNCHANGED <<use, record>>

\* DeleteDistributedLockRecord deletes the record of that name, whose ever it
\* is; a missing record is an exception it swallows.
DeleteRecord(t) ==
    /\ pc[t] = "deleting"
    /\ record' = NoRecord
    /\ Goto(t, "idle")
    /\ UNCHANGED <<use, monitor, entries, locks, lease>>

\* The transaction of DeleteDistributedLockRecord fails: a warning is logged.
DeleteFails(t) ==
    /\ use.dbMayFail
    /\ pc[t] = "deleting"
    /\ Goto(t, "idle")
    /\ UNCHANGED <<use, monitor, entries, locks, record, lease>>

\* The work context ends and the thread starts another one.
NewScope(t) ==
    /\ pc[t] = "idle"
    /\ locks[t] = 0
    /\ locks' = [locks EXCEPT ![t] = NoLock]
    /\ UNCHANGED <<use, monitor, entries, record, lease, pc>>

\* A worker process dies; its record stays in the database.
Crash(m) ==
    /\ use.mayCrash
    /\ \E t \in Threads : MachineOf[t] = m /\ pc[t] # "dead"
    /\ monitor' = [monitor EXCEPT ![m] = NoThread]
    /\ entries' = [entries EXCEPT ![m] = 0]
    /\ locks' = [t \in Threads |-> IF MachineOf[t] = m THEN NoLock ELSE locks[t]]
    /\ pc' = [t \in Threads |-> IF MachineOf[t] = m THEN "dead" ELSE pc[t]]
    /\ lease' = [t \in Threads |-> IF MachineOf[t] = m THEN Expired ELSE lease[t]]
    /\ UNCHANGED <<use, record>>

Tick ==
    /\ record' = IF record = NoRecord THEN NoRecord
                 ELSE [machine |-> record.machine, left |-> Elapse(record.left)]
    /\ lease' = [t \in Threads |-> Elapse(lease[t])]
    /\ UNCHANGED <<use, monitor, entries, locks, pc>>

\* What the service does by itself once it is called
Serve(t) ==
    \/ EnterMonitor(t) \/ MonitorTimeout(t)
    \/ \E d \in Leases : Reenter(t, d) \/ CreateRecord(t, d) \/ ReuseRecord(t, d)
    \/ AwaitRecord(t) \/ DbError(t)
    \/ \E c \in Calls : GiveUp(t, c)
    \/ DeleteRecord(t) \/ DeleteFails(t)

Next ==
    \/ \E t \in Threads :
          \/ Call(t)
          \/ Serve(t)
          \/ Dispose(t)
          \/ NewScope(t)
    \/ \E m \in Machines : Crash(m)
    \/ Tick

Spec == Init /\ [][Next]_vars

\* A thread the scheduler runs completes its calls; callers dispose of the
\* locks they hold (the using statements of the callers); time passes.
Fairness ==
    /\ \A t \in Threads : WF_vars(Serve(t)) /\ WF_vars(Dispose(t))
    /\ WF_vars(Tick)

FairSpec == Spec /\ Fairness

------------------------------------------------------------------------------
Labels == {"idle", "entering", "inside", "waiting", "deleting", "dead"}

TypeOK ==
    /\ use \in Uses
    /\ monitor \in [Machines -> Threads \cup {NoThread}]
    /\ entries \in [Machines -> Nat]
    /\ locks \in [Threads -> Nat \cup {NoLock}]
    /\ record \in Records \cup {NoRecord}
    /\ lease \in [Threads -> TimesLeft]
    /\ pc \in [Threads -> Labels]

\* Two threads of one machine never hold the lock together: the local monitor
\* is taken before the record is looked at and kept until the last Dispose,
\* whatever expires, fails, is nested or is acquired again.
LocalExclusion ==
    \A t, u \in Threads :
        t # u /\ MachineOf[t] = MachineOf[u] => ~(Holds(t) /\ Holds(u))

\* The lock is held by t and what it was granted has not run out.
HoldsInForce(t) == Holds(t) /\ lease[t] # Expired

\* "critical sections that should only ever be executed by a single thread of
\* execution across a whole web farm" (IDistributedLockService.cs): no two
\* threads hold the lock while what each was granted has not run out.
FarmExclusion ==
    \A t, u \in Threads : t # u => ~(HoldsInForce(t) /\ HoldsInForce(u))

\* What a farm and its callers must keep to for that: one thread on each machine
\* takes the lock, no scope acquires again a lock it released, no lease expires.
Disciplined ==
    /\ \A t, u \in Threads : MachineOf[t] = MachineOf[u] => t = u
    /\ ~use.reacquire
    /\ Leases \subseteq {Forever}

\* FarmExclusion for disciplined callers, through nesting, failing transactions
\* and crashes of the other machines.
DisciplinedExclusion == Disciplined => FarmExclusion

\* For disciplined callers the record in force is the one of the machine whose
\* thread holds the lock: no release deletes it, no other machine replaces it.
HolderHasRecord ==
    Disciplined => \A t \in Threads :
        HoldsInForce(t) => ValidRecord /\ record.machine = MachineOf[t]

\* No caller nests, and no caller gives up without an exception.
Plain == ~use.nested /\ \A c \in Calls : c.timed => c.throws

InCall(t) == pc[t] \in {"entering", "inside", "waiting"}

\* Leases end, transactions do not fail and no call times out.
Served == Plain /\ Leases \subseteq Nat /\ ~use.dbMayFail /\ \A c \in Calls : ~c.timed

==============================================================================
