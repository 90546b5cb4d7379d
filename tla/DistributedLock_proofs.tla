------------------------ MODULE DistributedLock_proofs ------------------------
(***************************************************************************)
(* Proofs about DistributedLock, for every farm, every number of threads   *)
(* and every way the callers use the service: the types, and the exclusion *)
(* of the threads of one machine.  Exclusion across the farm is proved for *)
(* the callers that keep to a discipline (Disciplined).                    *)
(***************************************************************************)
EXTENDS DistributedLock, TLAPS

\* A monitor is owned exactly while its recursion count is positive.
OwnedWhileEntered ==
    \A m \in Machines : entries[m] > 0 <=> monitor[m] # NoThread

\* A thread that holds the lock, or is past Monitor.TryEnter, owns the monitor.
HolderOwnsMonitor ==
    \A t \in Threads :
        Holds(t) \/ pc[t] \in {"inside", "waiting"} => monitor[MachineOf[t]] = t

\* A thread that waits for the record, or deletes it, does not hold the lock.
NotHolding ==
    \A t \in Threads :
        /\ pc[t] = "waiting" => locks[t] = NoLock
        /\ pc[t] = "deleting" => ~Holds(t)

\* The inductive invariant behind LocalExclusion.
LocalInv == TypeOK /\ OwnedWhileEntered /\ HolderOwnsMonitor /\ NotHolding

\* Every thread runs on a machine.
LEMMA MachinesOfThreads == TypeOK => MachineOf \in [Threads -> Machines]
  BY DistributedLockAssumption DEF TypeOK, AllUses, MachineOf

\* The leases that callers ask for are times.
LEMMA LeasesAreTimes == TypeOK => Leases \subseteq TimesLeft
  BY DistributedLockAssumption DEF TypeOK, AllUses, Leases, TimesLeft

\* The farm and its callers never change.
LEMMA UseNeverChanges ==
  [Next]_vars => use' = use /\ MachineOf' = MachineOf /\ Leases' = Leases
<1> SUFFICES ASSUME [Next]_vars PROVE use' = use
  BY DEF MachineOf, Leases
<1> QED
  BY DEF vars, Next, Serve, Call, EnterMonitor, MonitorTimeout, Reenter, CreateRecord,
         ReuseRecord, AwaitRecord, DbError, GiveUp, Dispose, DeleteRecord, DeleteFails,
         NewScope, Crash, Tick

\* No monitor is owned at the start.
LEMMA InitLocalInv == Init => LocalInv
  BY DistributedLockAssumption
     DEF Init, LocalInv, TypeOK, OwnedWhileEntered, HolderOwnsMonitor, NotHolding,
         Holds, NoLock, Expired, TimesLeft, Labels, AllUses, MachineOf

\* What the actions that exit the monitor of a thread's machine rely on.
LEMMA ExitKeepsOwned ==
  ASSUME LocalInv, NEW t \in Threads, monitor[MachineOf[t]] = t,
         ExitMonitor(MachineOf[t])
  PROVE  /\ monitor' \in [Machines -> Threads \cup {NoThread}]
         /\ entries' \in [Machines -> Nat]
         /\ OwnedWhileEntered'
         /\ \A u \in Threads :
               u # t /\ monitor[MachineOf[u]] = u => monitor'[MachineOf[u]] = u
<1> DEFINE m == MachineOf[t]
<1>1. m \in Machines /\ entries[m] \in Nat /\ entries[m] > 0
  BY MachinesOfThreads, DistributedLockAssumption DEF LocalInv, TypeOK, OwnedWhileEntered
<1>2. /\ entries' = [entries EXCEPT ![m] = @ - 1]
      /\ monitor' = [monitor EXCEPT ![m] = IF entries[m] = 1 THEN NoThread ELSE @]
  BY DEF ExitMonitor
<1>3. /\ monitor \in [Machines -> Threads \cup {NoThread}]
      /\ entries \in [Machines -> Nat]
  BY DEF LocalInv, TypeOK
<1>4. monitor' \in [Machines -> Threads \cup {NoThread}]
  BY <1>1, <1>2, <1>3
<1>5. entries' \in [Machines -> Nat]
  BY <1>1, <1>2, <1>3
<1>6. OwnedWhileEntered'
  <2> SUFFICES ASSUME NEW k \in Machines
               PROVE  entries'[k] > 0 <=> monitor'[k] # NoThread
    BY DEF OwnedWhileEntered
  <2>1. CASE k = m
    BY <1>1, <1>2, <1>3, <2>1, DistributedLockAssumption
  <2>2. CASE k # m
    BY <1>1, <1>2, <1>3, <2>2 DEF LocalInv, OwnedWhileEntered
  <2> QED BY <2>1, <2>2
<1>7. \A u \in Threads :
         u # t /\ monitor[MachineOf[u]] = u => monitor'[MachineOf[u]] = u
  BY <1>1, <1>2, <1>3, DistributedLockAssumption
<1> QED BY <1>4, <1>5, <1>6, <1>7

\* Every step of the service, and every crash, keeps LocalInv.
LEMMA NextLocalInv == LocalInv /\ [Next]_vars => LocalInv'
<1> SUFFICES ASSUME LocalInv, [Next]_vars PROVE LocalInv'
  OBVIOUS
<1> USE DistributedLockAssumption
<1>0. /\ use' = use /\ MachineOf' = MachineOf
      /\ MachineOf \in [Threads -> Machines] /\ Leases \subseteq TimesLeft
  BY MachinesOfThreads, LeasesAreTimes, UseNeverChanges DEF LocalInv
<1> USE <1>0
<1> USE DEF LocalInv, TypeOK, Holds, NoLock, Expired, Forever, TimesLeft, Labels
<1>1. CASE UNCHANGED vars
  BY <1>1 DEF vars, OwnedWhileEntered, HolderOwnsMonitor, NotHolding
<1>2. ASSUME NEW t \in Threads, Call(t) PROVE LocalInv'
  BY <1>2 DEF Call, Goto, OwnedWhileEntered, HolderOwnsMonitor, NotHolding
<1>3. ASSUME NEW t \in Threads, EnterMonitor(t) PROVE LocalInv'
  <2> DEFINE m == MachineOf[t]
  <2>1. /\ m \in Machines
        /\ monitor[m] \in {NoThread, t}
        /\ monitor' = [monitor EXCEPT ![m] = t]
        /\ entries' = [entries EXCEPT ![m] = @ + 1]
        /\ pc' = [pc EXCEPT ![t] = "inside"]
        /\ pc[t] = "entering"
        /\ UNCHANGED <<locks, record, lease>>
    BY <1>3 DEF EnterMonitor, MonitorFree, Goto
  <2>2. TypeOK'
    BY <2>1
  <2>3. OwnedWhileEntered'
    BY <2>1 DEF OwnedWhileEntered
  <2>4. HolderOwnsMonitor'
    BY <2>1 DEF HolderOwnsMonitor
  <2>5. NotHolding'
    BY <2>1 DEF NotHolding
  <2> QED BY <2>2, <2>3, <2>4, <2>5
<1>4. ASSUME NEW t \in Threads, MonitorTimeout(t) PROVE LocalInv'
  BY <1>4 DEF MonitorTimeout, Goto, OwnedWhileEntered, HolderOwnsMonitor, NotHolding
<1>5. ASSUME NEW t \in Threads, NEW d \in Leases, Reenter(t, d) PROVE LocalInv'
  BY <1>5 DEF Reenter, Goto, OwnedWhileEntered, HolderOwnsMonitor, NotHolding
<1>6. ASSUME NEW t \in Threads, NEW d \in Leases, CreateRecord(t, d)
      PROVE  LocalInv'
  <2>1. record' \in Records
    BY <1>6 DEF CreateRecord, Records
  <2> QED
    BY <1>6, <2>1
       DEF CreateRecord, Granted, Attempting, Goto, OwnedWhileEntered,
           HolderOwnsMonitor, NotHolding
<1>7. ASSUME NEW t \in Threads, NEW d \in Leases, ReuseRecord(t, d)
      PROVE  LocalInv'
  BY <1>7
     DEF ReuseRecord, Granted, Attempting, Goto, OwnedWhileEntered,
         HolderOwnsMonitor, NotHolding
<1>8. ASSUME NEW t \in Threads, AwaitRecord(t) PROVE LocalInv'
  BY <1>8 DEF AwaitRecord, Goto, OwnedWhileEntered, HolderOwnsMonitor, NotHolding
<1>9. ASSUME NEW t \in Threads, DbError(t) PROVE LocalInv'
  <2>1. monitor[MachineOf[t]] = t
    BY <1>9 DEF DbError, Attempting, HolderOwnsMonitor
  <2>2. /\ monitor' \in [Machines -> Threads \cup {NoThread}]
        /\ entries' \in [Machines -> Nat]
        /\ OwnedWhileEntered'
        /\ \A u \in Threads :
              u # t /\ monitor[MachineOf[u]] = u => monitor'[MachineOf[u]] = u
    BY <1>9, <2>1, ExitKeepsOwned DEF DbError
  <2> QED
    BY <1>9, <2>2 DEF DbError, Attempting, Goto, HolderOwnsMonitor, NotHolding
<1>10. ASSUME NEW t \in Threads, NEW c \in Calls, GiveUp(t, c) PROVE LocalInv'
  <2>1. monitor[MachineOf[t]] = t /\ locks[t] = NoLock
    BY <1>10 DEF GiveUp, HolderOwnsMonitor, NotHolding
  <2>2. /\ monitor' \in [Machines -> Threads \cup {NoThread}]
        /\ entries' \in [Machines -> Nat]
        /\ OwnedWhileEntered'
        /\ \A u \in Threads :
              u # t /\ monitor[MachineOf[u]] = u => monitor'[MachineOf[u]] = u
    <3>1. CASE c.throws
      BY <1>10, <2>1, <3>1, ExitKeepsOwned DEF GiveUp
    <3>2. CASE ~c.throws
      BY <1>10, <3>2 DEF GiveUp, OwnedWhileEntered
    <3> QED BY <3>1, <3>2
  <2> QED
    BY <1>10, <2>1, <2>2 DEF GiveUp, Goto, HolderOwnsMonitor, NotHolding
<1>11. ASSUME NEW t \in Threads, Dispose(t) PROVE LocalInv'
  <2>1. monitor[MachineOf[t]] = t /\ pc[t] = "idle"
    BY <1>11 DEF Dispose, HolderOwnsMonitor
  <2>2. CASE LastRelease(t)
    <3>1. /\ monitor' \in [Machines -> Threads \cup {NoThread}]
          /\ entries' \in [Machines -> Nat]
          /\ OwnedWhileEntered'
          /\ \A u \in Threads :
                u # t /\ monitor[MachineOf[u]] = u => monitor'[MachineOf[u]] = u
      BY <1>11, <2>1, <2>2, ExitKeepsOwned DEF Dispose
    <3> QED
      BY <1>11, <2>2, <3>1
         DEF Dispose, LastRelease, Goto, HolderOwnsMonitor, NotHolding
  <2>3. CASE ~LastRelease(t)
    BY <1>11, <2>1, <2>3
       DEF Dispose, LastRelease, OwnedWhileEntered, HolderOwnsMonitor, NotHolding
  <2> QED BY <2>2, <2>3
<1>12. ASSUME NEW t \in Threads, DeleteRecord(t) PROVE LocalInv'
  BY <1>12 DEF DeleteRecord, Goto, OwnedWhileEntered, HolderOwnsMonitor, NotHolding
<1>13. ASSUME NEW t \in Threads, DeleteFails(t) PROVE LocalInv'
  BY <1>13 DEF DeleteFails, Goto, OwnedWhileEntered, HolderOwnsMonitor, NotHolding
<1>14. ASSUME NEW t \in Threads, NewScope(t) PROVE LocalInv'
  BY <1>14 DEF NewScope, OwnedWhileEntered, HolderOwnsMonitor, NotHolding
<1>15. ASSUME NEW m \in Machines, Crash(m) PROVE LocalInv'
  BY <1>15 DEF Crash, OwnedWhileEntered, HolderOwnsMonitor, NotHolding
<1>16. CASE Tick
  <2>1. \A left \in TimesLeft : Elapse(left) \in TimesLeft
    BY DEF Elapse
  <2>2. record' \in Records \cup {NoRecord}
    BY <1>16, <2>1 DEF Tick, Records
  <2> QED
    BY <1>16, <2>1, <2>2
       DEF Tick, OwnedWhileEntered, HolderOwnsMonitor, NotHolding
<1> HIDE DEF LocalInv
<1> QED
  BY <1>1, <1>2, <1>3, <1>4, <1>5, <1>6, <1>7, <1>8, <1>9, <1>10, <1>11, <1>12,
     <1>13, <1>14, <1>15, <1>16
     DEF Next, Serve

\* The state of the service stays of its type: no monitor is exited by a thread
\* that does not own it, which Monitor.Exit would answer with an exception.
THEOREM LockTypeOK == Spec => []TypeOK
<1>1. LocalInv => TypeOK
  BY DEF LocalInv
<1> QED BY <1>1, InitLocalInv, NextLocalInv, PTL DEF Spec

\* Two threads of one machine never hold the lock together, whatever the
\* leases, the timeouts, the failures and the nesting.
THEOREM LockLocalExclusion == Spec => []LocalExclusion
<1>1. LocalInv => LocalExclusion
  BY DEF LocalInv, LocalExclusion, HolderOwnsMonitor
<1> QED BY <1>1, InitLocalInv, NextLocalInv, PTL DEF Spec

------------------------------------------------------------------------------
(***************************************************************************)
(* Exclusion across the farm                                               *)
(***************************************************************************)

\* The record belongs to the thread that holds the lock or is about to delete it.
OwnRecord(t) ==
    /\ record \in Records
    /\ record.machine = MachineOf[t]
    /\ record.left = Forever

OwnerHasRecord ==
    \A t \in Threads : Holds(t) \/ pc[t] = "deleting" => OwnRecord(t)

\* No record ever expires.
NoExpiry == record # NoRecord => record.left = Forever

\* A scope that released the lock does not ask for it again.
NoSecondCall ==
    \A t \in Threads : pc[t] \in {"entering", "inside", "waiting"} => locks[t] # 0

\* What disciplined callers keep; with LocalInv, the inductive invariant behind
\* FarmExclusion.
Kept == OwnerHasRecord /\ NoExpiry /\ NoSecondCall

FarmInv == LocalInv /\ (Disciplined => Kept)

\* There is no record at the start.
LEMMA InitFarmInv == Init => FarmInv
  BY InitLocalInv
     DEF Init, FarmInv, Kept, OwnerHasRecord, NoExpiry, NoSecondCall, Holds, NoLock

\* The discipline is one of the farm and its callers, which never change.
LEMMA DisciplineNeverChanges == [Next]_vars => (Disciplined' <=> Disciplined)
  BY UseNeverChanges DEF Disciplined

\* Every step of disciplined callers keeps the owner's record.
LEMMA NextKept ==
  ASSUME LocalInv, Disciplined, Kept, [Next]_vars
  PROVE  Kept'
<1> USE DistributedLockAssumption
<1>0. /\ TypeOK /\ NotHolding
      /\ MachineOf' = MachineOf /\ MachineOf \in [Threads -> Machines]
  BY MachinesOfThreads, UseNeverChanges DEF LocalInv
<1> USE <1>0
<1> USE DEF Disciplined, TypeOK, Kept, OwnerHasRecord, NoExpiry, NoSecondCall,
            Holds, NoLock, Expired, Forever, TimesLeft, OwnRecord
<1>1. CASE UNCHANGED vars
  BY <1>1 DEF vars
<1>2. ASSUME NEW t \in Threads, Call(t) PROVE Kept'
  BY <1>2 DEF Call, Goto
<1>3. ASSUME NEW t \in Threads, EnterMonitor(t) PROVE Kept'
  BY <1>3 DEF EnterMonitor, Goto
<1>4. ASSUME NEW t \in Threads, MonitorTimeout(t) PROVE Kept'
  BY <1>4 DEF MonitorTimeout, Goto
<1>5. ASSUME NEW t \in Threads, NEW d \in Leases, Reenter(t, d) PROVE Kept'
  BY <1>5 DEF Reenter, Goto
<1>6. ASSUME NEW t \in Threads, NEW d \in Leases, CreateRecord(t, d) PROVE Kept'
  <2>1. /\ record' = [machine |-> MachineOf[t], left |-> Forever]
        /\ locks' = [locks EXCEPT ![t] = 1]
        /\ pc' = [pc EXCEPT ![t] = "idle"]
    BY <1>6 DEF CreateRecord, Granted, Goto
  <2>2. \A u \in Threads : ~Holds(u) /\ pc[u] # "deleting"
    BY <1>6 DEF CreateRecord, ValidRecord, Records
  <2>3. OwnRecord(t)'
    BY <2>1 DEF Records
  <2> QED BY <2>1, <2>2, <2>3
<1>7. ASSUME NEW t \in Threads, NEW d \in Leases, ReuseRecord(t, d) PROVE Kept'
  <2>1. /\ ValidRecord /\ record.machine = MachineOf[t]
        /\ locks' = [locks EXCEPT ![t] = 1]
        /\ pc' = [pc EXCEPT ![t] = "idle"]
        /\ record' = record
    BY <1>7 DEF ReuseRecord, Granted, Goto
  <2>2. OwnRecord(t)
    BY <2>1 DEF ValidRecord
  <2> QED BY <2>1, <2>2
<1>8. ASSUME NEW t \in Threads, AwaitRecord(t) PROVE Kept'
  BY <1>8 DEF AwaitRecord, Goto
<1>9. ASSUME NEW t \in Threads, DbError(t) PROVE Kept'
  BY <1>9 DEF DbError, Goto
<1>10. ASSUME NEW t \in Threads, NEW c \in Calls, GiveUp(t, c) PROVE Kept'
  BY <1>10 DEF GiveUp, Goto
<1>11. ASSUME NEW t \in Threads, Dispose(t) PROVE Kept'
  BY <1>11 DEF Dispose, Goto
<1>12. ASSUME NEW t \in Threads, DeleteRecord(t) PROVE Kept'
  <2>1. OwnRecord(t) /\ ~Holds(t)
    BY <1>12 DEF DeleteRecord, NotHolding
  <2>2. \A u \in Threads : u # t => ~Holds(u) /\ pc[u] # "deleting"
    BY <2>1
  <2> QED BY <1>12, <2>1, <2>2 DEF DeleteRecord, Goto
<1>13. ASSUME NEW t \in Threads, DeleteFails(t) PROVE Kept'
  BY <1>13 DEF DeleteFails, Goto
<1>14. ASSUME NEW t \in Threads, NewScope(t) PROVE Kept'
  BY <1>14 DEF NewScope
<1>15. ASSUME NEW m \in Machines, Crash(m) PROVE Kept'
  BY <1>15 DEF Crash
<1>16. CASE Tick
  <2>1. record \in Records /\ record.left = Forever => record' = record
    <3> SUFFICES ASSUME record \in Records, record.left = Forever
                 PROVE  record' = record
      OBVIOUS
    <3>1. record' = [machine |-> record.machine, left |-> record.left]
      BY <1>16 DEF Tick, Elapse
    <3>2. record = [machine |-> record.machine, left |-> record.left]
      BY DEF Records
    <3> QED BY <3>1, <3>2
  <2> QED BY <1>16, <2>1 DEF Tick
<1> HIDE DEF Kept
<1> QED
  BY <1>1, <1>2, <1>3, <1>4, <1>5, <1>6, <1>7, <1>8, <1>9, <1>10, <1>11, <1>12,
     <1>13, <1>14, <1>15, <1>16
     DEF Next, Serve

\* Every step keeps FarmInv.
LEMMA NextFarmInv == FarmInv /\ [Next]_vars => FarmInv'
  BY NextLocalInv, NextKept, DisciplineNeverChanges DEF FarmInv

\* Under the discipline the holder's record stays in the table and stays its
\* own, whatever fails, crashes and waits on the other machines.
THEOREM LockHolderHasRecord == Spec => []HolderHasRecord
<1>1. FarmInv => HolderHasRecord
  BY DistributedLockAssumption
     DEF FarmInv, Kept, OwnerHasRecord, OwnRecord, HolderHasRecord, HoldsInForce, Forever,
         Expired, ValidRecord
<1> QED BY <1>1, InitFarmInv, NextFarmInv, PTL DEF Spec

\* Under the discipline one thread of the whole farm holds the lock.
THEOREM LockFarmExclusion == Spec => []DisciplinedExclusion
<1>1. FarmInv => DisciplinedExclusion
  BY DEF FarmInv, Kept, OwnerHasRecord, OwnRecord, DisciplinedExclusion, FarmExclusion,
         HoldsInForce, Disciplined
<1> QED BY <1>1, InitFarmInv, NextFarmInv, PTL DEF Spec
==============================================================================
