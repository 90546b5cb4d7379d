-------------------------- MODULE MCDistributedLock --------------------------
(* Instances of DistributedLock for TLC. *)
EXTENDS DistributedLock, TLC

CONSTANTS m1, m2, m3, t1, t2, t3

\* one thread on each of three machines; two machines, the first of them with
\* two threads
OneEach == t1 :> m1 @@ t2 :> m2 @@ t3 :> m3
TwoAndOne == t1 :> m1 @@ t2 :> m1 @@ t3 :> m2

\* AcquireLock without a timeout
Blocking == {[throws |-> TRUE, timed |-> FALSE]}

Use(machineOf, leases, calls, nested, reacquire, mayFail, mayCrash) ==
    [machineOf |-> machineOf, leases |-> leases, calls |-> calls, nested |-> nested,
     reacquire |-> reacquire, dbMayFail |-> mayFail, mayCrash |-> mayCrash]

\* everything at once; disciplined callers, who nest; leases that end, whose owners
\* may die; plain callers who give up with an exception
SomeUses ==
    {Use(TwoAndOne, {1, Forever}, AllCalls, TRUE, TRUE, TRUE, TRUE),
     Use(OneEach, {Forever}, AllCalls, TRUE, FALSE, TRUE, TRUE),
     Use(TwoAndOne, {1}, Blocking, FALSE, TRUE, FALSE, TRUE),
     Use(TwoAndOne, {0, 2, Forever}, {c \in AllCalls : c.throws}, FALSE, TRUE, TRUE, TRUE)}

\* two threads on one machine who acquire the lock once, without a lease
TwoThreads == {Use(TwoAndOne, {Forever}, Blocking, FALSE, FALSE, FALSE, FALSE)}
==============================================================================
