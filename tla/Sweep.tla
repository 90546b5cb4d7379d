---------------------------------- MODULE Sweep ----------------------------------
(***************************************************************************)
(* The background tasks of one shell (src/src/Orchard/Tasks): a timer, the *)
(* threads of the pool on which it raises Elapsed, the tasks that a sweep  *)
(* runs in turn, each in a transaction of its own, and the host, which     *)
(* activates, terminates and disposes of the shell.                        *)
(*                                                                         *)
(* A task stands for any IBackgroundTask: it writes twice, or throws on    *)
(* the way.  An event raised before the timer is stopped may reach its     *)
(* handler at any time after.                                              *)
(***************************************************************************)
EXTENDS Naturals, FiniteSets

CONSTANTS
    Threads,
    Tasks,      \* how many tasks there are
    Uses,       \* sets of what may fail, of which one is chosen
    Nobody

ASSUME SweepAssumption ==
    /\ Tasks \in Nat \ {0}
    /\ Nobody \notin Threads
    /\ Uses \subseteq SUBSET {"task", "commit", "fatal"}

VARIABLES
    failing,    \* what may fail
    host,       \* how far the host is with the shell
    enabled,    \* _timer.Enabled
    owner,      \* the thread that holds the monitor of _timer, or Nobody
    at,         \* at[t]: where thread t is
    task,       \* task[t]: the task that t is at
    writes,     \* writes[t]: those of the open session of t; 0 when there are none
    committed   \* how many of its writes a task has been seen to commit

vars == <<failing, host, enabled, owner, at, task, writes, committed>>
sessions == <<task, writes, committed>>

Init ==
    /\ failing \in Uses
    /\ host = "new"
    /\ enabled = FALSE
    /\ owner = Nobody
    /\ at = [t \in Threads |-> "idle"]
    /\ task = [t \in Threads |-> 1]
    /\ writes = [t \in Threads |-> 0]
    /\ committed = {}

Goto(t, label) == at' = [at EXCEPT ![t] = label]

------------------------------------------------------------------------------
\* Activate starts the timer, under the lock.
Activate ==
    /\ host = "new" /\ owner = Nobody
    /\ host' = "active" /\ enabled' = TRUE
    /\ UNCHANGED <<failing, owner, at, sessions>>

\* DefaultOrchardShell.Terminate: the event, which may fail, then the generator.
Terminate ==
    /\ host = "active"
    /\ host' = "terminating"
    /\ UNCHANGED <<failing, enabled, owner, at, sessions>>

\* SweepGenerator.Terminate stops the timer, under the lock.
Stop ==
    /\ host = "terminating" /\ owner = Nobody
    /\ host' = "terminated" /\ enabled' = FALSE
    /\ UNCHANGED <<failing, owner, at, sessions>>

\* The container of the shell is disposed.
Dispose ==
    /\ host = "terminated"
    /\ host' = "disposed"
    /\ UNCHANGED <<failing, enabled, owner, at, sessions>>

------------------------------------------------------------------------------
\* The timer raises its event on a thread of the pool.
Raise(t) ==
    /\ enabled
    /\ at[t] = "idle"
    /\ Goto(t, "raised")
    /\ UNCHANGED <<failing, host, enabled, owner, sessions>>

\* Mutant of MayWork: the handler trusts that the timer is running.
MayWork_Raised == owner = Nobody

\* The monitor is free, and the timer has not been stopped.
MayWork == owner = Nobody /\ enabled

\* Elapsed enters the monitor, if it is free, and sweeps, if the timer is enabled.
Elapsed(t) ==
    /\ at[t] = "raised"
    /\ IF MayWork
       THEN Goto(t, "sweep") /\ owner' = t /\ task' = [task EXCEPT ![t] = 1]
       ELSE Goto(t, "idle") /\ UNCHANGED <<owner, task>>
    /\ UNCHANGED <<failing, host, enabled, writes, committed>>

\* DisposeSession: the open transaction is committed, which may fail.
Commits(t) == committed' = committed \cup (IF writes[t] = 0 THEN {} ELSE {writes[t]})
CommitFails(t) == writes[t] > 0 /\ "commit" \in failing /\ UNCHANGED committed

\* RequireNew: the transaction of the task before is committed.
Begin(t) ==
    /\ at[t] = "sweep"
    /\ task[t] <= Tasks
    /\ writes' = [writes EXCEPT ![t] = 0]
    /\ \/ Commits(t) /\ Goto(t, "running") /\ UNCHANGED task
       \/ /\ CommitFails(t)
          /\ task' = [task EXCEPT ![t] = @ + 1]
          /\ UNCHANGED at
    /\ UNCHANGED <<failing, host, enabled, owner>>

Write(t) ==
    /\ at[t] = "running"
    /\ writes[t] < 2
    /\ writes' = [writes EXCEPT ![t] = @ + 1]
    /\ UNCHANGED <<failing, host, enabled, owner, at, task, committed>>

Succeed(t) ==
    /\ at[t] = "running"
    /\ writes[t] = 2
    /\ Goto(t, "sweep")
    /\ task' = [task EXCEPT ![t] = @ + 1]
    /\ UNCHANGED <<failing, host, enabled, owner, writes, committed>>

\* Mutant of Cancelled: the transaction stays open.
Cancelled_Not(n) == n
Cancelled(n) == 0

\* Mutant of AfterFailure: the exception ends the sweep.
AfterFailure_Leave == "leave"
AfterFailure == "sweep"

\* The exception is logged, and the next task has its turn.
Fail(t) ==
    /\ at[t] = "running"
    /\ "task" \in failing
    /\ writes' = [writes EXCEPT ![t] = Cancelled(@)]
    /\ Goto(t, AfterFailure)
    /\ task' = [task EXCEPT ![t] = @ + 1]
    /\ UNCHANGED <<failing, host, enabled, owner, committed>>

\* A fatal exception is thrown on, with the transaction as it is.
FailFatally(t) ==
    /\ at[t] = "running"
    /\ "fatal" \in failing
    /\ Goto(t, "fatal")
    /\ UNCHANGED <<failing, host, enabled, owner, sessions>>

\* Mutant of Released: the monitor is left only by a sweep that ends well.
Released_Ended(t) == IF at[t] = "fatal" THEN owner ELSE Nobody
Released(t) == Nobody

\* Mutant of Disposed: the session outlives its scope.
Disposed_Not(n) == n
Disposed(n) == 0

\* The scope is disposed, which commits what is open, and the monitor left.
Leave(t) ==
    /\ \/ at[t] \in {"leave", "fatal"}
       \/ at[t] = "sweep" /\ task[t] > Tasks
    /\ Commits(t) \/ CommitFails(t)
    /\ writes' = [writes EXCEPT ![t] = Disposed(@)]
    /\ owner' = Released(t)
    /\ Goto(t, "idle")
    /\ UNCHANGED <<failing, host, enabled, task>>

Run(t) ==
    \/ Elapsed(t) \/ Begin(t) \/ Write(t) \/ Succeed(t) \/ Fail(t) \/ FailFatally(t)
    \/ Leave(t)

Next ==
    \/ Activate \/ Terminate \/ Stop \/ Dispose
    \/ \E t \in Threads : Raise(t) \/ Run(t)

Spec == Init /\ [][Next]_vars

\* The timer goes on, threads run and tasks end; a host that waits for the monitor
\* is let in between two sweeps.
FairSpec ==
    /\ Spec
    /\ WF_vars(Activate)
    /\ SF_vars(Stop)
    /\ WF_vars(\E t \in Threads : Raise(t))
    /\ \A t \in Threads : WF_vars(Run(t))

------------------------------------------------------------------------------
Working(t) == at[t] \in {"sweep", "running", "leave", "fatal"}

TypeOK ==
    /\ host \in {"new", "active", "terminating", "terminated", "disposed"}
    /\ enabled \in BOOLEAN
    /\ owner \in Threads \cup {Nobody}
    /\ at \in [Threads -> {"idle", "raised", "sweep", "running", "leave", "fatal"}]
    /\ task \in [Threads -> 1..(Tasks + 1)]
    /\ writes \in [Threads -> 0..2]
    /\ \A t \in Threads : ~Working(t) => writes[t] = 0
    /\ committed \subseteq 1..2
    /\ failing \in Uses

\* Once Terminate has returned no task runs, and none ever will: the container of
\* the shell can be disposed, whatever events were raised before.
QuietAfterTermination ==
    host \in {"terminated", "disposed"} => \A t \in Threads : ~Working(t)

\* A task that throws commits nothing, neither by itself nor when the next one
\* begins: what is committed are whole tasks, unless an exception is fatal.
WholeTasks == "fatal" \notin failing => committed \subseteq {2}

\* A task that fails, every time, keeps none of the others from running, provided
\* that what the others write can be committed.
EveryTaskRuns ==
    \A k \in 1..Tasks :
        (host = "active" /\ failing \subseteq {"task"})
            ~> \/ \E t \in Threads : at[t] = "running" /\ task[t] = k
               \/ host # "active"

\* Terminate returns, whatever exceptions the tasks throw.
TerminateReturns == host = "terminating" ~> host = "terminated"
==============================================================================
