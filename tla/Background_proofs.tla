------------------------------- MODULE Background_proofs -------------------------------
(***************************************************************************)
(* What runs on threads of the pool besides the requests: the background   *)
(* tasks (Sweep), for any number of threads and tasks and every choice of  *)
(* what may fail, and the start of the application (Warmup),   *)
(* for any number of requests and threads.                                 *)
(*                                                                         *)
(* QuietAfterTermination: a thread works only while it holds the monitor   *)
(* of a timer that is enabled, and the host stops the timer only while     *)
(* nobody holds the monitor.                                               *)
(*                                                                         *)
(* WholeTasks: unless an exception is fatal, a transaction that is open    *)
(* between two tasks has all the writes of a task or none.                 *)
(*                                                                         *)
(* OneInitialization: the right to initialize passes from the thread that  *)
(* initializes to the field _error, when it fails, from there to the       *)
(* request that takes the error, and from that one to the thread it        *)
(* launches.  At most one of them has it.                                  *)
(***************************************************************************)
EXTENDS Sweep, Warmup, TLAPS

Inv ==
    /\ at \in [Threads -> {"idle", "raised", "sweep", "running", "leave", "fatal"}]
    /\ \A t \in Threads : Working(t) => owner = t
    /\ enabled <=> host \in {"active", "terminating"}
    /\ owner # Nobody => enabled

\* Nothing works in a shell that is not active yet.
LEMMA InvInit == Init => Inv
    BY DEF Init, Inv, Working

\* Every step of the host, the timer and the threads keeps that.
LEMMA InvNext == SweepAssumption /\ Inv /\ [Next]_vars => Inv'
<1> SUFFICES ASSUME SweepAssumption, Inv, [Next]_vars PROVE Inv'
    OBVIOUS
<1> USE DEF Inv, Working
<1>1. CASE UNCHANGED vars
    BY <1>1 DEF vars
<1>2. CASE Activate
    BY <1>2 DEF Activate, sessions
<1>3. CASE Terminate
    BY <1>3 DEF Terminate, sessions
<1>4. CASE Stop
    BY <1>4 DEF Stop, sessions
<1>5. CASE Dispose
    BY <1>5 DEF Dispose, sessions
<1>6. ASSUME NEW t \in Threads, Raise(t) PROVE Inv'
    BY <1>6 DEF Raise, Goto, sessions
<1>7. ASSUME NEW t \in Threads, Elapsed(t) PROVE Inv'
    BY <1>7 DEF Elapsed, MayWork, Goto, SweepAssumption
<1>8. ASSUME NEW t \in Threads, Begin(t) PROVE Inv'
    BY <1>8 DEF Begin, Goto
<1>9. ASSUME NEW t \in Threads, Write(t) PROVE Inv'
    BY <1>9 DEF Write
<1>10. ASSUME NEW t \in Threads, Succeed(t) PROVE Inv'
    BY <1>10 DEF Succeed, Goto
<1>11. ASSUME NEW t \in Threads, Fail(t) PROVE Inv'
    BY <1>11 DEF Fail, AfterFailure, Goto
<1>12. ASSUME NEW t \in Threads, FailFatally(t) PROVE Inv'
    BY <1>12 DEF FailFatally, Goto, sessions
<1>13. ASSUME NEW t \in Threads, Leave(t) PROVE Inv'
    <2>1. Working(t) /\ owner = t
        BY <1>13 DEF Leave
    <2> QED
        BY <1>13, <2>1 DEF Leave, Released, Goto
<1> QED
    BY <1>1, <1>2, <1>3, <1>4, <1>5, <1>6, <1>7, <1>8, <1>9, <1>10, <1>11, <1>12,
       <1>13
    DEF Next, Run

\* No background task runs in a shell whose termination has returned: the monitor
\* was free when the timer was stopped, and Elapsed looks at the timer after it has
\* entered it.
THEOREM SweepQuietAfterTermination ==
    ASSUME SweepAssumption
    PROVE  Spec => []QuietAfterTermination
<1>1. Inv => QuietAfterTermination
    <2> SUFFICES ASSUME Inv, host \in {"terminated", "disposed"},
                        NEW t \in Threads, Working(t)
                 PROVE  FALSE
        BY DEF QuietAfterTermination
    <2>1. ~enabled
        BY DEF Inv
    <2>2. owner = Nobody /\ owner = t
        BY <2>1 DEF Inv
    <2> QED
        BY <2>2, SweepAssumption DEF SweepAssumption
<1> QED
    BY <1>1, InvInit, InvNext, PTL DEF Spec

------------------------------------------------------------------------------
\* TypeOK, and a task that runs is one of those that there are.
TypeInv ==
    /\ TypeOK
    /\ \A t \in Threads : at[t] = "running" => task[t] \in 1..Tasks

\* Nothing has been written at first.
LEMMA TypeInit == SweepAssumption /\ Init => TypeInv
<1> SUFFICES ASSUME SweepAssumption, Init PROVE TypeInv
    OBVIOUS
<1>1. 1 \in 1..(Tasks + 1)
    BY DEF SweepAssumption
<1>2. task \in [Threads -> 1..(Tasks + 1)]
    BY <1>1 DEF Init
<1>3. writes \in [Threads -> 0..2] /\ committed \subseteq 1..2
    BY DEF Init
<1>4. TypeOK
    BY <1>2, <1>3 DEF Init, TypeOK, Working
<1> QED
    BY <1>4 DEF Init, TypeInv

\* What is committed are the writes of the open transaction, at most two.
LEMMA CommitsTyped ==
    ASSUME TypeOK, NEW t \in Threads, Commits(t) \/ CommitFails(t)
    PROVE  committed' \subseteq 1..2
<1>1. writes[t] \in 0..2 /\ committed \subseteq 1..2
    BY DEF TypeOK
<1>2. writes[t] # 0 => writes[t] \in 1..2
    BY <1>1
<1> QED
    BY <1>1, <1>2 DEF Commits, CommitFails

\* Every step keeps the types: a task writes at most twice, and a thread that is not
\* working has no open transaction.
LEMMA TypeNext == SweepAssumption /\ TypeInv /\ [Next]_vars => TypeInv'
<1> SUFFICES ASSUME SweepAssumption, TypeInv, [Next]_vars PROVE TypeInv'
    OBVIOUS
<1> USE DEF TypeInv, TypeOK, Working, SweepAssumption
<1>1. CASE UNCHANGED vars
    BY <1>1 DEF vars
<1>2. CASE Activate \/ Terminate \/ Stop \/ Dispose
    BY <1>2 DEF Activate, Terminate, Stop, Dispose, sessions
<1>3. ASSUME NEW t \in Threads, Raise(t) PROVE TypeInv'
    BY <1>3 DEF Raise, Goto, sessions
<1>4. ASSUME NEW t \in Threads, Elapsed(t) PROVE TypeInv'
    BY <1>4 DEF Elapsed, Goto
<1>5. ASSUME NEW t \in Threads, Begin(t) PROVE TypeInv'
    <2>1. CASE Commits(t) /\ Goto(t, "running") /\ UNCHANGED task
        <3>1. committed' \subseteq 1..2
            BY <2>1, CommitsTyped
        <3>2. task[t] \in 1..Tasks
            BY <1>5 DEF Begin
        <3> QED
            BY <1>5, <2>1, <3>1, <3>2 DEF Begin, Goto
    <2>2. CASE CommitFails(t) /\ task' = [task EXCEPT ![t] = @ + 1] /\ UNCHANGED at
        BY <1>5, <2>2 DEF Begin, CommitFails
    <2> QED
        BY <1>5, <2>1, <2>2 DEF Begin
<1>6. ASSUME NEW t \in Threads, Write(t) PROVE TypeInv'
    BY <1>6 DEF Write
<1>7. ASSUME NEW t \in Threads, Succeed(t) PROVE TypeInv'
    BY <1>7 DEF Succeed, Goto
<1>8. ASSUME NEW t \in Threads, Fail(t) PROVE TypeInv'
    BY <1>8 DEF Fail, Cancelled, AfterFailure, Goto
<1>9. ASSUME NEW t \in Threads, FailFatally(t) PROVE TypeInv'
    BY <1>9 DEF FailFatally, Goto, sessions
<1>10. ASSUME NEW t \in Threads, Leave(t) PROVE TypeInv'
    <2>1. committed' \subseteq 1..2
        BY <1>10, CommitsTyped DEF Leave
    <2> QED
        BY <1>10, <2>1 DEF Leave, Disposed, Released, Goto
<1> QED
    BY <1>1, <1>2, <1>3, <1>4, <1>5, <1>6, <1>7, <1>8, <1>9, <1>10 DEF Next, Run

\* Every variable holds what its declaration says, for any number of threads and tasks.
THEOREM SweepTypeOK ==
    ASSUME SweepAssumption
    PROVE  Spec => []TypeOK
<1>1. TypeInv => TypeOK
    BY DEF TypeInv
<1> QED
    BY <1>1, TypeInit, TypeNext, PTL DEF Spec

------------------------------------------------------------------------------
\* While no exception is fatal, only a task that runs has written in part.
WholeInv ==
    "fatal" \notin failing =>
        /\ committed \subseteq {2}
        /\ \A t \in Threads :
            /\ at[t] # "fatal"
            /\ at[t] # "running" => writes[t] \in {0, 2}

\* A transaction is committed between two tasks, and a task that throws cancels it.
LEMMA WholeNext == SweepAssumption /\ TypeInv /\ WholeInv /\ [Next]_vars => WholeInv'
<1> SUFFICES ASSUME SweepAssumption, TypeInv, WholeInv, [Next]_vars,
                    "fatal" \notin failing
             PROVE  WholeInv'
    BY DEF WholeInv, Next, Run, vars, Activate, Terminate, Stop, Dispose, Raise,
           Elapsed, Begin, Write, Succeed, Fail, FailFatally, Leave
<1> USE DEF WholeInv, TypeInv, TypeOK
<1>1. CASE UNCHANGED vars
    BY <1>1 DEF vars
<1>2. CASE Activate \/ Terminate \/ Stop \/ Dispose
    BY <1>2 DEF Activate, Terminate, Stop, Dispose, sessions
<1>3. ASSUME NEW t \in Threads, Raise(t) PROVE WholeInv'
    BY <1>3 DEF Raise, Goto, sessions
<1>4. ASSUME NEW t \in Threads, Elapsed(t) PROVE WholeInv'
    BY <1>4 DEF Elapsed, Goto
<1>5. ASSUME NEW t \in Threads, Begin(t) PROVE WholeInv'
    <2>1. CASE Commits(t) /\ Goto(t, "running") /\ UNCHANGED task
        BY <1>5, <2>1 DEF Begin, Commits, Goto
    <2>2. CASE CommitFails(t) /\ task' = [task EXCEPT ![t] = @ + 1] /\ UNCHANGED at
        BY <1>5, <2>2 DEF Begin, CommitFails
    <2> QED
        BY <1>5, <2>1, <2>2 DEF Begin
<1>6. ASSUME NEW t \in Threads, Write(t) PROVE WholeInv'
    BY <1>6 DEF Write
<1>7. ASSUME NEW t \in Threads, Succeed(t) PROVE WholeInv'
    BY <1>7 DEF Succeed, Goto
<1>8. ASSUME NEW t \in Threads, Fail(t) PROVE WholeInv'
    BY <1>8 DEF Fail, Cancelled, AfterFailure, Goto
<1>9. ASSUME NEW t \in Threads, Leave(t) PROVE WholeInv'
    <2>1. writes[t] \in {0, 2}
        BY <1>9 DEF Leave
    <2>2. committed' \subseteq {2}
        BY <1>9, <2>1 DEF Leave, Commits, CommitFails
    <2> QED
        BY <1>9, <2>2 DEF Leave, Disposed, Goto
<1>10. ASSUME NEW t \in Threads PROVE ~FailFatally(t)
    BY DEF FailFatally
<1> QED
    BY <1>1, <1>2, <1>3, <1>4, <1>5, <1>6, <1>7, <1>8, <1>9, <1>10 DEF Next, Run

\* Whatever tasks and commits fail, what is committed are the writes of whole tasks.
THEOREM SweepWholeTasks ==
    ASSUME SweepAssumption
    PROVE  Spec => []WholeTasks
<1>1. Init => WholeInv
    BY DEF Init, WholeInv
<1>2. WholeInv => WholeTasks
    BY DEF WholeInv, WholeTasks
<1> QED
    BY <1>1, <1>2, TypeInit, TypeNext, WholeNext, PTL DEF Spec

------------------------------------------------------------------------------
Types ==
    /\ DOMAIN thread = Pool
    /\ DOMAIN stage = Requests

OneLaunch == \A q, r \in Requests : stage[q] = "launch" /\ stage[r] = "launch" => q = r

OneRight ==
    /\ OneInitialization
    /\ OneLaunch
    /\ \A t \in Pool, r \in Requests : ~(thread[t] = "init" /\ stage[r] = "launch")
    /\ error => /\ \A t \in Pool : thread[t] # "init"
                /\ \A r \in Requests : stage[r] # "launch"

StartInv == Types /\ OneRight

\* The startup thread has the right at first.
LEMMA StartInit == WarmupInit => StartInv
    BY DEF WarmupInit, StartInv, Types, OneRight, OneLaunch, OneInitialization

\* A request that does not take the error, or launches, leaves the right where it is.
LEMMA OtherRequestSteps ==
    ASSUME StartInv, NEW r \in Requests, NEW label,
           Enter(r, label), label # "launch", UNCHANGED <<error, thread>>
    PROVE  StartInv'
<1>1. \A q \in Requests : stage'[q] = "launch" => stage[q] = "launch"
    BY DEF Enter, StartInv, Types
<1> QED
    BY <1>1 DEF Enter, StartInv, Types, OneRight, OneLaunch, OneInitialization

\* A step that takes a thread out of its initialization, or to another place than
\* that, leaves at most one right, unless it sets the error without giving it up.
LEMMA OtherThreadSteps ==
    ASSUME StartInv, NEW t \in Pool, NEW label,
           thread' = [thread EXCEPT ![t] = label], label # "init",
           \A q \in Requests : stage'[q] = "launch" => stage[q] = "launch",
           DOMAIN stage' = Requests,
           error' => error \/ thread[t] = "init"
    PROVE  StartInv'
<1>1. \A u \in Pool : thread'[u] = "init" => thread[u] = "init" /\ u # t
    BY DEF StartInv, Types
<1> QED
    BY <1>1 DEF StartInv, Types, OneRight, OneLaunch, OneInitialization

\* Every step passes the right on, or leaves it.
LEMMA StartNext == StartInv /\ [WarmupNext]_warmupVars => StartInv'
<1> SUFFICES ASSUME StartInv, [WarmupNext]_warmupVars PROVE StartInv'
    OBVIOUS
<1>1. CASE UNCHANGED warmupVars
    BY <1>1 DEF warmupVars, StartInv, Types, OneRight, OneLaunch, OneInitialization
<1>2. ASSUME NEW r \in Requests, RequestStep(r) PROVE StartInv'
    <2>1. CASE Arrive(r)
        BY <2>1, OtherRequestSteps DEF Arrive, starter
    <2>2. CASE Await(r)
        BY <2>2, OtherRequestSteps DEF Await, starter
    <2>3. CASE ReadError(r)
        BY <2>3, OtherRequestSteps DEF ReadError, starter
    <2>4. CASE TakeError(r)
        <3>1. CASE error
            BY <2>4, <3>1 DEF TakeError, FirstToFind, Enter, StartInv,
                              Types, OneRight, OneLaunch, OneInitialization
        <3>2. CASE ~error
            BY <2>4, <3>2, OtherRequestSteps DEF TakeError, FirstToFind
        <3> QED
            BY <3>1, <3>2
    <2>5. CASE Launch(r)
        <3>1. PICK t \in Pool : thread' = [thread EXCEPT ![t] = "init"]
            BY <2>5 DEF Launch
        <3>2. /\ stage[r] = "launch" /\ error' = error
              /\ stage' = [stage EXCEPT ![r] = "previous"]
            BY <2>5 DEF Launch, Enter, starter
        <3>3. ~error /\ \A u \in Pool : thread[u] # "init"
            BY <3>2 DEF StartInv, OneRight
        <3> QED
            BY <3>1, <3>2, <3>3
            DEF StartInv, Types, OneRight, OneLaunch, OneInitialization
    <2>6. CASE ReadPrevious(r)
        BY <2>6, OtherRequestSteps DEF ReadPrevious, starter
    <2>7. CASE ReadResult(r)
        BY <2>7, OtherRequestSteps DEF ReadResult, starter
    <2> QED
        BY <1>2, <2>1, <2>2, <2>3, <2>4, <2>5, <2>6, <2>7 DEF RequestStep
<1>3. ASSUME NEW t \in Pool, ThreadStep(t) PROVE StartInv'
    <2>1. CASE InitSucceeds(t)
        BY <2>1, OtherThreadSteps DEF InitSucceeds, StartInv, Types
    <2>2. CASE InitFails(t)
        BY <2>2, OtherThreadSteps DEF InitFails, AfterInitFailed, StartInv, Types
    <2>3. CASE TakeList(t)
        BY <2>3, OtherThreadSteps DEF TakeList, starter, StartInv, Types
    <2>4. CASE Finish(t)
        BY <2>4, OtherThreadSteps DEF Finish, starter, StartInv, Types
    <2>5. ASSUME NEW r \in Requests, Resume(t, r) PROVE StartInv'
        BY <2>5, OtherRequestSteps DEF Resume, starter
    <2> QED
        BY <1>3, <2>1, <2>2, <2>3, <2>4, <2>5 DEF ThreadStep
<1> QED
    BY <1>1, <1>2, <1>3 DEF WarmupNext

\* However many requests find the error of a failed attempt, and however its end
\* overlaps the next one, one initialization runs at a time.
THEOREM WarmupOneInitialization == WarmupSpec => []OneInitialization
<1>1. StartInv => OneInitialization
    BY DEF StartInv, OneRight
<1> QED
    BY <1>1, StartInit, StartNext, PTL DEF WarmupSpec

------------------------------------------------------------------------------
\* The types hold when the startup thread is launched.
LEMMA StartTypeInit == WarmupInit => WarmupTypeOK
    BY DEF WarmupInit, WarmupTypeOK

\* A step of a request leaves the lists that threads resume, and adds to the list of
\* the requests on hold no other than itself.
LEMMA RequestKeepsTypes ==
    ASSUME WarmupTypeOK, NEW r \in Requests, RequestStep(r)
    PROVE  WarmupTypeOK'
<1> USE DEF WarmupTypeOK, Enter, starter
<1>1. CASE Arrive(r)
    BY <1>1 DEF Arrive
<1>2. CASE Await(r)
    <2>1. awaiting' \in {NoList} \cup SUBSET Requests
        BY <1>2 DEF Await
    <2> QED
        BY <1>2, <2>1 DEF Await
<1>3. CASE ReadError(r)
    BY <1>3 DEF ReadError
<1>4. CASE TakeError(r)
    BY <1>4 DEF TakeError, FirstToFind
<1>5. CASE Launch(r)
    <2>1. awaiting' \in {NoList} \cup SUBSET Requests
        BY <1>5 DEF Launch, Holding
    <2>2. PICK t \in Pool : thread[t] = "new" /\ thread' = [thread EXCEPT ![t] = "init"]
        BY <1>5 DEF Launch
    <2>3. /\ thread' \in [Pool -> {"new", "init", "done", "resuming", "end"}]
          /\ \A u \in Pool : thread'[u] # "resuming" => temp[u] = {}
        BY <2>2
    <2> QED
        BY <1>5, <2>1, <2>3 DEF Launch
<1>6. CASE ReadPrevious(r)
    BY <1>6 DEF ReadPrevious
<1>7. CASE ReadResult(r)
    BY <1>7 DEF ReadResult
<1> QED
    BY <1>1, <1>2, <1>3, <1>4, <1>5, <1>6, <1>7 DEF RequestStep

\* A thread of the pool has requests to resume only while it does that.
LEMMA ThreadKeepsTypes ==
    ASSUME WarmupTypeOK, NEW t \in Pool, ThreadStep(t)
    PROVE  WarmupTypeOK'
<1> USE DEF WarmupTypeOK, Enter, starter
<1>1. CASE InitSucceeds(t)
    BY <1>1 DEF InitSucceeds
<1>2. CASE InitFails(t)
    BY <1>2 DEF InitFails, AfterInitFailed
<1>3. CASE TakeList(t)
    <2>1. temp' \in [Pool -> SUBSET Requests]
        BY <1>3 DEF TakeList
    <2>2. \A u \in Pool : thread'[u] # "resuming" => temp'[u] = {}
        BY <1>3 DEF TakeList
    <2> QED
        BY <1>3, <2>1, <2>2 DEF TakeList
<1>4. CASE Finish(t)
    BY <1>4 DEF Finish, AllResumed
<1>5. ASSUME NEW r \in Requests, Resume(t, r) PROVE WarmupTypeOK'
    BY <1>5 DEF Resume
<1> QED
    BY <1>1, <1>2, <1>3, <1>4, <1>5 DEF ThreadStep

\* Every variable holds what its declaration says, for any requests and threads.
THEOREM WarmupTyped == WarmupSpec => []WarmupTypeOK
<1>1. WarmupTypeOK /\ [WarmupNext]_warmupVars => WarmupTypeOK'
    <2> SUFFICES ASSUME WarmupTypeOK, [WarmupNext]_warmupVars PROVE WarmupTypeOK'
        OBVIOUS
    <2>1. CASE UNCHANGED warmupVars
        BY <2>1 DEF warmupVars, WarmupTypeOK
    <2> QED
        BY <2>1, RequestKeepsTypes, ThreadKeepsTypes DEF WarmupNext
<1> QED
    BY <1>1, StartTypeInit, PTL DEF WarmupSpec
==============================================================================
