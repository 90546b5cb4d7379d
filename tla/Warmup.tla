--------------------------------- MODULE Warmup ---------------------------------
(***************************************************************************)
(* The start of the application (src/src/Orchard.WarmupStarter): an        *)
(* initialization on a thread of the pool, requests held until it is over, *)
(* and another attempt when a request finds that it failed.                *)
(*                                                                         *)
(* The volatile fields of Starter are read one at a time, outside its      *)
(* lock, as the code does.  Requests for static files are not held.        *)
(*                                                                         *)
(* No name is one of Sweep, whose proofs are in the same module.           *)
(***************************************************************************)
EXTENDS Naturals, FiniteSets

CONSTANTS
    Requests,
    Static,     \* requests for which there is a file
    Pool,       \* threads of the pool; bound: initializations
    NoList

ASSUME WarmupAssumption ==
    /\ Static \subseteq Requests
    /\ \A S \in SUBSET Requests : S # NoList

VARIABLES
    awaiting,  \* the requests on hold, or NoList
    error,     \* _error # null
    previous,  \* _previousError # null
    result,    \* _initializationResult # null
    thread,    \* thread[t]: what thread t of the pool is doing
    temp,      \* temp[t]: held requests that t has still to resume
    stage      \* stage[r]: where request r is

warmupVars == <<awaiting, error, previous, result, thread, temp, stage>>
starter == <<error, previous, result>>

\* Application_Start has launched the startup thread.
WarmupInit ==
    /\ awaiting = {}
    /\ error = FALSE /\ previous = FALSE /\ result = FALSE
    /\ \E t \in Pool : thread = [u \in Pool |-> IF u = t THEN "init" ELSE "new"]
    /\ temp = [t \in Pool |-> {}]
    /\ stage = [r \in Requests |-> "new"]

Enter(r, label) == stage' = [stage EXCEPT ![r] = label]

------------------------------------------------------------------------------
\* BeginBeginRequest: the request goes on if the host is available or a file is
\* there.
Arrive(r) ==
    /\ stage[r] = "new"
    /\ Enter(r, IF awaiting = NoList \/ r \in Static THEN "begin" ELSE "await")
    /\ UNCHANGED <<awaiting, starter, thread, temp>>

\* Await: the request is put on hold, or goes on if the warmup is over by now.
Await(r) ==
    /\ stage[r] = "await"
    /\ IF awaiting = NoList
       THEN Enter(r, "begin") /\ UNCHANGED awaiting
       ELSE Enter(r, "held") /\ awaiting' = awaiting \cup {r}
    /\ UNCHANGED <<starter, thread, temp>>

\* OnBeginRequest reads _error.
ReadError(r) ==
    /\ stage[r] = "begin"
    /\ Enter(r, IF error THEN "failed" ELSE "previous")
    /\ UNCHANGED <<awaiting, starter, thread, temp>>

\* Mutant of FirstToFind: every request that has read _error restarts.
FirstToFind_Any == TRUE

\* Under the lock the error is still there.
FirstToFind == error

\* One request takes the error and is to restart the initialization.
TakeError(r) ==
    /\ stage[r] = "failed"
    /\ IF FirstToFind
       THEN error' = FALSE /\ previous' = TRUE /\ Enter(r, "launch")
       ELSE Enter(r, "previous") /\ UNCHANGED <<error, previous>>
    /\ UNCHANGED <<awaiting, result, thread, temp>>

\* SignalWarmupStart: requests are held from now on.
Holding == IF awaiting = NoList THEN {} ELSE awaiting

\* LaunchStartupThread; the work item waits for a thread.
Launch(r) ==
    /\ stage[r] = "launch"
    /\ \E t \in Pool :
          /\ thread[t] = "new"
          /\ thread' = [thread EXCEPT ![t] = "init"]
    /\ awaiting' = Holding
    /\ Enter(r, "previous")
    /\ UNCHANGED <<starter, temp>>

\* OnBeginRequest reads _previousError.
ReadPrevious(r) ==
    /\ stage[r] = "previous"
    /\ Enter(r, IF previous THEN "error" ELSE "result")
    /\ UNCHANGED <<awaiting, starter, thread, temp>>

\* OnBeginRequest reads _initializationResult, and calls the host or does not.
ReadResult(r) ==
    /\ stage[r] = "result"
    /\ Enter(r, IF result THEN "served" ELSE "passed")
    /\ UNCHANGED <<awaiting, starter, thread, temp>>

------------------------------------------------------------------------------
InitSucceeds(t) ==
    /\ thread[t] = "init"
    /\ result' = TRUE
    /\ thread' = [thread EXCEPT ![t] = "done"]
    /\ UNCHANGED <<awaiting, error, previous, temp, stage>>

\* Mutant of AfterInitFailed: requests are only resumed after a success.
AfterInitFailed_End == "end"
AfterInitFailed == "done"

InitFails(t) ==
    /\ thread[t] = "init"
    /\ error' = TRUE
    /\ previous' = FALSE
    /\ thread' = [thread EXCEPT ![t] = AfterInitFailed]
    /\ UNCHANGED <<awaiting, result, temp, stage>>

\* SignalWarmupDone takes the list.
TakeList(t) ==
    /\ thread[t] = "done"
    /\ thread' = [thread EXCEPT ![t] = "resuming"]
    /\ temp' = [temp EXCEPT ![t] = IF awaiting = NoList THEN {} ELSE awaiting]
    /\ awaiting' = NoList
    /\ UNCHANGED <<starter, stage>>

\* SignalWarmupDone resumes a request that was on hold.
Resume(t, r) ==
    /\ thread[t] = "resuming"
    /\ r \in temp[t]
    /\ temp' = [temp EXCEPT ![t] = @ \ {r}]
    /\ Enter(r, "begin")
    /\ UNCHANGED <<awaiting, starter, thread>>

\* Mutant of AllResumed: an exception of a resumed request ends the loop.
AllResumed_Not(t) == TRUE
AllResumed(t) == temp[t] = {}

Finish(t) ==
    /\ thread[t] = "resuming"
    /\ AllResumed(t)
    /\ thread' = [thread EXCEPT ![t] = "end"]
    /\ UNCHANGED <<awaiting, starter, temp, stage>>

RequestStep(r) ==
    \/ Arrive(r) \/ Await(r) \/ ReadError(r) \/ TakeError(r) \/ Launch(r)
    \/ ReadPrevious(r) \/ ReadResult(r)

ThreadStep(t) ==
    \/ InitSucceeds(t) \/ InitFails(t) \/ TakeList(t) \/ Finish(t)
    \/ \E r \in Requests : Resume(t, r)

WarmupNext ==
    \/ \E r \in Requests : RequestStep(r)
    \/ \E t \in Pool : ThreadStep(t)

WarmupSpec == WarmupInit /\ [][WarmupNext]_warmupVars

\* An initialization ends, and the threads of the pool and of the requests run.
WarmupFairSpec ==
    /\ WarmupSpec
    /\ \A t \in Pool : WF_warmupVars(ThreadStep(t))
    /\ \A r \in Requests : WF_warmupVars(RequestStep(r))

------------------------------------------------------------------------------
WarmupTypeOK ==
    /\ awaiting \in {NoList} \cup SUBSET Requests
    /\ error \in BOOLEAN /\ previous \in BOOLEAN /\ result \in BOOLEAN
    /\ thread \in [Pool -> {"new", "init", "done", "resuming", "end"}]
    /\ temp \in [Pool -> SUBSET Requests]
    /\ \A t \in Pool : thread[t] # "resuming" => temp[t] = {}
    /\ stage \in [Requests -> {"new", "await", "held", "begin", "failed", "launch",
                            "previous", "result", "error", "served", "passed"}]

\* However many requests find the error, one initialization runs at a time.
OneInitialization ==
    \A t, u \in Pool : thread[t] = "init" /\ thread[u] = "init" => t = u

\* No request stays on hold.
EveryoneGoesOn == \A r \in Requests : stage[r] = "held" ~> stage[r] = "begin"
==============================================================================
