--------------------------------- MODULE Recipes ---------------------------------
(***************************************************************************)
(* A request that executes recipes (Orchard.Recipes/Services): the steps   *)
(* of a recipe are written to a folder of App_Data, with a record for each *)
(* in the database, and a task of the request runs the first of them.  At  *)
(* the end of the request its tasks run one after the other, each in a     *)
(* transaction of its own, and a step that succeeds adds the task for the  *)
(* next one.                                                               *)
(*                                                                         *)
(* The tasks of a request are its own, and so are the identifiers of its   *)
(* executions: one request stands for all.  A step queues the recipes that *)
(* it names and then works, throws, or is claimed by no handler.  The      *)
(* Migration step runs migrations, each in a transaction of its own, which *)
(* begins by committing the one before it; one that breaks cancels its     *)
(* transaction and ends the step.                                          *)
(***************************************************************************)
EXTENDS Integers, Sequences, Functions, FiniteSets

CONSTANTS
    Executions,     \* 1..n: the recipes that the request executes, in order
    Names,          \* names of recipes
    Uses            \* what there is to execute and what may happen to it

AllSteps == [does : {"works", "throws", "unclaimed"}, names : Seq(Names)]
                \cup [does : {"migrates", "breaks"}, names : {<<>>}]
AllContents == [Names -> Seq(AllSteps)]

ASSUME RecipesAssumption ==
    /\ Executions \subseteq Nat \ {0}
    /\ \A u \in Uses :
        /\ u.recipes \in Seq(Names) /\ DOMAIN u.recipes \subseteq Executions
        /\ u.steps \in AllContents
        /\ u.may \subseteq {"throw", "crash", "lose"}

VARIABLES
    use,        \* the one of Uses that this behaviour is about
    at,         \* where the request, or its end, is
    next,       \* the recipe that the controller executes next
    queue,      \* queue[e]: the files of the folder of e, by their numbers
    toRead,     \* names of recipes whose steps the step that runs has yet to queue
    toQueue,    \* steps that Execute, or the step that runs, has yet to queue
    tasks,      \* the tasks of the request: executions with a step to run
    running,    \* the execution and the step that a task is at
    db,         \* what is committed: the result records, and what steps did
    session,    \* the same as the open transaction sees it
    started,    \* started[e]: the steps taken out of the queue
    completed,  \* executions that ended by a restart of the shell
    failed      \* executions that ended by the failure of a step

vars == <<use, at, next, queue, toRead, toQueue, tasks, running, db, session, started,
          completed, failed>>
memory == <<next, toRead, toQueue, tasks, running>>
history == <<started, completed, failed>>

\* What the parser makes of a recipe: its steps, numbered from 1.
StepsIn(u, r) ==
    [i \in DOMAIN u.steps[r] |->
        [recipe |-> r, id |-> i,
         does |-> u.steps[r][i].does, names |-> u.steps[r][i].names]]
RecipeSteps(r) == StepsIn(use, r)

Steps == UNION {UNION {Range(StepsIn(u, r)) : r \in Names} : u \in Uses}
Records == [execution : Executions, recipe : Names, id : Nat \ {0},
            isCompleted : BOOLEAN, isSuccessful : BOOLEAN]
NoStep == [execution |-> 0]

Init ==
    /\ use \in Uses
    /\ at = "request"
    /\ next = 1
    /\ queue = [e \in Executions |-> <<>>]
    /\ toRead = <<>> /\ toQueue = <<>>
    /\ tasks = <<>>
    /\ running = NoStep
    /\ db = [records |-> <<>>, effects |-> {}]
    /\ session = db
    /\ started = [e \in Executions |-> <<>>]
    /\ completed = {}
    /\ failed = {}

------------------------------------------------------------------------------
\* Mutant of FirstStepIndex: the list of the files sorted the other way.
FirstStepIndex_Last(files) == CHOOSE i \in DOMAIN files : \A j \in DOMAIN files : j <= i
\* GetFirstStepIndex, of a folder with files in it, and GetLastStepIndex.
FirstStepIndex(files) == CHOOSE i \in DOMAIN files : \A j \in DOMAIN files : i <= j
LastStepIndex(files) ==
    IF DOMAIN files = {} THEN -1
    ELSE CHOOSE i \in DOMAIN files : \A j \in DOMAIN files : j <= i

\* Mutant of Enqueued: the number of the last file is used again.
Enqueued_Over(files, s) == [i \in DOMAIN files \cup {LastStepIndex(files)} |->
    IF i = LastStepIndex(files) THEN s ELSE files[i]]
\* A file is added to the folder, which is made when there is none.
Enqueued(files, s) ==
    LET new == LastStepIndex(files) + 1
    IN [i \in DOMAIN files \cup {new} |-> IF i = new THEN s ELSE files[i]]

Dequeued(files) == [i \in DOMAIN files \ {FirstStepIndex(files)} |-> files[i]]

\* Mutant of Drained: a step that fails leaves the queue as it is.
Drained_Not(files) == files
\* Dequeue until it returns null.
Drained(files) == [i \in {} |-> files[i]]

Record(e, s, isCompleted, isSuccessful) ==
    [execution |-> e, recipe |-> s.recipe, id |-> s.id,
     isCompleted |-> isCompleted, isSuccessful |-> isSuccessful]
NewRecord(e, s) == Record(e, s, FALSE, FALSE)

Matching(e, s) ==
    {i \in DOMAIN session.records :
        /\ session.records[i].execution = e
        /\ session.records[i].recipe = s.recipe
        /\ session.records[i].id = s.id}

\* SingleOrDefault throws when there are two.
RecordIsUnique(e, s) == \A i, j \in Matching(e, s) : i = j

\* Mutant of UpdateStepResultRecord: a record that is completed is successful.
UpdateStepResultRecord_Done(e, s, isSuccessful) ==
    [i \in DOMAIN session.records |->
        IF i \in Matching(e, s) THEN Record(e, s, TRUE, TRUE) ELSE session.records[i]]
UpdateStepResultRecord(e, s, isSuccessful) ==
    [i \in DOMAIN session.records |->
        IF i \in Matching(e, s) THEN Record(e, s, TRUE, isSuccessful)
                                 ELSE session.records[i]]

------------------------------------------------------------------------------
\* RecipeManager.Execute: a recipe without steps is not scheduled.
Execute ==
    /\ at = "request" /\ next \in DOMAIN use.recipes
    /\ toQueue' = RecipeSteps(use.recipes[next])
    /\ at' = IF toQueue' = <<>> THEN "request" ELSE "queueing"
    /\ next' = next + 1
    /\ UNCHANGED <<use, queue, toRead, tasks, running, db, session, history>>

\* A step is queued, with its record, by Execute or by a step that names recipes.
Enqueue ==
    /\ at \in {"queueing", "step"} /\ toQueue # <<>>
    /\ LET e == IF at = "step" THEN running.execution ELSE next - 1
           s == Head(toQueue)
       IN /\ queue' = [queue EXCEPT ![e] = Enqueued(@, s)]
          /\ session' = [records |-> Append(session.records, NewRecord(e, s)),
                         effects |-> session.effects]
    /\ toQueue' = Tail(toQueue)
    /\ UNCHANGED <<use, at, next, toRead, tasks, running, db, history>>

ScheduleWork(e) == Append(tasks, e)

Schedule ==
    /\ at = "queueing" /\ toQueue = <<>>
    /\ tasks' = ScheduleWork(next - 1)
    /\ at' = "request"
    /\ UNCHANGED <<use, next, queue, toRead, toQueue, running, db, session, history>>

\* The controller returns, and the transaction of the request is committed.
Return ==
    /\ at = "request" /\ next \notin DOMAIN use.recipes
    /\ at' = "pump"
    /\ db' = session
    /\ UNCHANGED <<use, queue, memory, session, history>>

\* The controller throws, which cancels the transaction: the files stay, and so
\* do the tasks, which EndRequest runs.
Throw ==
    /\ "throw" \in use.may /\ at \in {"request", "queueing"}
    /\ at' = "pump"
    /\ session' = db
    /\ toQueue' = <<>>
    /\ UNCHANGED <<use, next, queue, toRead, tasks, running, db, history>>

\* Execute throws and the controller goes on: what was queued stays, with its
\* records, and has no task.
Catch ==
    /\ "throw" \in use.may /\ at = "queueing"
    /\ at' = "request"
    /\ toQueue' = <<>>
    /\ UNCHANGED <<use, next, queue, toRead, tasks, running, db, session, history>>

------------------------------------------------------------------------------
\* A task takes the first step from the queue, before anything else.
TakeStep ==
    /\ at = "pump" /\ tasks # <<>>
    /\ LET e == Head(tasks)
           s == queue[e][FirstStepIndex(queue[e])]
       IN /\ DOMAIN queue[e] # {}
          /\ queue' = [queue EXCEPT ![e] = Dequeued(@)]
          /\ started' = [started EXCEPT ![e] = Append(@, s)]
          /\ running' = [execution |-> e, step |-> s]
          /\ toRead' = s.names
    /\ tasks' = Tail(tasks)
    /\ at' = "step"
    /\ UNCHANGED <<use, next, toQueue, db, session, completed, failed>>

\* There is none: the execution is complete, and the shell restarts.
Complete ==
    /\ at = "pump" /\ tasks # <<>> /\ DOMAIN queue[Head(tasks)] = {}
    /\ completed' = completed \cup {Head(tasks)}
    /\ tasks' = Tail(tasks)
    /\ UNCHANGED <<use, at, next, queue, toRead, toQueue, running, db, session, started,
                   failed>>

\* RecipesStep: the next of the recipes that a step names is read, to be queued.
ReadRecipe ==
    /\ at = "step" /\ toQueue = <<>> /\ toRead # <<>>
    /\ toQueue' = RecipeSteps(Head(toRead))
    /\ toRead' = Tail(toRead)
    /\ UNCHANGED <<use, at, next, queue, tasks, running, db, session, history>>

StepEnds == at = "step" /\ toRead = <<>> /\ toQueue = <<>>

OfStep == {<<running.execution, running.step>>}

\* The Migration step, before each of its migrations: RequireNew commits what has been
\* written so far, and the migration writes in a transaction of its own.
Migrate ==
    /\ StepEnds /\ running.step.does \in {"migrates", "breaks"}
    /\ db' = session
    /\ session' = [records |-> session.records, effects |-> session.effects \cup OfStep]
    /\ UNCHANGED <<use, at, queue, memory, history>>

\* What is written, but for what is committed with the record, when the handler returns
\* or throws, where it may be a part; a migration that breaks has cancelled what was not
\* committed.
Effects ==
    CASE running.step.does = "breaks" -> db.effects
      [] running.step.does = "unclaimed" -> session.effects
      [] OTHER -> session.effects \cup OfStep

\* Mutant of ScheduleMore: a task runs one step and adds no other.
ScheduleMore_Not(e) == tasks
\* ExecuteWork, when a step has been executed.
ScheduleMore(e) == ScheduleWork(e)

\* The record is updated and the next task added.
Succeed ==
    /\ StepEnds
    /\ LET e == running.execution
           s == running.step
       IN /\ s.does \in {"works", "migrates"} /\ RecordIsUnique(e, s)
          /\ session' = [records |-> UpdateStepResultRecord(e, s, TRUE),
                         effects |-> Effects]
          /\ tasks' = ScheduleMore(e)
    /\ at' = "commit"
    /\ UNCHANGED <<use, next, queue, toRead, toQueue, running, db, history>>

\* The step throws, or no handler has claimed it, which is found after its
\* record was updated: the rest of the queue is dropped, and no task added.
Fail ==
    /\ StepEnds
    /\ LET e == running.execution
           s == running.step
       IN /\ s.does \notin {"works", "migrates"} /\ RecordIsUnique(e, s)
          /\ session' = [records |-> UpdateStepResultRecord(e, s, s.does = "unclaimed"),
                         effects |-> Effects]
          /\ queue' = [queue EXCEPT ![e] = Drained(@)]
          /\ failed' = failed \cup {e}
    /\ at' = "commit"
    /\ UNCHANGED <<use, next, toRead, toQueue, tasks, running, db, started, completed>>

\* Two records match: the update throws, and throws again where that exception
\* is caught, so that the queue is left as it is.
FailTwice ==
    /\ StepEnds /\ ~RecordIsUnique(running.execution, running.step)
    /\ session' = [records |-> session.records, effects |-> Effects]
    /\ failed' = failed \cup {running.execution}
    /\ at' = "commit"
    /\ UNCHANGED <<use, next, queue, toRead, toQueue, tasks, running, db, started,
                   completed>>

\* The bus keeps the exception of a step, and the transaction of the task is
\* committed whatever the step did.
Commit ==
    /\ at = "commit"
    /\ db' = session
    /\ running' = NoStep
    /\ at' = "pump"
    /\ UNCHANGED <<use, next, queue, toRead, toQueue, tasks, session, history>>

\* The commit fails, or the context of the next task cannot be made: EndRequest
\* throws, and the tasks go with the request.
LoseTasks ==
    /\ "lose" \in use.may
    /\ at = "commit" \/ (at = "pump" /\ tasks # <<>>)
    /\ session' = db
    /\ tasks' = <<>> /\ running' = NoStep
    /\ at' = "over"
    /\ UNCHANGED <<use, next, queue, toRead, toQueue, db, history>>

EndRequest ==
    /\ at = "pump" /\ tasks = <<>>
    /\ at' = "over"
    /\ UNCHANGED <<use, queue, memory, db, session, history>>

\* The process ends: what is in memory is gone, and nobody looks for the files
\* when it starts again.
Crash ==
    /\ "crash" \in use.may /\ at # "over"
    /\ at' = "over"
    /\ tasks' = <<>> /\ toRead' = <<>> /\ toQueue' = <<>> /\ running' = NoStep
    /\ session' = db
    /\ UNCHANGED <<use, next, queue, db, history>>

Request == Execute \/ Enqueue \/ Schedule \/ Return
RunTask ==
    \/ TakeStep \/ Complete \/ ReadRecipe \/ Migrate \/ Succeed \/ Fail \/ FailTwice
    \/ Commit \/ EndRequest

Next == Request \/ RunTask \/ Throw \/ Catch \/ LoseTasks \/ Crash

Spec == Init /\ [][Next]_vars

\* A request goes on until it ends.
FairSpec == Spec /\ WF_vars(Request \/ RunTask)

------------------------------------------------------------------------------
\* Every variable holds what its declaration says, and the number of a file is
\* one that Int32.Parse reads back.
TypeOK ==
    /\ at \in {"request", "queueing", "pump", "step", "commit", "over"}
    /\ next \in Nat
    /\ \A e \in Executions :
        /\ DOMAIN queue[e] \subseteq Nat
        /\ \A i \in DOMAIN queue[e] : queue[e][i] \in Steps
        /\ started[e] \in Seq(Steps)
    /\ toRead \in Seq(Names) /\ toQueue \in Seq(Steps)
    /\ tasks \in Seq(Executions)
    /\ running \in {NoStep} \cup [execution : Executions, step : Steps]
    /\ \A d \in {db, session} :
        d.records \in Seq(Records) /\ d.effects \subseteq Executions \X Steps
    /\ completed \subseteq Executions /\ failed \subseteq Executions

\* The files of a folder, in the order of their numbers: k are up to the k-th.
InOrder(files) ==
    LET UpTo(i) == {j \in DOMAIN files : j <= i}
    IN [k \in 1..Cardinality(DOMAIN files) |->
            files[CHOOSE i \in DOMAIN files : Cardinality(UpTo(i)) = k]]

\* The folder is a queue: steps start in the order in which they were queued, and
\* none starts twice, whatever fails and whenever the process ends.
Run == INSTANCE RecipeRun WITH waiting <- [e \in Executions |-> InOrder(queue[e])]
RunsInOrder == Run!Spec

RecordsOf(e, s) ==
    {i \in DOMAIN db.records :
        /\ db.records[i].execution = e
        /\ db.records[i].recipe = s.recipe
        /\ db.records[i].id = s.id}

\* A step of the execution has named the recipe that was to be executed.
RunsItself(e) == \E s \in Range(started[e]) : use.recipes[e] \in Range(s.names)

\* f is written by a Migration step that has not come to its end: it is running, or the
\* process ended, or the commit failed, with some of its migrations committed.
HalfWay(f) ==
    /\ f[2].does \in {"migrates", "breaks"}
    /\ \/ at \in {"step", "commit"} /\ f[1] = running.execution /\ f[2] = running.step
       \/ at = "over" /\ use.may \cap {"crash", "lose"} # {}

\* Over the database: a record that is completed stands for a step that has started, and
\* reports success unless the step threw, or a migration of it broke.  Its writes are there
\* with it, but when no handler claimed the step, which then reports success, and when a
\* migration broke, which cancelled them.  The other way round, writes that are there are
\* reported, by a record that is there unless the request was cancelled, and that says
\* so, unless migrations are committed before the step ends, or a recipe is in the execution
\* twice: there are two records then, or that of the second time if the first was cancelled.
RecordedAsDone ==
    /\ \A i \in DOMAIN db.records :
        LET r == db.records[i] IN
        r.isCompleted =>
            \E s \in Range(started[r.execution]) :
                /\ s.recipe = r.recipe /\ s.id = r.id
                /\ s.does \in {"unclaimed", "breaks"} \/ <<r.execution, s>> \in db.effects
                /\ r.isSuccessful <=> s.does \notin {"throws", "breaks"}
    /\ \A f \in db.effects :
        LET records == RecordsOf(f[1], f[2]) IN
        /\ "throw" \in use.may \/ records # {}
        /\ /\ Cardinality(records) = 1 /\ ~HalfWay(f)
           /\ "throw" \in use.may => ~RunsItself(f[1])
           => \A i \in records : db.records[i].isCompleted

NoneTwice(e) ==
    \A i \in DOMAIN db.records :
        db.records[i].execution = e => Cardinality(RecordsOf(e, db.records[i])) = 1

\* A request that ends without losing its tasks leaves nothing in the queue of an
\* execution that it scheduled, which either failed, or is complete with every one
\* of its steps recorded.  It is otherwise when a recipe is there twice.
NothingLeft ==
    at = "over" /\ use.may = {} =>
        \A e \in Executions :
            NoneTwice(e) =>
                /\ DOMAIN queue[e] = {}
                /\ e \in failed \/ \A i \in DOMAIN db.records :
                    db.records[i].execution = e => db.records[i].isSuccessful

\* An execution that has started ends: the shell restarts, or a step has failed.
EveryExecutionEnds ==
    \A e \in Executions :
        started[e] # <<>> /\ use.may \subseteq {"throw"} ~> e \in completed \cup failed
==============================================================================
