------------------------------ MODULE Recipes_proofs ------------------------------
(***************************************************************************)
(* Recipes for any contents of recipes and any request: the types, that    *)
(* the records of steps agree with what the steps wrote, that nothing is   *)
(* left when nothing is lost, and that the folders are the queues of       *)
(* RecipeRun.                                                              *)
(***************************************************************************)
EXTENDS Recipes, FiniteSetTheorems, TLAPS

\* The files of a folder have consecutive numbers.
Folders == UNION {UNION {[lo..hi -> Steps] : hi \in Nat} : lo \in Nat}

Databases == [records : Seq(Records), effects : SUBSET (Executions \X Steps)]

Typed ==
    /\ use \in Uses
    /\ at \in {"request", "queueing", "pump", "step", "commit", "over"}
    /\ next \in Nat \ {0}
    /\ queue \in [Executions -> Folders]
    /\ toRead \in Seq(Names) /\ toQueue \in Seq(Steps)
    /\ tasks \in Seq(Executions)
    /\ running \in {NoStep} \cup [execution : Executions, step : Steps]
    /\ db \in Databases /\ session \in Databases
    /\ started \in [Executions -> Seq(Steps)]
    /\ completed \subseteq Executions /\ failed \subseteq Executions
    /\ at = "queueing" => next - 1 \in DOMAIN use.recipes
    /\ at \in {"step", "commit"} => running # NoStep

\* A step has the fields that the parser gives it.
LEMMA StepFields ==
    ASSUME RecipesAssumption, NEW s \in Steps
    PROVE  s \in [recipe : Names, id : Nat \ {0},
                  does : {"works", "throws", "unclaimed", "migrates", "breaks"},
                  names : Seq(Names)]
<1>1. PICK u \in Uses, r \in Names : s \in Range(StepsIn(u, r))
    BY DEF Steps
<1>2. PICK i \in DOMAIN StepsIn(u, r) : s = StepsIn(u, r)[i]
    BY <1>1 DEF Range
<1> DEFINE S == [does : {"works", "throws", "unclaimed", "migrates", "breaks"},
                 names : Seq(Names)]
<1>3. u.steps[r] \in Seq(AllSteps)
    BY DEF RecipesAssumption, AllContents
<1>4. DOMAIN StepsIn(u, r) = 1..Len(u.steps[r]) /\ Len(u.steps[r]) \in Nat
    BY <1>3 DEF StepsIn
<1>5. i \in 1..Len(u.steps[r]) /\ i \in Nat \ {0}
    BY <1>4
<1>8. u.steps[r][i] \in AllSteps
    BY <1>3, <1>5
<1>9. <<>> \in Seq(Names)
    OBVIOUS
<1>6. u.steps[r][i] \in S
    BY <1>8, <1>9 DEF AllSteps
<1> HIDE DEF S
<1>7. s = [recipe |-> r, id |-> i,
           does |-> u.steps[r][i].does, names |-> u.steps[r][i].names]
    BY <1>2 DEF StepsIn
<1> QED
    BY <1>5, <1>6, <1>7 DEF S

\* The steps of a recipe are steps, and they are of that recipe.
LEMMA StepsOfRecipe ==
    ASSUME RecipesAssumption, NEW u \in Uses, NEW r \in Names
    PROVE  /\ StepsIn(u, r) \in Seq(Steps)
           /\ \A i \in DOMAIN StepsIn(u, r) : StepsIn(u, r)[i].recipe = r
<1>1. u.steps[r] \in Seq(AllSteps)
    BY DEF RecipesAssumption, AllContents
<1>2. DOMAIN StepsIn(u, r) = 1..Len(u.steps[r]) /\ Len(u.steps[r]) \in Nat
    BY <1>1 DEF StepsIn
<1>3. ASSUME NEW i \in DOMAIN StepsIn(u, r)
      PROVE  StepsIn(u, r)[i] \in Steps /\ StepsIn(u, r)[i].recipe = r
    <2>1. StepsIn(u, r)[i] \in Range(StepsIn(u, r))
        BY DEF Range
    <2>2. StepsIn(u, r)[i].recipe = r
        BY <1>3 DEF StepsIn
    <2> QED
        BY <2>1, <2>2 DEF Steps
<1>4. StepsIn(u, r) = [i \in 1..Len(u.steps[r]) |-> StepsIn(u, r)[i]]
    BY <1>2 DEF StepsIn
<1>5. StepsIn(u, r) \in [1..Len(u.steps[r]) -> Steps]
    BY <1>2, <1>3, <1>4
<1> QED
    BY <1>2, <1>3, <1>5

------------------------------------------------------------------------------
\* What a folder is, apart from the set of all of them.
LEMMA FoldersAre ==
    ASSUME NEW f
    PROVE  f \in Folders <=> \E lo \in Nat, hi \in Nat : f \in [lo..hi -> Steps]
    BY DEF Folders

\* A folder without files has no first number, and stands for an empty queue.
LEMMA EmptyFolder ==
    ASSUME NEW f \in Folders, DOMAIN f = {}
    PROVE  /\ LastStepIndex(f) = -1
           /\ InOrder(f) = <<>> /\ InOrder(f) \in Seq(Steps)
<1>1. Cardinality(DOMAIN f) = 0
    BY FS_EmptySet
<1>2. 1..Cardinality(DOMAIN f) = {}
    BY <1>1
<1>3. InOrder(f) = [k \in {} |-> f[k]]
    BY <1>2 DEF InOrder
<1> QED
    BY <1>3 DEF LastStepIndex

\* In a folder with files, the k-th is k - 1 behind the first.
LEMMA FolderInOrder ==
    ASSUME NEW lo \in Nat, NEW hi \in Nat, lo <= hi, NEW f \in [lo..hi -> Steps]
    PROVE  /\ FirstStepIndex(f) = lo /\ LastStepIndex(f) = hi
           /\ InOrder(f) = [k \in 1..(hi - lo + 1) |-> f[lo + k - 1]]
           /\ InOrder(f) \in Seq(Steps) /\ Len(InOrder(f)) = hi - lo + 1
<1>1. lo \in DOMAIN f /\ hi \in DOMAIN f /\ DOMAIN f = lo..hi
    OBVIOUS
<1>2. FirstStepIndex(f) = lo
    <2>1. \A i \in DOMAIN f : (\A j \in DOMAIN f : i <= j) <=> i = lo
        BY <1>1
    <2> QED
        BY <1>1, <2>1 DEF FirstStepIndex
<1>3. LastStepIndex(f) = hi
    <2>1. \A i \in DOMAIN f : (\A j \in DOMAIN f : j <= i) <=> i = hi
        BY <1>1
    <2>2. DOMAIN f # {}
        BY <1>1
    <2> QED
        BY <1>1, <2>1, <2>2 DEF LastStepIndex
<1> DEFINE UpTo(i) == {j \in DOMAIN f : j <= i}
           At(k) == CHOOSE i \in DOMAIN f : Cardinality(UpTo(i)) = k
           n == hi - lo + 1
<1>4. n \in Nat /\ n = hi - lo + 1 /\ Cardinality(DOMAIN f) = n
    <2>1. Cardinality(lo..hi) = hi - lo + 1
        BY FS_Interval
    <2> QED
        BY <1>1, <2>1
<1>5. ASSUME NEW i \in DOMAIN f PROVE Cardinality(UpTo(i)) = i - lo + 1
    <2>1. UpTo(i) = lo..i /\ i \in Int /\ lo \in Int /\ ~(lo > i)
        BY <1>1, <1>5
    <2>2. Cardinality(lo..i) = i - lo + 1
        BY <2>1, FS_Interval
    <2> QED
        BY <2>1, <2>2
<1>6. InOrder(f) = [k \in 1..n |-> f[At(k)]]
    BY <1>4 DEF InOrder
<1> HIDE DEF n, UpTo
<1>7. ASSUME NEW k \in 1..n PROVE At(k) = lo + k - 1
    <2>1. lo + k - 1 \in DOMAIN f
        BY <1>1, <1>4
    <2>2. \A i \in DOMAIN f : Cardinality(UpTo(i)) = k <=> i = lo + k - 1
        BY <1>1, <1>4, <1>5
    <2> QED
        BY <2>1, <2>2
<1> HIDE DEF At
<1>8. InOrder(f) = [k \in 1..n |-> f[lo + k - 1]]
    BY <1>6, <1>7
<1>9. \A k \in 1..n : f[lo + k - 1] \in Steps
    BY <1>1, <1>4
<1>10. InOrder(f) \in Seq(Steps) /\ Len(InOrder(f)) = n
    BY <1>4, <1>8, <1>9
<1> QED
    BY <1>2, <1>3, <1>4, <1>8, <1>10

\* A folder with files has a first and a last one.
LEMMA FolderBounds ==
    ASSUME NEW f \in Folders, DOMAIN f # {}
    PROVE  \E lo \in Nat, hi \in Nat : lo <= hi /\ f \in [lo..hi -> Steps]
<1>1. PICK lo \in Nat, hi \in Nat : f \in [lo..hi -> Steps]
    BY FoldersAre
<1>2. PICK i : i \in lo..hi
    BY <1>1
<1> QED
    BY <1>1, <1>2

\* What a folder stands for is a sequence of steps.
LEMMA InOrderType ==
    ASSUME NEW f \in Folders
    PROVE  InOrder(f) \in Seq(Steps) /\ (InOrder(f) = <<>> <=> DOMAIN f = {})
<1>1. CASE DOMAIN f = {}
    BY <1>1, EmptyFolder
<1>2. CASE DOMAIN f # {}
    <2>1. PICK lo \in Nat, hi \in Nat : lo <= hi /\ f \in [lo..hi -> Steps]
        BY <1>2, FolderBounds
    <2>2. InOrder(f) \in Seq(Steps) /\ Len(InOrder(f)) = hi - lo + 1
        BY <2>1, FolderInOrder
    <2>3. hi - lo + 1 # 0
        BY <2>1
    <2> QED
        BY <1>2, <2>2, <2>3
<1> QED
    BY <1>1, <1>2

\* Enqueue adds a file behind the others.
LEMMA EnqueuedInOrder ==
    ASSUME NEW f \in Folders, NEW s \in Steps
    PROVE  /\ Enqueued(f, s) \in Folders
           /\ InOrder(Enqueued(f, s)) = Append(InOrder(f), s)
           /\ \A i \in DOMAIN Enqueued(f, s) :
                Enqueued(f, s)[i] = s \/ (i \in DOMAIN f /\ Enqueued(f, s)[i] = f[i])
           /\ \A i \in DOMAIN f : i \in DOMAIN Enqueued(f, s) /\ Enqueued(f, s)[i] = f[i]
           /\ \E i \in DOMAIN Enqueued(f, s) : Enqueued(f, s)[i] = s
<1>1. CASE DOMAIN f = {}
    <2>1. Enqueued(f, s) = [i \in 0..0 |-> s]
        <3>1. LastStepIndex(f) + 1 = 0
            BY <1>1, EmptyFolder
        <3>2. {0} = 0..0
            OBVIOUS
        <3> QED
            BY <1>1, <3>1, <3>2 DEF Enqueued
    <2>2. Enqueued(f, s) \in [0..0 -> Steps]
        BY <2>1
    <2>3. InOrder(Enqueued(f, s)) = [k \in 1..1 |-> s]
        <3> DEFINE g == Enqueued(f, s)
        <3>1. g \in [0..0 -> Steps] /\ 0 \in Nat /\ 0 <= 0
            BY <2>2
        <3>2. g[0] = s
            BY <2>1
        <3> HIDE DEF g
        <3>3. InOrder(g) = [k \in 1..(0 - 0 + 1) |-> g[0 + k - 1]]
            BY <3>1, FolderInOrder
        <3>4. 0 - 0 + 1 = 1 /\ \A k \in 1..1 : 0 + k - 1 = 0
            OBVIOUS
        <3>5. InOrder(g) = [k \in 1..1 |-> g[0]]
            BY <3>3, <3>4
        <3> QED
            BY <3>2, <3>5 DEF g
    <2>4. InOrder(f) = <<>>
        BY <1>1, EmptyFolder
    <2>5. Append(<<>>, s) = [k \in 1..1 |-> s]
        OBVIOUS
    <2>6. Enqueued(f, s) \in Folders
        BY <2>2, FoldersAre
    <2> QED
        BY <1>1, <2>1, <2>3, <2>4, <2>5, <2>6
<1>2. CASE DOMAIN f # {}
    <2>1. PICK lo \in Nat, hi \in Nat : lo <= hi /\ f \in [lo..hi -> Steps]
        BY <1>2, FolderBounds
    <2> DEFINE g == Enqueued(f, s)
    <2>2. LastStepIndex(f) = hi /\ InOrder(f) = [k \in 1..(hi - lo + 1) |-> f[lo + k - 1]]
        BY <2>1, FolderInOrder
    <2>3. g = [i \in lo..(hi + 1) |-> IF i = hi + 1 THEN s ELSE f[i]]
        <3>1. DOMAIN f \cup {hi + 1} = lo..(hi + 1)
            BY <2>1
        <3> QED
            BY <2>2, <3>1 DEF Enqueued
    <2>4. g \in [lo..(hi + 1) -> Steps]
        BY <2>1, <2>3
    <2> HIDE DEF g
    <2>5. InOrder(g) = [k \in 1..(hi + 1 - lo + 1) |-> g[lo + k - 1]]
        BY <2>1, <2>4, FolderInOrder
    <2>6. InOrder(g) = Append(InOrder(f), s)
        <3> DEFINE n == hi - lo + 1
        <3>1. n \in Nat /\ hi + 1 - lo + 1 = n + 1 /\ n + 1 \in 1..(n + 1)
            BY <2>1
        <3>2. \A k \in 1..n : lo + k - 1 \in lo..(hi + 1) /\ lo + k - 1 # hi + 1
            BY <2>1
        <3>3. lo + (n + 1) - 1 = hi + 1 /\ hi + 1 \in lo..(hi + 1)
            BY <2>1
        <3>4. InOrder(f) = [k \in 1..n |-> f[lo + k - 1]]
            BY <2>2
        <3>5. InOrder(g) = [k \in 1..(n + 1) |-> g[lo + k - 1]]
            BY <2>5, <3>1
        <3> HIDE DEF n
        <3>6. InOrder(f) \in Seq(Steps) /\ Len(InOrder(f)) = n
            BY <2>1, FolderInOrder DEF n
        <3>7. Append(InOrder(f), s) =
                [k \in 1..(n + 1) |-> IF k = n + 1 THEN s ELSE InOrder(f)[k]]
            <4>1. PICK q \in Seq(Steps) : q = InOrder(f)
                BY <3>6
            <4>2. Len(q) = n
                BY <3>6, <4>1
            <4> DEFINE p == Append(q, s)
            <4>5. /\ p \in Seq(Steps) /\ Len(p) = Len(q) + 1
                  /\ \A k \in 1..(Len(q) + 1) : p[k] = IF k = Len(q) + 1 THEN s ELSE q[k]
                OBVIOUS
            <4> HIDE DEF p
            <4>6. p = [k \in 1..Len(p) |-> p[k]]
                BY <4>5
            <4>3. p = [k \in 1..(Len(q) + 1) |-> IF k = Len(q) + 1 THEN s ELSE q[k]]
                BY <4>5, <4>6
            <4> QED
                BY <4>1, <4>2, <4>3 DEF p
        <3>8. \A k \in 1..(n + 1) :
                g[lo + k - 1] = IF k = n + 1 THEN s ELSE InOrder(f)[k]
            <4>1. ASSUME NEW k \in 1..n PROVE g[lo + k - 1] = InOrder(f)[k]
                BY <2>3, <3>2, <3>4
            <4>2. g[lo + (n + 1) - 1] = s
                BY <2>3, <3>3
            <4>3. \A k \in 1..(n + 1) : k = n + 1 \/ (k \in 1..n /\ k # n + 1)
                BY <3>1
            <4> QED
                BY <4>1, <4>2, <4>3
        <3> QED
            BY <3>5, <3>7, <3>8
    <2>7. \A i \in lo..(hi + 1) : i = hi + 1 \/ i \in lo..hi
        BY <2>1
    <2>8. hi + 1 \in lo..(hi + 1) /\ \A i \in lo..hi : i \in lo..(hi + 1) /\ i # hi + 1
        BY <2>1
    <2>9. g \in Folders
        BY <2>1, <2>4, FoldersAre
    <2>10. /\ \A i \in DOMAIN g : g[i] = s \/ (i \in DOMAIN f /\ g[i] = f[i])
           /\ \A i \in DOMAIN f : i \in DOMAIN g /\ g[i] = f[i]
           /\ \E i \in DOMAIN g : g[i] = s
        BY <2>1, <2>3, <2>7, <2>8
    <2> QED
        BY <2>6, <2>9, <2>10 DEF g
<1> QED
    BY <1>1, <1>2

\* Dequeue takes the first file, and leaves the others as they are.
LEMMA DequeuedInOrder ==
    ASSUME NEW f \in Folders, DOMAIN f # {}
    PROVE  /\ Dequeued(f) \in Folders
           /\ InOrder(f) # <<>>
           /\ Head(InOrder(f)) = f[FirstStepIndex(f)]
           /\ InOrder(Dequeued(f)) = Tail(InOrder(f))
           /\ FirstStepIndex(f) \in DOMAIN f /\ f[FirstStepIndex(f)] \in Steps
           /\ \A i \in DOMAIN Dequeued(f) : i \in DOMAIN f /\ Dequeued(f)[i] = f[i]
           /\ \A i \in DOMAIN f :
                i = FirstStepIndex(f) \/ (i \in DOMAIN Dequeued(f) /\ Dequeued(f)[i] = f[i])
<1>1. PICK lo \in Nat, hi \in Nat : lo <= hi /\ f \in [lo..hi -> Steps]
    BY FolderBounds
<1> DEFINE g == Dequeued(f)
<1>2. /\ FirstStepIndex(f) = lo
      /\ InOrder(f) = [k \in 1..(hi - lo + 1) |-> f[lo + k - 1]]
      /\ InOrder(f) \in Seq(Steps) /\ Len(InOrder(f)) = hi - lo + 1
    BY <1>1, FolderInOrder
<1>3. g = [i \in (lo + 1)..hi |-> f[i]]
    <2>1. DOMAIN f \ {lo} = (lo + 1)..hi
        BY <1>1
    <2> QED
        BY <1>2, <2>1 DEF Dequeued
<1>4. g \in [(lo + 1)..hi -> Steps]
    BY <1>1, <1>3
<1>5. /\ lo \in DOMAIN f /\ f[lo] \in Steps
      /\ \A i \in (lo + 1)..hi : i \in DOMAIN f
      /\ \A i \in DOMAIN f : i = lo \/ i \in (lo + 1)..hi
    BY <1>1
<1> HIDE DEF g
<1>6. Head(InOrder(f)) = f[lo] /\ InOrder(f) # <<>>
    BY <1>1, <1>2
<1>7. InOrder(g) = Tail(InOrder(f))
    <2>1. CASE lo = hi
        <3>1. DOMAIN g = {} /\ g \in Folders
            BY <1>1, <1>4, <2>1, FoldersAre
        <3>2. InOrder(g) = <<>>
            BY <3>1, EmptyFolder
        <3>3. Len(InOrder(f)) = 1
            BY <1>2, <2>1
        <3>4. Tail(InOrder(f)) = <<>>
            BY <1>2, <3>3
        <3> QED
            BY <3>2, <3>4
    <2>2. CASE lo # hi
        <3>1. InOrder(g) = [k \in 1..(hi - (lo + 1) + 1) |-> g[lo + 1 + k - 1]]
            BY <1>1, <1>4, <2>2, FolderInOrder
        <3>2. \A k \in 1..(hi - lo) : lo + k \in (lo + 1)..hi /\ lo + 1 + k - 1 = lo + k
            BY <1>1, <2>2
        <3>3. hi - (lo + 1) + 1 = hi - lo
            BY <1>1
        <3>4. \A i \in (lo + 1)..hi : g[i] = f[i]
            BY <1>3
        <3>5. InOrder(g) = [k \in 1..(hi - lo) |-> f[lo + k]]
            <4>1. \A k \in 1..(hi - lo) : g[lo + 1 + k - 1] = f[lo + k]
                BY <3>2, <3>4
            <4> QED
                BY <3>1, <3>3, <4>1
        <3>6. Tail(InOrder(f)) = [k \in 1..(hi - lo) |-> f[lo + k]]
            <4>1. PICK q \in Seq(Steps) :
                    /\ q = InOrder(f) /\ Len(q) = hi - lo + 1
                    /\ \A k \in 1..(hi - lo + 1) : q[k] = f[lo + k - 1]
                BY <1>2
            <4>2. PICK p \in Seq(Steps) :
                    /\ p = Tail(q) /\ Len(p) = Len(q) - 1
                    /\ \A k \in 1..(Len(q) - 1) : p[k] = q[k + 1]
                <5>1. q # <<>>
                    BY <1>1, <4>1
                <5>2. /\ Tail(q) \in Seq(Steps) /\ Len(Tail(q)) = Len(q) - 1
                      /\ \A k \in 1..(Len(q) - 1) : Tail(q)[k] = q[k + 1]
                    BY <5>1
                <5> QED
                    BY <5>2
            <4>3. Len(p) = hi - lo
                BY <1>1, <4>1, <4>2
            <4>4. \A k \in 1..(hi - lo) :
                    /\ k \in 1..(Len(q) - 1) /\ k + 1 \in 1..(hi - lo + 1)
                    /\ lo + (k + 1) - 1 = lo + k
                BY <1>1, <4>1
            <4>5. \A k \in 1..(hi - lo) : p[k] = f[lo + k]
                BY <4>1, <4>2, <4>4
            <4>6. p = [k \in 1..(hi - lo) |-> p[k]]
                BY <4>3
            <4> QED
                BY <4>1, <4>2, <4>5, <4>6
        <3> QED
            BY <3>5, <3>6
    <2> QED
        BY <2>1, <2>2
<1>8. g \in Folders
    BY <1>1, <1>4, FoldersAre
<1>9. /\ \A i \in DOMAIN g : i \in DOMAIN f /\ g[i] = f[i]
      /\ \A i \in DOMAIN f : i = lo \/ (i \in DOMAIN g /\ g[i] = f[i])
    BY <1>3, <1>5
<1> QED
    BY <1>2, <1>5, <1>6, <1>7, <1>8, <1>9 DEF g

\* Drained leaves no files.
LEMMA DrainedInOrder ==
    ASSUME NEW f
    PROVE  /\ Drained(f) \in Folders /\ DOMAIN Drained(f) = {}
           /\ InOrder(Drained(f)) = <<>>
<1>1. Drained(f) \in [1..0 -> Steps] /\ DOMAIN Drained(f) = {}
    BY DEF Drained
<1>2. Drained(f) \in Folders
    BY <1>1, FoldersAre
<1> QED
    BY <1>1, <1>2, EmptyFolder

------------------------------------------------------------------------------
\* A record has the fields that it is made with.
LEMMA RecordFields ==
    ASSUME RecipesAssumption, NEW e \in Executions, NEW s \in Steps,
           NEW b \in BOOLEAN, NEW c \in BOOLEAN
    PROVE  /\ Record(e, s, b, c) \in Records
           /\ Record(e, s, b, c).execution = e
           /\ Record(e, s, b, c).recipe = s.recipe /\ Record(e, s, b, c).id = s.id
           /\ Record(e, s, b, c).isCompleted = b /\ Record(e, s, b, c).isSuccessful = c
<1>1. s.recipe \in Names /\ s.id \in Nat \ {0}
    BY StepFields
<1> QED
    BY <1>1 DEF Record, Records

\* A record is added behind the others.
LEMMA RecordAdded ==
    ASSUME RecipesAssumption, NEW q \in Seq(Records), NEW r \in Records
    PROVE  /\ Append(q, r) \in Seq(Records)
           /\ DOMAIN Append(q, r) = DOMAIN q \cup {Len(q) + 1}
           /\ Len(q) + 1 \notin DOMAIN q
           /\ Append(q, r)[Len(q) + 1] = r
           /\ \A i \in DOMAIN q : Append(q, r)[i] = q[i]
    OBVIOUS

\* Record r is one of step s in execution e.
IsOf(r, e, s) == r.execution = e /\ r.recipe = s.recipe /\ r.id = s.id

\* The records, with r for each of those of step s in execution e.
Replaced(e, s, r) ==
    [i \in DOMAIN session.records |->
        IF i \in Matching(e, s) THEN r ELSE session.records[i]]

\* An update replaces the records of a step, and leaves the others.
LEMMA RecordsReplaced ==
    ASSUME session \in Databases, NEW e, NEW s, NEW r \in Records
    PROVE  /\ Replaced(e, s, r) \in Seq(Records)
           /\ DOMAIN Replaced(e, s, r) = DOMAIN session.records
           /\ \A i \in DOMAIN session.records :
                \/ (IsOf(session.records[i], e, s) /\ Replaced(e, s, r)[i] = r)
                \/ (~IsOf(session.records[i], e, s)
                        /\ Replaced(e, s, r)[i] = session.records[i])
<1>1. PICK p \in Seq(Records) : p = session.records
    BY DEF Databases
<1>2. PICK M : M = Matching(e, s)
    OBVIOUS
<1>3. PICK q : q = Replaced(e, s, r)
    OBVIOUS
<1>4. q = [i \in DOMAIN p |-> IF i \in M THEN r ELSE p[i]]
    BY <1>1, <1>2, <1>3 DEF Replaced
<1>5. q \in [1..Len(p) -> Records] /\ Len(p) \in Nat /\ DOMAIN p = 1..Len(p)
    BY <1>4
<1>6. q \in Seq(Records) /\ DOMAIN q = DOMAIN p
    BY <1>5
<1>7. \A i \in DOMAIN p : i \in M <=> IsOf(p[i], e, s)
    BY <1>1, <1>2 DEF Matching, IsOf
<1>8. \A i \in DOMAIN p : \/ (IsOf(p[i], e, s) /\ q[i] = r)
                          \/ (~IsOf(p[i], e, s) /\ q[i] = p[i])
    BY <1>4, <1>7
<1> QED
    BY <1>1, <1>3, <1>6, <1>8

------------------------------------------------------------------------------
\* What there is to execute, by the assumption.
LEMMA UseType ==
    ASSUME RecipesAssumption, NEW u \in Uses
    PROVE  /\ u.recipes \in Seq(Names) /\ DOMAIN u.recipes \subseteq Executions
           /\ u.may \subseteq {"throw", "crash", "lose"}
           /\ \A i \in DOMAIN u.recipes : u.recipes[i] \in Names
<1>1. u.recipes \in Seq(Names) /\ DOMAIN u.recipes \subseteq Executions
      /\ u.may \subseteq {"throw", "crash", "lose"}
    BY DEF RecipesAssumption
<1>2. PICK q \in Seq(Names) : q = u.recipes
    BY <1>1
<1>3. \A i \in DOMAIN q : q[i] \in Names
    OBVIOUS
<1> QED
    BY <1>1, <1>2, <1>3

\* The types hold at the start.
LEMMA TypedInit ==
    ASSUME RecipesAssumption, Init
    PROVE  Typed
<1>1. <<>> \in Folders
    <2>1. <<>> \in [1..0 -> Steps]
        OBVIOUS
    <2> QED
        BY <2>1, FoldersAre
<1>2. [records |-> <<>>, effects |-> {}] \in Databases
    BY DEF Databases
<1> QED
    BY <1>1, <1>2 DEF Init, Typed, NoStep

------------------------------------------------------------------------------
\* What a step of execution e does to the folder of e is in the type of the queue.
LEMMA QueueUpdated ==
    ASSUME NEW q \in [Executions -> Folders], NEW e \in Executions, NEW f \in Folders
    PROVE  [q EXCEPT ![e] = f] \in [Executions -> Folders]
    OBVIOUS

\* The execution that Enqueue writes a step for.
Busy == IF at = "step" THEN running.execution ELSE next - 1

\* It is an execution, and so is that of the step that runs.
LEMMA BusyType ==
    ASSUME RecipesAssumption, Typed, at \in {"queueing", "step", "commit"}
    PROVE  /\ at \in {"queueing", "step"} => Busy \in Executions
           /\ at \in {"step", "commit"} =>
                running \in [execution : Executions, step : Steps]
           /\ at = "queueing" => Busy = next - 1
<1>1. CASE at = "queueing"
    <2>1. next - 1 \in DOMAIN use.recipes /\ DOMAIN use.recipes \subseteq Executions
        BY <1>1, UseType DEF Typed
    <2> QED
        BY <1>1, <2>1 DEF Busy
<1>2. CASE at \in {"step", "commit"}
    <2>1. running \in [execution : Executions, step : Steps]
        BY <1>2 DEF Typed
    <2>2. running.execution \in Executions
        BY <2>1
    <2> QED
        BY <1>2, <2>1, <2>2 DEF Busy
<1> QED
    BY <1>1, <1>2

\* What Enqueue writes, for the sequence that it reads from.
LEMMA EnqueueFields ==
    ASSUME RecipesAssumption, Typed, Enqueue
    PROVE  /\ Busy \in Executions /\ Head(toQueue) \in Steps
           /\ queue' = [queue EXCEPT ![Busy] = Enqueued(queue[Busy], Head(toQueue))]
           /\ NewRecord(Busy, Head(toQueue)) \in Records
           /\ session' = [records |-> Append(session.records,
                                             NewRecord(Busy, Head(toQueue))),
                          effects |-> session.effects]
<1>1. at \in {"queueing", "step"} /\ toQueue # <<>> /\ toQueue \in Seq(Steps)
    BY DEF Enqueue, Typed
<1>2. Busy \in Executions
    BY <1>1, BusyType
<1>3. Head(toQueue) \in Steps
    BY <1>1
<1>4. NewRecord(Busy, Head(toQueue)) \in Records
    BY <1>2, <1>3, RecordFields DEF NewRecord
<1> QED
    BY <1>2, <1>3, <1>4 DEF Enqueue, Busy

\* What TakeStep takes.
LEMMA TakeStepFields ==
    ASSUME RecipesAssumption, Typed, TakeStep, NEW e, e = Head(tasks)
    PROVE  /\ e \in Executions /\ DOMAIN queue[e] # {} /\ queue[e] \in Folders
           /\ running'.step = queue[e][FirstStepIndex(queue[e])]
           /\ running'.execution = e
           /\ running' \in [execution : Executions, step : Steps]
           /\ queue' = [queue EXCEPT ![e] = Dequeued(queue[e])]
           /\ started' = [started EXCEPT ![e] = Append(started[e], running'.step)]
           /\ toRead' = running'.step.names /\ toRead' \in Seq(Names)
<1>1. e \in Executions
    BY DEF TakeStep, Typed
<1>2. queue[e] \in Folders /\ DOMAIN queue[e] # {}
    BY <1>1 DEF Typed, TakeStep
<1>3. PICK s \in Steps : s = queue[e][FirstStepIndex(queue[e])]
    BY <1>2, DequeuedInOrder
<1>4. running' = [execution |-> e, step |-> s] /\ toRead' = s.names
    BY <1>3 DEF TakeStep
<1>5. s.names \in Seq(Names)
    BY StepFields
<1>6. /\ queue' = [queue EXCEPT ![e] = Dequeued(queue[e])]
      /\ started' = [started EXCEPT ![e] = Append(started[e], s)]
    BY <1>3 DEF TakeStep
<1> QED
    BY <1>1, <1>2, <1>3, <1>4, <1>5, <1>6

\* What a step writes is of the type of the database.
LEMMA EffectsType ==
    ASSUME RecipesAssumption, Typed, at \in {"step", "commit"}
    PROVE  Effects \subseteq Executions \X Steps
<1>1. running.execution \in Executions /\ running.step \in Steps
    BY BusyType
<1>2. session.effects \subseteq Executions \X Steps
      /\ db.effects \subseteq Executions \X Steps
    BY DEF Typed, Databases
<1> QED
    BY <1>1, <1>2 DEF Effects, OfStep

\* Succeed and Fail: the records of the step are replaced by one that says what it did.
LEMMA StepUpdated ==
    ASSUME RecipesAssumption, Typed, Succeed \/ Fail,
           NEW e, e = running.execution, NEW s, s = running.step
    PROVE  \E r \in Records, q \in Seq(Records) :
            /\ IsOf(r, e, s) /\ r.isCompleted
            /\ r.isSuccessful <=> s.does \notin {"throws", "breaks"}
            /\ session' = [records |-> q, effects |-> Effects]
            /\ DOMAIN q = DOMAIN session.records
            /\ \A i \in DOMAIN session.records :
                \/ (IsOf(session.records[i], e, s) /\ q[i] = r)
                \/ (~IsOf(session.records[i], e, s) /\ q[i] = session.records[i])
<1>1. at = "step" /\ session \in Databases
    BY DEF Succeed, Fail, StepEnds, Typed
<1>2. e \in Executions /\ s \in Steps
    BY <1>1, BusyType
<1>3. PICK b \in BOOLEAN :
        /\ b <=> s.does \notin {"throws", "breaks"}
        /\ session' = [records |-> UpdateStepResultRecord(e, s, b), effects |-> Effects]
    <2>1. CASE Succeed
        BY <2>1 DEF Succeed
    <2>2. CASE Fail
        <3>1. s.does \in {"works", "throws", "unclaimed", "migrates", "breaks"}
            BY <1>2, StepFields
        <3>2. PICK b \in BOOLEAN : b = (s.does = "unclaimed")
            OBVIOUS
        <3> QED
            BY <2>2, <3>1, <3>2 DEF Fail
    <2> QED
        BY <2>1, <2>2
<1>4. PICK r \in Records : r = Record(e, s, TRUE, b)
    BY <1>2, RecordFields
<1>5. r.execution = e /\ r.recipe = s.recipe /\ r.id = s.id /\ r.isCompleted
      /\ (r.isSuccessful <=> b)
    BY <1>4 DEF Record
<1>6. PICK q \in Seq(Records) : q = Replaced(e, s, r)
    BY <1>1, RecordsReplaced
<1>7. /\ DOMAIN q = DOMAIN session.records
      /\ \A i \in DOMAIN session.records :
            \/ (IsOf(session.records[i], e, s) /\ q[i] = r)
            \/ (~IsOf(session.records[i], e, s) /\ q[i] = session.records[i])
    BY <1>1, <1>6, RecordsReplaced
<1>8. session' = [records |-> q, effects |-> Effects]
    <2>1. q = UpdateStepResultRecord(e, s, b)
        BY <1>4, <1>6 DEF UpdateStepResultRecord, Replaced
    <2> QED
        BY <1>3, <2>1
<1>9. IsOf(r, e, s) /\ (r.isSuccessful <=> s.does \notin {"throws", "breaks"})
    BY <1>3, <1>5 DEF IsOf
<1> QED
    <2> WITNESS r \in Records, q \in Seq(Records)
    <2> QED
        BY <1>5, <1>7, <1>8, <1>9

\* The steps that a recipe is made of are of that recipe, wherever they are read.
LEMMA ReadSteps ==
    ASSUME RecipesAssumption, Typed, NEW r \in Names, NEW q, q = RecipeSteps(r)
    PROVE  q \in Seq(Steps) /\ \A i \in DOMAIN q : q[i].recipe = r
    BY StepsOfRecipe DEF RecipeSteps, Typed

\* The types hold after every action.
LEMMA TypedNext ==
    ASSUME RecipesAssumption, Typed, [Next]_vars
    PROVE  Typed'
<1>1. CASE Execute
    <2>1. use.recipes[next] \in Names /\ next + 1 - 1 = next
        BY <1>1, UseType DEF Execute, Typed
    <2>2. toQueue' \in Seq(Steps)
        <3>1. toQueue' = RecipeSteps(use.recipes[next])
            BY <1>1 DEF Execute
        <3>2. RecipeSteps(use.recipes[next]) \in Seq(Steps)
            BY <2>1, ReadSteps
        <3> QED
            BY <3>1, <3>2
    <2> QED
        <3>1. at' \in {"request", "queueing"} /\ next' - 1 = next /\ next' \in Nat \ {0}
            BY <1>1 DEF Execute, Typed
        <3>2. next \in DOMAIN use.recipes
            BY <1>1 DEF Execute
        <3> QED
            BY <1>1, <2>2, <3>1, <3>2 DEF Execute, history, Typed
<1>2. CASE Enqueue
    <2>1. Tail(toQueue) \in Seq(Steps)
        BY <1>2 DEF Enqueue, Typed
    <2>2. PICK e \in Executions, s \in Steps :
            /\ e = Busy /\ s = Head(toQueue)
            /\ queue' = [queue EXCEPT ![e] = Enqueued(queue[e], s)]
            /\ NewRecord(e, s) \in Records
            /\ session' = [records |-> Append(session.records, NewRecord(e, s)),
                           effects |-> session.effects]
        BY <1>2, EnqueueFields
    <2>3. queue' \in [Executions -> Folders]
        <3>1. queue \in [Executions -> Folders] /\ queue[e] \in Folders
            BY DEF Typed
        <3>2. Enqueued(queue[e], s) \in Folders
            BY <3>1, EnqueuedInOrder
        <3> QED
            BY <2>2, <3>1, <3>2, QueueUpdated
    <2>4. session' \in Databases
        <3>1. session.records \in Seq(Records)
              /\ session.effects \in SUBSET (Executions \X Steps)
            BY DEF Databases, Typed
        <3>2. Append(session.records, NewRecord(e, s)) \in Seq(Records)
            BY <2>2, <3>1, RecordAdded
        <3> QED
            BY <2>2, <3>1, <3>2 DEF Databases
    <2> QED
        BY <1>2, <2>1, <2>3, <2>4 DEF Enqueue, history, Typed
<1>3. CASE Schedule
    <2>1. next - 1 \in Executions
        BY <1>3, UseType DEF Schedule, Typed
    <2> QED
        BY <1>3, <2>1 DEF Schedule, ScheduleWork, history, Typed
<1>4. CASE Return
    BY <1>4 DEF Typed, Return, memory, history
<1>5. CASE Throw
    BY <1>5 DEF Typed, Throw, history
<1>6. CASE Catch
    BY <1>6 DEF Typed, Catch, history
<1>7. CASE TakeStep
    <2>1. PICK e : e = Head(tasks)
        OBVIOUS
    <2>2. e \in Executions /\ queue[e] \in Folders /\ DOMAIN queue[e] # {}
        BY <1>7, <2>1, TakeStepFields
    <2>3. queue' \in [Executions -> Folders]
        <3>1. queue' = [queue EXCEPT ![e] = Dequeued(queue[e])]
            BY <1>7, <2>1, TakeStepFields
        <3>2. Dequeued(queue[e]) \in Folders /\ queue \in [Executions -> Folders]
            BY <2>2, DequeuedInOrder DEF Typed
        <3> QED
            BY <2>2, <3>1, <3>2, QueueUpdated
    <2>4. /\ started' = [started EXCEPT ![e] = Append(started[e], running'.step)]
          /\ running' \in [execution : Executions, step : Steps]
          /\ toRead' \in Seq(Names)
        BY <1>7, <2>1, TakeStepFields
    <2>5. started' \in [Executions -> Seq(Steps)]
        <3>1. running'.step \in Steps
            BY <2>4
        <3>2. started \in [Executions -> Seq(Steps)]
            BY DEF Typed
        <3>3. Append(started[e], running'.step) \in Seq(Steps)
            BY <2>2, <3>1, <3>2
        <3> QED
            BY <2>2, <2>4, <3>2, <3>3
    <2>6. running' # NoStep
        BY <2>2, <2>4 DEF NoStep, RecipesAssumption
    <2>7. Tail(tasks) \in Seq(Executions)
        BY <1>7 DEF TakeStep, Typed
    <2> QED
        BY <1>7, <2>3, <2>4, <2>5, <2>6, <2>7 DEF TakeStep, Typed
<1>8. CASE Complete
    <2>1. Head(tasks) \in Executions /\ Tail(tasks) \in Seq(Executions)
        BY <1>8 DEF Complete, Typed
    <2> QED
        BY <1>8, <2>1 DEF Complete, Typed
<1>9. CASE ReadRecipe
    <2>1. Head(toRead) \in Names /\ Tail(toRead) \in Seq(Names)
        BY <1>9 DEF ReadRecipe, Typed
    <2>2. toQueue' \in Seq(Steps)
        BY <1>9, <2>1, ReadSteps DEF ReadRecipe
    <2> QED
        BY <1>9, <2>1, <2>2 DEF ReadRecipe, history, Typed
<1>10. ASSUME at = "step" PROVE /\ running.execution \in Executions
                                /\ running.step \in Steps
                                /\ Effects \in SUBSET (Executions \X Steps)
    BY <1>10, BusyType, EffectsType
<1>11. CASE Succeed
    <2>1. at = "step"
        BY <1>11 DEF Succeed, StepEnds
    <2>2. \E q \in Seq(Records) : session' = [records |-> q, effects |-> Effects]
        BY <1>11, StepUpdated
    <2>3. session' \in Databases
        BY <1>10, <2>1, <2>2 DEF Databases
    <2>4. tasks' \in Seq(Executions)
        BY <1>10, <1>11, <2>1 DEF Succeed, ScheduleMore, ScheduleWork, Typed
    <2> QED
        BY <1>11, <2>1, <2>3, <2>4 DEF Succeed, history, Typed
<1>12. CASE Fail
    <2>1. at = "step"
        BY <1>12 DEF Fail, StepEnds
    <2>2. \E q \in Seq(Records) : session' = [records |-> q, effects |-> Effects]
        BY <1>12, StepUpdated
    <2>3. session' \in Databases
        BY <1>10, <2>1, <2>2 DEF Databases
    <2>4. queue' \in [Executions -> Folders]
        BY <1>10, <1>12, <2>1, DrainedInOrder, QueueUpdated DEF Fail, Typed
    <2> QED
        BY <1>10, <1>12, <2>1, <2>3, <2>4 DEF Fail, Typed
<1>13. CASE FailTwice
    <2>1. at = "step"
        BY <1>13 DEF FailTwice, StepEnds
    <2>2. session' \in Databases
        BY <1>10, <1>13, <2>1 DEF FailTwice, Databases, Typed
    <2> QED
        BY <1>10, <1>13, <2>1, <2>2 DEF FailTwice, Typed
<1>14. CASE Commit
    BY <1>14 DEF Typed, Commit, history
<1>15. CASE LoseTasks
    BY <1>15 DEF Typed, LoseTasks, history
<1>16. CASE EndRequest
    BY <1>16 DEF Typed, EndRequest, memory, history
<1>17. CASE Crash
    BY <1>17 DEF Typed, Crash, history
<1>18. CASE UNCHANGED vars
    BY <1>18 DEF Typed, vars
<1>19. CASE Migrate
    <2>1. at = "step"
        BY <1>19 DEF Migrate, StepEnds
    <2>2. session' \in Databases
        BY <1>10, <1>19, <2>1 DEF Migrate, OfStep, Databases, Typed
    <2> QED
        BY <1>19, <2>2 DEF Migrate, memory, history, Typed
<1> QED
    BY <1>1, <1>2, <1>3, <1>4, <1>5, <1>6, <1>7, <1>8, <1>9, <1>11, <1>12, <1>13, <1>14,
       <1>15, <1>16, <1>17, <1>18, <1>19 DEF Next, Request, RunTask

\* The type invariant follows from the types that the proofs use.
LEMMA TypesHold ==
    ASSUME RecipesAssumption, Typed
    PROVE  TypeOK
<1>1. ASSUME NEW e \in Executions
      PROVE  /\ DOMAIN queue[e] \subseteq Nat
             /\ \A i \in DOMAIN queue[e] : queue[e][i] \in Steps
             /\ started[e] \in Seq(Steps)
    <2>1. PICK lo \in Nat, hi \in Nat : queue[e] \in [lo..hi -> Steps]
        BY <1>1, FoldersAre DEF Typed
    <2> QED
        BY <1>1, <2>1 DEF Typed
<1>2. \A d \in {db, session} :
        d.records \in Seq(Records) /\ d.effects \subseteq Executions \X Steps
    BY DEF Typed, Databases
<1> QED
    BY <1>1, <1>2 DEF Typed, TypeOK

\* In every state of every behaviour the variables hold what their declarations say,
\* whatever recipes there are: the number that LastStepIndex makes for a new file of
\* RecipeStepQueue is one behind the others, so that FirstStepIndex finds the oldest.
THEOREM RecipesTypeOK == ASSUME RecipesAssumption PROVE Spec => []TypeOK
<1>1. Init => Typed
    BY TypedInit
<1>2. Typed /\ [Next]_vars => Typed'
    BY TypedNext
<1>3. Typed => TypeOK
    BY TypesHold
<1> QED
    BY <1>1, <1>2, <1>3, PTL DEF Spec

------------------------------------------------------------------------------
\* What the folders stand for, in a state of RecipeRun.
Waiting == [e \in Executions |-> InOrder(queue[e])]

\* A change of one folder is a change of one sequence.
LEMMA WaitingUpdated ==
    ASSUME Typed, NEW e \in Executions, NEW f, NEW w,
           queue' = [queue EXCEPT ![e] = f], InOrder(f) = w
    PROVE  Waiting' = [Waiting EXCEPT ![e] = w]
<1>1. queue \in [Executions -> Folders]
    BY DEF Typed
<1>2. ASSUME NEW x \in Executions
      PROVE  InOrder(queue'[x]) = IF x = e THEN w ELSE InOrder(queue[x])
    BY <1>1
<1>3. Waiting' = [x \in Executions |-> InOrder(queue'[x])]
    BY DEF Waiting
<1>4. [Waiting EXCEPT ![e] = w] =
        [x \in Executions |-> IF x = e THEN w ELSE InOrder(queue[x])]
    BY DEF Waiting
<1> QED
    BY <1>2, <1>3, <1>4

\* The abstract state at the start.
LEMMA RunInit ==
    ASSUME Init
    PROVE  Run!Init
<1>1. InOrder(<<>>) = <<>>
    <2>1. <<>> \in [1..0 -> Steps] /\ DOMAIN <<>> = {}
        OBVIOUS
    <2> QED
        BY <2>1, EmptyFolder, FoldersAre
<1> QED
    BY <1>1 DEF Init, Run!Init

\* A step of the request, of a task or of what goes wrong is one of RecipeRun, or it
\* changes neither the queues nor what has started.
LEMMA RunNext ==
    ASSUME RecipesAssumption, Typed, [Next]_vars
    PROVE  [Run!Next]_(Run!vars)
<1> DEFINE Same == queue' = queue /\ started' = started
<1>1. SUFFICES \/ \E e \in Executions :
                    \/ Run!Start(e) \/ Run!GiveUp(e)
                    \/ \E s \in Steps : Run!Queue(e, s)
               \/ Same
    BY DEF Run!Next, Run!vars
<1>2. CASE Enqueue
    <2>1. PICK e \in Executions, s \in Steps :
            queue' = [queue EXCEPT ![e] = Enqueued(queue[e], s)]
        BY <1>2, EnqueueFields
    <2>2. queue[e] \in Folders
        BY DEF Typed
    <2>3. InOrder(Enqueued(queue[e], s)) = Append(InOrder(queue[e]), s)
        BY <2>2, EnqueuedInOrder
    <2>4. Waiting' = [Waiting EXCEPT ![e] = Append(Waiting[e], s)]
        BY <2>1, <2>3, WaitingUpdated DEF Waiting
    <2>5. Run!Queue(e, s)
        BY <1>2, <2>4 DEF Run!Queue, Waiting, Enqueue, history
    <2> QED
        BY <2>5
<1>3. CASE TakeStep
    <2>1. PICK e : e = Head(tasks)
        OBVIOUS
    <2>2. e \in Executions /\ queue[e] \in Folders /\ DOMAIN queue[e] # {}
        BY <1>3, <2>1, TakeStepFields
    <2>3. /\ queue' = [queue EXCEPT ![e] = Dequeued(queue[e])]
          /\ started' = [started EXCEPT ![e] =
                            Append(started[e], queue[e][FirstStepIndex(queue[e])])]
        BY <1>3, <2>1, TakeStepFields
    <2>4. /\ InOrder(Dequeued(queue[e])) = Tail(InOrder(queue[e]))
          /\ InOrder(queue[e]) # <<>>
          /\ Head(InOrder(queue[e])) = queue[e][FirstStepIndex(queue[e])]
        BY <2>2, DequeuedInOrder
    <2>5. Waiting' = [Waiting EXCEPT ![e] = Tail(Waiting[e])]
        BY <2>2, <2>3, <2>4, WaitingUpdated DEF Waiting
    <2>6. /\ Waiting[e] # <<>>
          /\ started' = [started EXCEPT ![e] = Append(started[e], Head(Waiting[e]))]
        BY <2>2, <2>3, <2>4 DEF Waiting
    <2>7. Run!Start(e)
        BY <2>5, <2>6 DEF Run!Start, Waiting
    <2> QED
        BY <2>2, <2>7
<1>4. CASE Fail
    <2>1. PICK e \in Executions : e = running.execution
        BY <1>4, BusyType DEF Fail, StepEnds
    <2>2. queue' = [queue EXCEPT ![e] = Drained(queue[e])] /\ started' = started
        BY <1>4, <2>1 DEF Fail
    <2>3. Waiting' = [Waiting EXCEPT ![e] = <<>>]
        BY <2>2, DrainedInOrder, WaitingUpdated
    <2>4. Run!GiveUp(e)
        BY <2>2, <2>3 DEF Run!GiveUp, Waiting
    <2> QED
        BY <2>4
<1>5. CASE Execute
    BY <1>5 DEF Execute, history
<1>6. CASE Schedule
    BY <1>6 DEF Schedule, history
<1>7. CASE Return
    BY <1>7 DEF Return, history
<1>8. CASE Throw
    BY <1>8 DEF Throw, history
<1>9. CASE Catch
    BY <1>9 DEF Catch, history
<1>10. CASE Complete
    BY <1>10 DEF Complete
<1>11. CASE ReadRecipe
    BY <1>11 DEF ReadRecipe, history
<1>12. CASE Succeed
    BY <1>12 DEF Succeed, history
<1>13. CASE FailTwice
    BY <1>13 DEF FailTwice
<1>14. CASE Commit
    BY <1>14 DEF Commit, history
<1>15. CASE LoseTasks
    BY <1>15 DEF LoseTasks, history
<1>16. CASE EndRequest
    BY <1>16 DEF EndRequest, history
<1>17. CASE Crash
    BY <1>17 DEF Crash, history
<1>18. CASE UNCHANGED vars
    BY <1>18 DEF vars, history
<1>19. CASE Migrate
    BY <1>19 DEF Migrate, history
<1> QED
    BY <1>2, <1>3, <1>4, <1>5, <1>6, <1>7, <1>8, <1>9, <1>10, <1>11, <1>12, <1>13, <1>14,
       <1>15, <1>16, <1>17, <1>18, <1>19 DEF Next, Request, RunTask

\* The folder of RecipeStepQueue, the tasks and their transactions implement
\* RecipeRun: steps start in the order in which they were queued, none twice, whatever
\* recipes there are, whichever steps fail, and whenever the process ends.
THEOREM RecipesRunInOrder == ASSUME RecipesAssumption PROVE Spec => RunsInOrder
<1>1. Init => Typed
    BY TypedInit
<1>2. Typed /\ [Next]_vars => Typed'
    BY TypedNext
<1>3. Init => Run!Init
    BY RunInit
<1>4. Typed /\ [Next]_vars => [Run!Next]_(Run!vars)
    BY RunNext
<1> QED
    BY <1>1, <1>2, <1>3, <1>4, PTL DEF Spec, RunsInOrder, Run!Spec

------------------------------------------------------------------------------
Queueing == at \in {"request", "queueing"}

\* Steps wait, and are read, for the recipe of the execution or for the step that runs;
\* what the transaction has that is not committed was written by the step that runs.
Working ==
    /\ Queueing =>
        /\ db = [records |-> <<>>, effects |-> {}] /\ session.effects = {}
        /\ \A e \in Executions : started[e] = <<>>
        /\ \A e \in Executions : \A i \in DOMAIN queue[e] :
                queue[e][i].recipe = use.recipes[e]
    /\ at \in {"request", "pump", "commit"} => toQueue = <<>>
    /\ at = "queueing" =>
        \A i \in DOMAIN toQueue : toQueue[i].recipe = use.recipes[next - 1]
    /\ at \in {"step", "commit"} => running.step \in Range(started[running.execution])
    /\ at = "step" =>
        /\ \A i \in DOMAIN toRead : toRead[i] \in Range(running.step.names)
        /\ \A i \in DOMAIN toQueue : toQueue[i].recipe \in Range(running.step.names)
        /\ db.effects \subseteq session.effects
        /\ session.effects \subseteq db.effects \cup OfStep
    /\ at = "pump" => session.effects = db.effects

\* There is a record of a step, but for those of the recipe whose request was cancelled.
Recorded(d, e, s) == \E i \in DOMAIN d.records : IsOf(d.records[i], e, s)
Cancelled(u, e, s) == "throw" \in u.may /\ s.recipe = u.recipes[e]
Known ==
    at # "over" =>
        /\ \A e \in Executions : \A i \in DOMAIN queue[e] :
            Recorded(session, e, queue[e][i]) \/ Cancelled(use, e, queue[e][i])
        /\ at = "step" =>
            \/ Recorded(session, running.execution, running.step)
            \/ Cancelled(use, running.execution, running.step)

\* What the Migration step has committed, before it has come to its end.
HalfWays == {f \in Executions \X Steps : HalfWay(f)}

\* What a database d says of the steps st that have started.
Told(st, d) ==
    \A i \in DOMAIN d.records :
        d.records[i].isCompleted =>
            \E s \in Range(st[d.records[i].execution]) :
                /\ IsOf(d.records[i], d.records[i].execution, s)
                /\ s.does \in {"unclaimed", "breaks"}
                   \/ <<d.records[i].execution, s>> \in d.effects
                /\ d.records[i].isSuccessful <=> s.does \notin {"throws", "breaks"}

\* i is the number of the one record of step s in execution e.
Only(d, e, s, i) ==
    /\ i \in DOMAIN d.records /\ IsOf(d.records[i], e, s)
    /\ \A j \in DOMAIN d.records : IsOf(d.records[j], e, s) => j = i

\* RunsItself, of what there is to execute and of the steps that have started.
Repeats(u, st, e) == \E s \in Range(st[e]) : u.recipes[e] \in Range(s.names)

\* What d says of the steps that have written, but for those of h.
Reported(u, st, d, h) ==
    \A f \in d.effects :
        /\ Recorded(d, f[1], f[2]) \/ Cancelled(u, f[1], f[2])
        /\ \A i \in DOMAIN d.records :
            Only(d, f[1], f[2], i) /\ f \notin h
            /\ ("throw" \in u.may => ~Repeats(u, st, f[1])) =>
                d.records[i].isCompleted

\* What a database says is so, in the transaction and in what is committed; when a step
\* has come to its end, the transaction knows of it.
Honest(u, st, d, h) == Told(st, d) /\ Reported(u, st, d, h)
Pending == IF at = "commit" THEN {} ELSE HalfWays
RecordInv ==
    /\ Working /\ Known
    /\ Honest(use, started, db, HalfWays) /\ Honest(use, started, session, Pending)

\* Migrations that have been committed are those of the step that runs.
LEMMA HalfWaysAre ==
    ASSUME RecipesAssumption, Typed, at # "over"
    PROVE  /\ at \notin {"step", "commit"} => HalfWays = {}
           /\ HalfWays \subseteq OfStep /\ Pending \subseteq OfStep
           /\ at = "step" /\ running.step.does \in {"migrates", "breaks"} =>
                HalfWays = OfStep /\ Pending = OfStep
<1>1. CASE at \notin {"step", "commit"}
    BY <1>1 DEF HalfWays, HalfWay, Pending
<1>2. CASE at \in {"step", "commit"}
    <2>1. PICK e \in Executions, s \in Steps : e = running.execution /\ s = running.step
        BY <1>2, BusyType
    <2>2. ASSUME NEW f \in HalfWays PROVE f = <<e, s>>
        <3>3. f \in Executions \X Steps
            BY DEF HalfWays
        <3>1. f = <<f[1], f[2]>>
            BY <3>3
        <3>2. f[1] = e /\ f[2] = s
            BY <1>2, <2>1 DEF HalfWays, HalfWay
        <3> QED
            BY <3>1, <3>2
    <2>3. HalfWay(<<e, s>>) <=> s.does \in {"migrates", "breaks"}
        BY <1>2, <2>1 DEF HalfWay
    <2>4. s.does \in {"migrates", "breaks"} => <<e, s>> \in HalfWays
        BY <2>1, <2>3 DEF HalfWays
    <2>5. OfStep = {<<e, s>>}
        BY <2>1 DEF OfStep
    <2> QED
        BY <1>2, <2>1, <2>2, <2>4, <2>5 DEF Pending
<1> QED
    BY <1>1, <1>2

\* What the step that runs writes, it has written when it has started, unless it breaks.
LEMMA EffectsOfStep ==
    ASSUME RecipesAssumption, Typed, Working, at = "step",
           NEW e, e = running.execution, NEW s, s = running.step
    PROVE  /\ e \in Executions /\ s \in Steps
           /\ session.effects \subseteq Effects \cup {<<e, s>>}
           /\ Effects \subseteq session.effects \cup {<<e, s>>}
           /\ s.does \in {"unclaimed", "breaks"} \/ <<e, s>> \in Effects
           /\ s.does # "breaks" => session.effects \subseteq Effects
<1>1. e \in Executions /\ s \in Steps
    BY BusyType
<1>2. OfStep = {<<e, s>>}
    BY DEF OfStep
<1>3. db.effects \subseteq session.effects /\ session.effects \subseteq db.effects \cup OfStep
    BY DEF Working
<1>4. CASE s.does = "breaks"
    <2>1. Effects = db.effects
        BY <1>4 DEF Effects
    <2> QED
        BY <1>1, <1>2, <1>3, <1>4, <2>1
<1>5. CASE s.does = "unclaimed"
    <2>1. Effects = session.effects
        BY <1>5 DEF Effects
    <2> QED
        BY <1>1, <1>5, <2>1
<1>6. CASE s.does \notin {"breaks", "unclaimed"}
    <2>1. Effects = session.effects \cup OfStep
        BY <1>6 DEF Effects
    <2> QED
        BY <1>1, <1>2, <1>6, <2>1
<1> QED
    BY <1>4, <1>5, <1>6

\* The records of d are those of c, with more of them completed.
Later(c, d) ==
    /\ d.records \in Seq(Records) /\ DOMAIN d.records = DOMAIN c.records
    /\ \A i \in DOMAIN c.records :
        /\ d.records[i].execution = c.records[i].execution
        /\ d.records[i].recipe = c.records[i].recipe
        /\ d.records[i].id = c.records[i].id
        /\ c.records[i].isCompleted => d.records[i].isCompleted

\* What is there later is there, and what there is one of is one.
LEMMA LaterKept ==
    ASSUME NEW c, NEW d, Later(c, d), NEW e, NEW s
    PROVE  /\ Recorded(c, e, s) => Recorded(d, e, s)
           /\ \A i : Only(d, e, s, i) => Only(c, e, s, i)
<1>1. \A i \in DOMAIN c.records : IsOf(d.records[i], e, s) <=> IsOf(c.records[i], e, s)
    BY DEF Later, IsOf
<1>2. DOMAIN d.records = DOMAIN c.records
    BY DEF Later
<1> QED
    BY <1>1, <1>2 DEF Recorded, Only

\* The records of a database, and what was written with them.
LEMMA DatabaseFields ==
    ASSUME NEW d \in Databases
    PROVE  /\ d.records \in Seq(Records) /\ d.effects \subseteq Executions \X Steps
           /\ \A i \in DOMAIN d.records :
                d.records[i] \in Records /\ d.records[i].execution \in Executions
<1>1. d.records \in Seq(Records) /\ d.effects \subseteq Executions \X Steps
    BY DEF Databases
<1>2. PICK q \in Seq(Records) : q = d.records
    BY <1>1
<1>3. \A i \in DOMAIN q : q[i] \in Records
    OBVIOUS
<1>4. \A r \in Records : r.execution \in Executions
    BY DEF Records
<1> QED
    BY <1>1, <1>2, <1>3, <1>4

\* A database that is told of steps that have started is told of more of them, and of
\* more of them but for some.
LEMMA HonestOfMore ==
    ASSUME NEW u, NEW st, NEW st2, NEW d \in Databases, NEW h, NEW g, Honest(u, st, d, h),
           \A e \in Executions : Range(st[e]) \subseteq Range(st2[e]),
           h \subseteq g
    PROVE  Honest(u, st2, d, g)
<1>1. ASSUME NEW i \in DOMAIN d.records
      PROVE  d.records[i].execution \in Executions
    BY <1>1, DatabaseFields
<1>2. Told(st2, d)
    BY <1>1 DEF Honest, Told
<1>3. ASSUME NEW f \in d.effects, "throw" \in u.may => ~Repeats(u, st2, f[1])
      PROVE  "throw" \in u.may => ~Repeats(u, st, f[1])
    <2>1. f[1] \in Executions
        BY DEF Databases
    <2> QED
        BY <1>3, <2>1 DEF Repeats
<1>4. Reported(u, st2, d, g)
    BY <1>3 DEF Honest, Reported
<1> QED
    BY <1>2, <1>4 DEF Honest

\* A record is added, of a step of a recipe that a step of the execution has named.
LEMMA HonestAdded ==
    ASSUME RecipesAssumption,
           NEW u, NEW st, NEW d \in Databases, NEW e \in Executions, NEW s \in Steps,
           NEW c, c = [records |-> Append(d.records, NewRecord(e, s)),
                       effects |-> d.effects],
           NEW h, Honest(u, st, d, h),
           d.effects = {} \/ \E t \in Range(st[e]) : s.recipe \in Range(t.names)
    PROVE  /\ Honest(u, st, c, h)
           /\ Recorded(c, e, s)
           /\ \A x, y : Recorded(d, x, y) => Recorded(c, x, y)
<1>1. PICK r \in Records : r = NewRecord(e, s)
    BY RecordFields DEF NewRecord
<1>2. IsOf(r, e, s) /\ ~r.isCompleted
    <2>1. /\ r.execution = e /\ r.recipe = s.recipe /\ r.id = s.id
          /\ ~r.isCompleted
        BY <1>1 DEF NewRecord, Record
    <2> QED
        BY <2>1 DEF IsOf
<1>3. PICK q \in Seq(Records) : q = d.records
    BY DEF Databases
<1>4. PICK n : n = Len(q) + 1
    OBVIOUS
<1>5. /\ c.records = Append(q, r) /\ c.effects = d.effects
      /\ DOMAIN c.records = DOMAIN d.records \cup {n} /\ n \notin DOMAIN d.records
      /\ c.records[n] = r
      /\ \A i \in DOMAIN d.records : c.records[i] = d.records[i]
    BY <1>1, <1>3, <1>4, RecordAdded
<1>6. Recorded(c, e, s)
    BY <1>2, <1>5 DEF Recorded
<1>7. ASSUME NEW x, NEW y, Recorded(d, x, y) PROVE Recorded(c, x, y)
    BY <1>5, <1>7 DEF Recorded
<1>8. Told(st, c)
    <2>1. ASSUME NEW i \in DOMAIN c.records, c.records[i].isCompleted
          PROVE  \E t \in Range(st[c.records[i].execution]) :
                    /\ IsOf(c.records[i], c.records[i].execution, t)
                    /\ t.does \in {"unclaimed", "breaks"}
                       \/ <<c.records[i].execution, t>> \in c.effects
                    /\ c.records[i].isSuccessful <=> t.does \notin {"throws", "breaks"}
        <3>1. i \in DOMAIN d.records /\ c.records[i] = d.records[i]
            BY <1>2, <1>5, <2>1
        <3>2. Told(st, d) /\ c.effects = d.effects
            BY <1>5 DEF Honest
        <3> QED
            BY <2>1, <3>1, <3>2 DEF Told
    <2> QED
        BY <2>1 DEF Told
<1>9. ASSUME NEW f \in c.effects
      PROVE  Recorded(c, f[1], f[2]) \/ Cancelled(u, f[1], f[2])
    BY <1>5, <1>7, <1>9 DEF Honest, Reported
<1>10. ASSUME NEW f \in c.effects, NEW i \in DOMAIN c.records, Only(c, f[1], f[2], i),
              f \notin h, "throw" \in u.may => ~Repeats(u, st, f[1])
       PROVE  c.records[i].isCompleted
    <2>1. CASE i \in DOMAIN d.records
        <3>1. Only(d, f[1], f[2], i)
            BY <1>5, <1>10, <2>1 DEF Only
        <3> QED
            BY <1>5, <1>10, <2>1, <3>1 DEF Honest, Reported
    <2>2. CASE i = n
        <3>1. ~Recorded(d, f[1], f[2])
            BY <1>5, <1>10, <2>2 DEF Only, Recorded
        <3>2. Cancelled(u, f[1], f[2])
            BY <1>5, <1>10, <3>1 DEF Honest, Reported
        <3>3. IsOf(r, f[1], f[2])
            BY <1>5, <1>10, <2>2 DEF Only
        <3>4. f[1] = e /\ f[2].recipe = s.recipe
            BY <1>2, <3>3 DEF IsOf
        <3>5. Repeats(u, st, f[1])
            BY <1>5, <3>2, <3>4 DEF Cancelled, Repeats
        <3> QED
            BY <1>10, <3>2, <3>5 DEF Cancelled
    <2> QED
        BY <1>5, <2>1, <2>2
<1>11. Reported(u, st, c, h)
    BY <1>9, <1>10 DEF Reported
<1> QED
    BY <1>6, <1>7, <1>8, <1>11 DEF Honest

\* What a step has written is added, and its records are completed, if there is one, or
\* it is one of those that are left out.
LEMMA HonestWritten ==
    ASSUME NEW u, NEW st, NEW c \in Databases, NEW d, Later(c, d), NEW h, NEW g,
           Honest(u, st, c, h), Told(st, d), NEW e, NEW s,
           d.effects \subseteq c.effects \cup {<<e, s>>},
           h \subseteq g \cup {<<e, s>>},
           Recorded(c, e, s) \/ Cancelled(u, e, s),
           <<e, s>> \in g \/
            \A i \in DOMAIN d.records : Only(d, e, s, i) => d.records[i].isCompleted
    PROVE  Honest(u, st, d, g)
<1>1. ASSUME NEW f \in d.effects
      PROVE  /\ Recorded(d, f[1], f[2]) \/ Cancelled(u, f[1], f[2])
             /\ \A i \in DOMAIN d.records :
                Only(d, f[1], f[2], i) /\ f \notin g
                /\ ("throw" \in u.may => ~Repeats(u, st, f[1])) =>
                    d.records[i].isCompleted
    <2>1. CASE f \in c.effects /\ f # <<e, s>>
        <3>1. /\ Recorded(c, f[1], f[2]) \/ Cancelled(u, f[1], f[2])
              /\ \A i \in DOMAIN c.records :
                Only(c, f[1], f[2], i) /\ f \notin g
                /\ ("throw" \in u.may => ~Repeats(u, st, f[1])) =>
                    c.records[i].isCompleted
            BY <2>1 DEF Honest, Reported
        <3>2. /\ DOMAIN d.records = DOMAIN c.records
              /\ \A i \in DOMAIN c.records :
                    c.records[i].isCompleted => d.records[i].isCompleted
            BY DEF Later
        <3> QED
            BY <3>1, <3>2, LaterKept
    <2>2. CASE f = <<e, s>>
        <3>1. f[1] = e /\ f[2] = s
            BY <2>2
        <3> QED
            BY <2>2, <3>1, LaterKept
    <2> QED
        BY <2>1, <2>2
<1> QED
    BY <1>1 DEF Honest, Reported

\* Nothing waits, and nothing has been recorded, at the start.
LEMMA RecordInit ==
    ASSUME Init
    PROVE  RecordInv
<1>1. Working /\ Known
    BY DEF Init, Working, Queueing, Known
<1>2. PICK d : d = [records |-> <<>>, effects |-> {}] /\ d = db /\ d = session
    BY DEF Init
<1>3. DOMAIN d.records = {} /\ d.effects = {}
    BY <1>2
<1>4. \A u, st, h : Honest(u, st, d, h)
    BY <1>3 DEF Honest, Told, Reported
<1> QED
    BY <1>1, <1>2, <1>4 DEF RecordInv

\* The head of a sequence is in it, and what is in the tail was in it.
LEMMA HeadAndTail ==
    ASSUME NEW S, NEW q \in Seq(S), q # <<>>
    PROVE  /\ 1 \in DOMAIN q /\ Head(q) = q[1] /\ Head(q) \in S
           /\ Tail(q) \in Seq(S)
           /\ \A i \in DOMAIN Tail(q) : i + 1 \in DOMAIN q /\ Tail(q)[i] = q[i + 1]
           /\ \A i \in DOMAIN q : i = 1 \/ (i - 1 \in DOMAIN Tail(q)
                                            /\ Tail(q)[i - 1] = q[i])
    OBVIOUS

\* What is appended is in the range, and what was there stays in it.
LEMMA RangeOfAppend ==
    ASSUME NEW S, NEW q \in Seq(S), NEW s \in S
    PROVE  s \in Range(Append(q, s)) /\ Range(q) \subseteq Range(Append(q, s))
<1>1. PICK p : p = Append(q, s)
    OBVIOUS
<1>2. /\ DOMAIN p = DOMAIN q \cup {Len(q) + 1} /\ p[Len(q) + 1] = s
      /\ \A i \in DOMAIN q : p[i] = q[i]
    BY <1>1
<1> QED
    BY <1>1, <1>2 DEF Range

\* Steps wait for the recipe of the execution or for the step that runs.
LEMMA WorkingNext ==
    ASSUME RecipesAssumption, Typed, Working, [Next]_vars
    PROVE  Working'
<1>1. CASE Execute
    <2>1. use.recipes[next] \in Names /\ next + 1 - 1 = next
        BY <1>1, UseType DEF Execute, Typed
    <2>2. \A i \in DOMAIN toQueue' : toQueue'[i].recipe = use.recipes[next]
        BY <1>1, <2>1, ReadSteps DEF Execute
    <2>3. at = "request" /\ at' \in {"request", "queueing"}
          /\ (at' = "request" => toQueue' = <<>>)
        BY <1>1 DEF Execute
    <2>4. next' - 1 = next
        BY <1>1, <2>1 DEF Execute, Typed
    <2>5. db' = db /\ session' = session /\ started' = started /\ queue' = queue
          /\ use' = use
        BY <1>1 DEF Execute, history
    <2> QED
        BY <2>2, <2>3, <2>4, <2>5 DEF Working, Queueing
<1>2. CASE Enqueue
    <2>1. PICK e \in Executions, s \in Steps :
            /\ e = Busy /\ s = Head(toQueue)
            /\ queue' = [queue EXCEPT ![e] = Enqueued(queue[e], s)]
        BY <1>2, EnqueueFields
    <2>6. session'.effects = session.effects
        BY <1>2 DEF Enqueue
    <2>2. /\ at \in {"queueing", "step"} /\ at' = at /\ use' = use /\ next' = next
          /\ toQueue' = Tail(toQueue) /\ toRead' = toRead /\ running' = running
          /\ db' = db /\ started' = started
        BY <1>2 DEF Enqueue, history
    <2>3. /\ 1 \in DOMAIN toQueue /\ s = toQueue[1]
          /\ \A i \in DOMAIN toQueue' :
                i + 1 \in DOMAIN toQueue /\ toQueue'[i] = toQueue[i + 1]
        BY <1>2, <2>1, <2>2, HeadAndTail DEF Enqueue, Typed
    <2>4. CASE at = "queueing"
        <3>1. e = next - 1 /\ s.recipe = use.recipes[e]
            BY <2>1, <2>3, <2>4, BusyType DEF Working
        <3>2. ASSUME NEW x \in Executions, NEW i \in DOMAIN queue'[x]
              PROVE  queue'[x][i].recipe = use.recipes[x]
            <4>1. queue[e] \in Folders /\ queue \in [Executions -> Folders]
                BY DEF Typed
            <4>2. CASE x = e
                <5>1. queue'[x] = Enqueued(queue[e], s)
                    BY <2>1, <4>1, <4>2
                <5>2. queue'[x][i] = s \/ (i \in DOMAIN queue[e]
                                           /\ queue'[x][i] = queue[e][i])
                    BY <3>2, <4>1, <5>1, EnqueuedInOrder
                <5>3. \A j \in DOMAIN queue[e] : queue[e][j].recipe = use.recipes[e]
                    BY <2>4 DEF Working, Queueing
                <5> QED
                    BY <3>1, <4>2, <5>2, <5>3
            <4>3. CASE x # e
                <5>1. queue'[x] = queue[x]
                    BY <2>1, <4>1, <4>3
                <5> QED
                    BY <2>4, <3>2, <5>1 DEF Working, Queueing
            <4> QED
                BY <4>2, <4>3
        <3> QED
            BY <2>2, <2>3, <2>4, <2>6, <3>2 DEF Working, Queueing
    <2>5. CASE at = "step"
        <3>1. OfStep' = OfStep
            BY <2>2 DEF OfStep
        <3> QED
            BY <2>2, <2>3, <2>5, <2>6, <3>1 DEF Working, Queueing
    <2> QED
        BY <2>2, <2>4, <2>5
<1>3. CASE Schedule
    BY <1>3 DEF Schedule, history, Working, Queueing
<1>4. CASE Return
    BY <1>4 DEF Return, memory, history, Working, Queueing
<1>5. CASE Throw
    BY <1>5 DEF Throw, history, Working, Queueing
<1>6. CASE Catch
    BY <1>6 DEF Catch, history, Working, Queueing
<1>7. CASE TakeStep
    <2>1. PICK e : e = Head(tasks)
        OBVIOUS
    <2>2. /\ e \in Executions /\ running'.execution = e
          /\ started' = [started EXCEPT ![e] = Append(started[e], running'.step)]
          /\ running' \in [execution : Executions, step : Steps]
          /\ toRead' = running'.step.names
        BY <1>7, <2>1, TakeStepFields
    <2>3. PICK s \in Steps : s = running'.step
        BY <2>2
    <2>4. started \in [Executions -> Seq(Steps)]
        BY DEF Typed
    <2>5. started'[e] = Append(started[e], s) /\ started[e] \in Seq(Steps)
        BY <2>2, <2>3, <2>4
    <2>6. s \in Range(started'[e])
        BY <2>3, <2>5, RangeOfAppend
    <2>7. toQueue' = <<>> /\ at' = "step"
        BY <1>7 DEF TakeStep, Working
    <2>8. \A i \in DOMAIN toRead' : toRead'[i] \in Range(s.names)
        BY <2>2, <2>3 DEF Range
    <2>9. session'.effects = session.effects /\ db'.effects = db.effects
          /\ session.effects = db.effects
        BY <1>7 DEF TakeStep, Working
    <2> QED
        BY <2>2, <2>3, <2>6, <2>7, <2>8, <2>9 DEF Working, Queueing
<1>8. CASE Complete
    BY <1>8 DEF Complete, Working, Queueing
<1>9. CASE ReadRecipe
    <2>1. /\ Head(toRead) \in Names /\ 1 \in DOMAIN toRead /\ Head(toRead) = toRead[1]
          /\ \A i \in DOMAIN toRead' :
                i + 1 \in DOMAIN toRead /\ toRead'[i] = toRead[i + 1]
        BY <1>9, HeadAndTail DEF ReadRecipe, Typed
    <2>2. \A i \in DOMAIN toQueue' : toQueue'[i].recipe = toRead[1]
        BY <1>9, <2>1, ReadSteps DEF ReadRecipe
    <2> QED
        BY <1>9, <2>1, <2>2 DEF ReadRecipe, history, Working, Queueing, OfStep
<1>18. CASE Migrate
    <2>1. /\ at = "step" /\ at' = at /\ db' = session /\ running' = running
          /\ session'.effects = session.effects \cup OfStep /\ OfStep' = OfStep
          /\ toRead' = toRead /\ toQueue' = toQueue /\ started' = started
        BY <1>18 DEF Migrate, StepEnds, OfStep, memory, history
    <2> QED
        BY <2>1 DEF Working, Queueing
<1>10. CASE Succeed
    BY <1>10 DEF Succeed, StepEnds, history, Working, Queueing
<1>11. CASE Fail
    BY <1>11 DEF Fail, StepEnds, history, Working, Queueing
<1>12. CASE FailTwice
    BY <1>12 DEF FailTwice, StepEnds, history, Working, Queueing
<1>13. CASE Commit
    BY <1>13 DEF Commit, history, Working, Queueing
<1>14. CASE LoseTasks
    BY <1>14 DEF LoseTasks, history, Working, Queueing
<1>15. CASE EndRequest
    BY <1>15 DEF EndRequest, memory, history, Working, Queueing
<1>16. CASE Crash
    BY <1>16 DEF Crash, history, Working, Queueing
<1>17. CASE UNCHANGED vars
    BY <1>17 DEF vars, history, Working, Queueing, OfStep
<1> QED
    BY <1>1, <1>2, <1>3, <1>4, <1>5, <1>6, <1>7, <1>8, <1>9, <1>10, <1>11, <1>12, <1>13,
       <1>14, <1>15, <1>16, <1>17, <1>18 DEF Next, Request, RunTask

\* Succeed, and Fail of a step with no more than one record: the record is completed,
\* and says what the step did.
LEMMA StepRecorded ==
    ASSUME RecipesAssumption, Typed, Working, Known, Succeed \/ Fail,
           Honest(use, started, session, Pending), NEW d, d = session'
    PROVE  /\ Honest(use, started, d, {})
           /\ Later(session, d)
<1>1. /\ at = "step"
      /\ \E e \in Executions, s \in Steps : e = running.execution /\ s = running.step
    BY EffectsOfStep DEF Succeed, Fail, StepEnds
<1>2. PICK e \in Executions, s \in Steps : e = running.execution /\ s = running.step
    BY <1>1
<1>3. PICK c \in Databases : c = session
    BY DEF Typed
<1>4. PICK r \in Records, q \in Seq(Records) :
        /\ IsOf(r, e, s) /\ r.isCompleted
        /\ r.isSuccessful <=> s.does \notin {"throws", "breaks"}
        /\ session' = [records |-> q, effects |-> Effects]
        /\ DOMAIN q = DOMAIN session.records
        /\ \A i \in DOMAIN session.records :
            \/ (IsOf(session.records[i], e, s) /\ q[i] = r)
            \/ (~IsOf(session.records[i], e, s) /\ q[i] = session.records[i])
    BY <1>2, StepUpdated
<1>5. d.records = q /\ d.effects = Effects
    BY <1>4
<1>6. /\ DOMAIN q = DOMAIN c.records
      /\ \A i \in DOMAIN c.records :
            \/ (IsOf(c.records[i], e, s) /\ q[i] = r)
            \/ (~IsOf(c.records[i], e, s) /\ q[i] = c.records[i])
    BY <1>3, <1>4
<1>7. /\ c.effects \subseteq d.effects \cup {<<e, s>>}
      /\ d.effects \subseteq c.effects \cup {<<e, s>>}
      /\ s.does \in {"unclaimed", "breaks"} \/ <<e, s>> \in d.effects
    BY <1>1, <1>2, <1>3, <1>5, EffectsOfStep
<1>8. Later(c, d)
    <2>1. ASSUME NEW i \in DOMAIN c.records
          PROVE  /\ q[i].execution = c.records[i].execution
                 /\ q[i].recipe = c.records[i].recipe
                 /\ q[i].id = c.records[i].id
                 /\ c.records[i].isCompleted => q[i].isCompleted
        BY <1>4, <1>6, <2>1 DEF IsOf
    <2> QED
        BY <1>5, <1>6, <1>7, <2>1 DEF Later
<1>9. Told(started, d)
    <2>1. s \in Range(started[e])
        BY <1>1, <1>2 DEF Working
    <2>2. ASSUME NEW i \in DOMAIN d.records, d.records[i].isCompleted
          PROVE  \E t \in Range(started[d.records[i].execution]) :
                    /\ IsOf(d.records[i], d.records[i].execution, t)
                    /\ t.does \in {"unclaimed", "breaks"}
                       \/ <<d.records[i].execution, t>> \in d.effects
                    /\ d.records[i].isSuccessful <=> t.does \notin {"throws", "breaks"}
        <3>1. CASE d.records[i] = r
            <4>1. IsOf(r, e, s) /\ r.execution = e
                BY <1>4 DEF IsOf
            <4> QED
                BY <1>4, <1>7, <2>1, <3>1, <4>1
        <3>2. CASE i \in DOMAIN c.records /\ d.records[i] = c.records[i]
            <4>1. PICK t \in Range(started[c.records[i].execution]) :
                    /\ IsOf(c.records[i], c.records[i].execution, t)
                    /\ t.does \in {"unclaimed", "breaks"}
                       \/ <<c.records[i].execution, t>> \in c.effects
                    /\ c.records[i].isSuccessful <=> t.does \notin {"throws", "breaks"}
                BY <1>3, <2>2, <3>2 DEF Honest, Told
            <4>2. <<c.records[i].execution, t>> = <<e, s>> => t = s
                OBVIOUS
            <4>3. t.does \in {"unclaimed", "breaks"}
                  \/ <<c.records[i].execution, t>> \in d.effects
                BY <1>7, <4>1, <4>2
            <4> QED
                BY <3>2, <4>1, <4>3
        <3> QED
            BY <1>5, <1>6, <2>2, <3>1, <3>2
    <2> QED
        BY <2>2 DEF Told
<1>10. Recorded(c, e, s) \/ Cancelled(use, e, s)
    BY <1>1, <1>2, <1>3 DEF Known
<1>11. ASSUME NEW i \in DOMAIN d.records, Only(d, e, s, i) PROVE d.records[i].isCompleted
    <2>1. Only(c, e, s, i)
        BY <1>8, <1>11, LaterKept
    <2>2. i \in DOMAIN c.records /\ IsOf(c.records[i], e, s)
        BY <2>1 DEF Only
    <2> QED
        BY <1>4, <1>5, <1>6, <2>2
<1>12. Honest(use, started, c, Pending) /\ Pending \subseteq {} \cup {<<e, s>>}
    BY <1>1, <1>2, <1>3, HalfWaysAre DEF OfStep
<1> QED
    BY <1>3, <1>7, <1>8, <1>9, <1>10, <1>11, <1>12, HonestWritten

\* FailTwice: what the step wrote stays, and the records of it, of which there are two,
\* are as they were.
LEMMA StepNotRecorded ==
    ASSUME RecipesAssumption, Typed, Working, Known, at = "step",
           ~RecordIsUnique(running.execution, running.step),
           Honest(use, started, session, Pending), NEW d,
           d = [records |-> session.records, effects |-> Effects]
    PROVE  /\ Honest(use, started, d, {})
           /\ Later(session, d)
<1>1. PICK e \in Executions, s \in Steps : e = running.execution /\ s = running.step
    BY EffectsOfStep
<1>2. PICK c \in Databases : c = session
    BY DEF Typed
<1>3. /\ d.records = c.records
      /\ c.effects \subseteq d.effects \cup {<<e, s>>}
      /\ d.effects \subseteq c.effects \cup {<<e, s>>}
      /\ s.does \in {"unclaimed", "breaks"} \/ <<e, s>> \in d.effects
    BY <1>1, <1>2, EffectsOfStep
<1>4. Later(c, d)
    BY <1>3, DatabaseFields DEF Later
<1>5. Told(started, d)
    <2>1. ASSUME NEW i \in DOMAIN c.records, c.records[i].isCompleted
          PROVE  \E t \in Range(started[c.records[i].execution]) :
                    /\ IsOf(c.records[i], c.records[i].execution, t)
                    /\ t.does \in {"unclaimed", "breaks"}
                       \/ <<c.records[i].execution, t>> \in d.effects
                    /\ c.records[i].isSuccessful <=> t.does \notin {"throws", "breaks"}
        <3>1. PICK t \in Range(started[c.records[i].execution]) :
                    /\ IsOf(c.records[i], c.records[i].execution, t)
                    /\ t.does \in {"unclaimed", "breaks"}
                       \/ <<c.records[i].execution, t>> \in c.effects
                    /\ c.records[i].isSuccessful <=> t.does \notin {"throws", "breaks"}
            BY <1>2, <2>1 DEF Honest, Told
        <3>2. <<c.records[i].execution, t>> = <<e, s>> => t = s
            OBVIOUS
        <3> QED
            BY <1>3, <3>1, <3>2
    <2> QED
        BY <1>3, <2>1 DEF Told
<1>6. Recorded(c, e, s) \/ Cancelled(use, e, s)
    BY <1>1, <1>2 DEF Known
<1>7. \A i : ~Only(d, e, s, i)
    <2>1. PICK i, j : i \in Matching(e, s) /\ j \in Matching(e, s) /\ i # j
        BY <1>1 DEF RecordIsUnique
    <2>2. /\ i \in DOMAIN d.records /\ IsOf(d.records[i], e, s)
          /\ j \in DOMAIN d.records /\ IsOf(d.records[j], e, s)
        BY <1>2, <1>3, <2>1 DEF Matching, IsOf
    <2> QED
        BY <2>1, <2>2 DEF Only
<1>8. Honest(use, started, c, Pending) /\ Pending \subseteq {} \cup {<<e, s>>}
    BY <1>1, <1>2, HalfWaysAre DEF OfStep
<1> QED
    BY <1>2, <1>3, <1>4, <1>5, <1>6, <1>7, <1>8, HonestWritten

\* Migrate: the step has written, and its record does not say so yet.
LEMMA StepMigrates ==
    ASSUME RecipesAssumption, Typed, Known, Migrate,
           Honest(use, started, session, Pending), NEW d, d = session'
    PROVE  Honest(use, started, d, Pending)
<1>1. at = "step" /\ running.step.does \in {"migrates", "breaks"}
    BY DEF Migrate, StepEnds
<1>2. PICK e \in Executions, s \in Steps : e = running.execution /\ s = running.step
    BY <1>1, BusyType
<1>3. PICK c \in Databases : c = session
    BY DEF Typed
<1>4. /\ d.records = c.records /\ c.effects \subseteq d.effects
      /\ d.effects \subseteq c.effects \cup {<<e, s>>}
    BY <1>2, <1>3 DEF Migrate, OfStep
<1>5. Later(c, d)
    BY <1>4, DatabaseFields DEF Later
<1>6. Told(started, d)
    BY <1>3, <1>4 DEF Honest, Told
<1>7. Recorded(c, e, s) \/ Cancelled(use, e, s)
    BY <1>1, <1>2, <1>3 DEF Known
<1>8. <<e, s>> \in Pending /\ Pending \subseteq Pending \cup {<<e, s>>}
    BY <1>1, <1>2, HalfWaysAre DEF OfStep
<1>9. Honest(use, started, c, Pending)
    BY <1>3
<1> QED
    BY <1>3, <1>4, <1>5, <1>6, <1>7, <1>8, <1>9, HonestWritten

\* An action that writes nothing, takes nothing and has no step run that did not.
LEMMA KnownKept ==
    ASSUME Known, use' = use, at' # "over" => at # "over",
           \A e \in Executions : DOMAIN queue'[e] = {} \/ queue'[e] = queue[e],
           \A e, s : Recorded(session, e, s) => Recorded(session', e, s),
           at' = "step" => at = "step" /\ running' = running
    PROVE  Known'
    BY DEF Known

\* What waits in a folder, and what runs, has a record or is of a cancelled request.
LEMMA KnownNext ==
    ASSUME RecipesAssumption, Typed, RecordInv, [Next]_vars
    PROVE  Known'
<1>1. CASE Enqueue
    <2>1. PICK e \in Executions, s \in Steps :
            /\ queue' = [queue EXCEPT ![e] = Enqueued(queue[e], s)]
            /\ session' = [records |-> Append(session.records, NewRecord(e, s)),
                           effects |-> session.effects]
            /\ e = Busy /\ s = Head(toQueue)
        BY <1>1, EnqueueFields
    <2>2. /\ at \in {"queueing", "step"} /\ at' = at /\ use' = use /\ running' = running
        BY <1>1 DEF Enqueue, history
    <2>3. /\ \A x, y : Recorded(session, x, y) => Recorded(session', x, y)
          /\ Recorded(session', e, s)
        <3>1. PICK c \in Databases : c = session
            BY DEF Typed
        <3>2. PICK d : d = session'
            OBVIOUS
        <3>3. PICK r \in Records : r = NewRecord(e, s)
            BY RecordFields DEF NewRecord
        <3>4. IsOf(r, e, s)
            BY <3>3 DEF NewRecord, Record, IsOf
        <3>5. c.records \in Seq(Records) /\ d.records = Append(c.records, r)
            BY <2>1, <3>1, <3>2, <3>3 DEF Databases
        <3>6. PICK n : n = Len(c.records) + 1
            OBVIOUS
        <3>7. /\ DOMAIN d.records = DOMAIN c.records \cup {n} /\ d.records[n] = r
              /\ \A i \in DOMAIN c.records : d.records[i] = c.records[i]
            BY <3>5, <3>6, RecordAdded
        <3> QED
            BY <3>1, <3>2, <3>4, <3>7 DEF Recorded
    <2>4. ASSUME NEW x \in Executions, NEW i \in DOMAIN queue'[x]
          PROVE  Recorded(session', x, queue'[x][i]) \/ Cancelled(use, x, queue'[x][i])
        <3>1. queue[e] \in Folders /\ queue \in [Executions -> Folders]
            BY DEF Typed
        <3>2. CASE x = e
            <4>1. queue'[x] = Enqueued(queue[e], s)
                BY <2>1, <3>1, <3>2
            <4>2. queue'[x][i] = s \/ (i \in DOMAIN queue[e]
                                       /\ queue'[x][i] = queue[e][i])
                BY <2>4, <3>1, <4>1, EnqueuedInOrder
            <4> QED
                BY <2>2, <2>3, <3>2, <4>2 DEF RecordInv, Known
        <3>3. CASE x # e
            <4>1. queue'[x] = queue[x]
                BY <2>1, <3>1, <3>3
            <4> QED
                BY <2>2, <2>3, <2>4, <4>1 DEF RecordInv, Known
        <3> QED
            BY <3>2, <3>3
    <2> QED
        BY <2>2, <2>3, <2>4 DEF RecordInv, Known
<1>2. CASE TakeStep
    <2>1. PICK e : e = Head(tasks)
        OBVIOUS
    <2>2. /\ e \in Executions /\ queue[e] \in Folders /\ DOMAIN queue[e] # {}
          /\ running'.execution = e
          /\ running'.step = queue[e][FirstStepIndex(queue[e])]
          /\ queue' = [queue EXCEPT ![e] = Dequeued(queue[e])]
        BY <1>2, <2>1, TakeStepFields
    <2>3. at = "pump" /\ session' = session /\ use' = use
        BY <1>2 DEF TakeStep
    <2>4. /\ FirstStepIndex(queue[e]) \in DOMAIN queue[e]
          /\ \A i \in DOMAIN Dequeued(queue[e]) :
                i \in DOMAIN queue[e] /\ Dequeued(queue[e])[i] = queue[e][i]
        BY <2>2, DequeuedInOrder
    <2>5. ASSUME NEW x \in Executions, NEW i \in DOMAIN queue'[x]
          PROVE  i \in DOMAIN queue[x] /\ queue'[x][i] = queue[x][i]
        <3>1. queue'[x] = IF x = e THEN Dequeued(queue[e]) ELSE queue[x]
            BY <2>2 DEF Typed
        <3> QED
            BY <2>4, <2>5, <3>1
    <2> QED
        BY <2>2, <2>3, <2>4, <2>5 DEF RecordInv, Known
<1>3. CASE Throw
    <2>1. /\ at \in {"request", "queueing"} /\ "throw" \in use.may /\ queue' = queue
          /\ use' = use /\ at' = "pump"
        BY <1>3 DEF Throw
    <2>2. \A e \in Executions : \A i \in DOMAIN queue[e] : Cancelled(use, e, queue[e][i])
        BY <2>1 DEF RecordInv, Working, Queueing, Cancelled
    <2> QED
        BY <2>1, <2>2 DEF Known
<1>4. CASE Succeed \/ Fail
    <2>1. at = "step" /\ use' = use /\ at' = "commit"
        BY <1>4 DEF Succeed, Fail, StepEnds, history
    <2>2. Later(session, session')
        BY <1>4, StepRecorded DEF RecordInv
    <2>3. \A e, s : Recorded(session, e, s) => Recorded(session', e, s)
        BY <2>2, LaterKept
    <2>4. \A e \in Executions : DOMAIN queue'[e] = {} \/ queue'[e] = queue[e]
        <3>1. CASE Succeed
            BY <3>1 DEF Succeed
        <3>2. CASE Fail
            <4>1. queue' = [queue EXCEPT ![running.execution] =
                                Drained(queue[running.execution])]
                BY <3>2 DEF Fail
            <4>2. DOMAIN Drained(queue[running.execution]) = {}
                BY DrainedInOrder
            <4> QED
                BY <4>1, <4>2 DEF Typed
        <3> QED
            BY <1>4, <3>1, <3>2
    <2> QED
        BY <2>1, <2>3, <2>4, KnownKept DEF RecordInv
<1>5. CASE FailTwice
    <2>1. \A e, s : Recorded(session, e, s) => Recorded(session', e, s)
        BY <1>5 DEF FailTwice, Recorded
    <2> QED
        BY <1>5, <2>1, KnownKept DEF FailTwice, StepEnds, RecordInv
<1>6. CASE LoseTasks \/ EndRequest \/ Crash
    BY <1>6 DEF LoseTasks, EndRequest, Crash, Known
<1>7. CASE Execute
    BY <1>7, KnownKept DEF Execute, history, RecordInv
<1>8. CASE Schedule
    BY <1>8, KnownKept DEF Schedule, history, RecordInv
<1>9. CASE Return
    BY <1>9, KnownKept DEF Return, history, RecordInv
<1>10. CASE Catch
    BY <1>10, KnownKept DEF Catch, history, RecordInv
<1>11. CASE Complete
    BY <1>11, KnownKept DEF Complete, history, RecordInv
<1>12. CASE ReadRecipe
    BY <1>12, KnownKept DEF ReadRecipe, history, RecordInv
<1>13. CASE Commit
    BY <1>13, KnownKept DEF Commit, history, RecordInv
<1>14. CASE UNCHANGED vars
    BY <1>14 DEF vars, history, RecordInv, Known
<1>15. CASE Migrate
    <2>1. \A e, s : Recorded(session, e, s) => Recorded(session', e, s)
        BY <1>15 DEF Migrate, Recorded
    <2> QED
        BY <1>15, <2>1, KnownKept DEF Migrate, memory, history, RecordInv
<1> QED
    BY <1>1, <1>2, <1>3, <1>4, <1>5, <1>6, <1>7, <1>8, <1>9, <1>10, <1>11, <1>12, <1>13,
       <1>14, <1>15 DEF Next, Request, RunTask

\* An action that leaves what has started, and of the two databases makes none that
\* was not there.
LEMMA HonestKept ==
    ASSUME Typed, RecordInv, use' = use, started' = started, at' # "commit",
           HalfWays \subseteq HalfWays',
           at = "commit" => session' = db /\ db' = db,
           session' \in {session, db}, db' \in {session, db}
    PROVE  Honest(use', started', db', HalfWays') /\ Honest(use', started', session', Pending')
<1>1. Pending' = HalfWays' /\ db \in Databases /\ session \in Databases
    BY DEF Pending, Typed
<1>2. Honest(use, started, db, HalfWays')
    <2>1. Honest(use, started, db, HalfWays)
        BY DEF RecordInv
    <2> QED
        BY <1>1, <2>1, HonestOfMore
<1>3. at # "commit" => Honest(use, started, session, HalfWays')
    <2>1. at # "commit" => Honest(use, started, session, HalfWays)
        BY DEF RecordInv, Pending
    <2> QED
        BY <1>1, <2>1, HonestOfMore
<1> QED
    BY <1>1, <1>2, <1>3

\* What the databases say stays so.
LEMMA HonestNext ==
    ASSUME RecipesAssumption, Typed, RecordInv, [Next]_vars
    PROVE  Honest(use', started', db', HalfWays') /\ Honest(use', started', session', Pending')
<1>1. CASE Enqueue
    <2>1. PICK e \in Executions, s \in Steps :
            /\ session' = [records |-> Append(session.records, NewRecord(e, s)),
                           effects |-> session.effects]
            /\ e = Busy /\ s = Head(toQueue)
        BY <1>1, EnqueueFields
    <2>2. at \in {"queueing", "step"} /\ use' = use /\ started' = started /\ db' = db
        BY <1>1 DEF Enqueue, history
    <2>3. session.effects = {} \/ \E t \in Range(started[e]) : s.recipe \in Range(t.names)
        <3>1. CASE at = "queueing"
            BY <3>1 DEF RecordInv, Working, Queueing
        <3>2. CASE at = "step"
            <4>1. e = running.execution
                BY <2>1, <3>2 DEF Busy
            <4>2. 1 \in DOMAIN toQueue /\ s = toQueue[1]
                BY <1>1, <2>1, HeadAndTail DEF Enqueue, Typed
            <4>3. /\ s.recipe \in Range(running.step.names)
                  /\ running.step \in Range(started[e])
                BY <3>2, <4>1, <4>2 DEF RecordInv, Working
            <4> QED
                BY <4>3
        <3> QED
            BY <2>2, <3>1, <3>2
    <2>4. session \in Databases /\ Honest(use, started, session, Pending)
        BY DEF Typed, RecordInv
    <2>5. Honest(use, started, session', Pending)
        <3>1. PICK d, c, h : d = session /\ c = session' /\ h = Pending
            OBVIOUS
        <3>2. /\ d \in Databases /\ Honest(use, started, d, h)
              /\ c = [records |-> Append(d.records, NewRecord(e, s)),
                      effects |-> d.effects]
              /\ d.effects = {} \/ \E t \in Range(started[e]) : s.recipe \in Range(t.names)
            BY <2>1, <2>3, <2>4, <3>1
        <3>3. Honest(use, started, c, h)
            BY <3>2, HonestAdded
        <3> QED
            BY <3>1, <3>3
    <2>6. HalfWays' = HalfWays /\ Pending' = Pending
        BY <1>1 DEF Enqueue, HalfWays, HalfWay, Pending
    <2> QED
        BY <2>2, <2>5, <2>6 DEF RecordInv
<1>2. CASE TakeStep
    <2>1. PICK e : e = Head(tasks)
        OBVIOUS
    <2>2. /\ e \in Executions
          /\ started' = [started EXCEPT ![e] = Append(started[e], running'.step)]
          /\ running' \in [execution : Executions, step : Steps]
        BY <1>2, <2>1, TakeStepFields
    <2>3. started \in [Executions -> Seq(Steps)] /\ running'.step \in Steps
        BY <2>2 DEF Typed
    <2>4. ASSUME NEW x \in Executions PROVE Range(started[x]) \subseteq Range(started'[x])
        <3>1. CASE x = e
            <4>1. /\ started'[x] = Append(started[x], running'.step)
                  /\ started[x] \in Seq(Steps)
                BY <2>2, <2>3, <3>1
            <4> QED
                BY <2>3, <4>1, RangeOfAppend
        <3>2. CASE x # e
            BY <2>2, <2>3, <3>2
        <3> QED
            BY <3>1, <3>2
    <2>5. /\ db \in Databases /\ session \in Databases
          /\ Honest(use, started, db, {}) /\ Honest(use, started, session, {})
        BY <1>2, HalfWaysAre DEF TakeStep, Typed, RecordInv, Pending
    <2>6. /\ Honest(use, started', db, HalfWays')
          /\ Honest(use, started', session, Pending')
        BY <2>4, <2>5, HonestOfMore
    <2> QED
        BY <1>2, <2>6 DEF TakeStep
<1>3. CASE Succeed \/ Fail
    <2>1. at = "step" /\ use' = use /\ started' = started /\ db' = db
        BY <1>3 DEF Succeed, Fail, StepEnds, history
    <2>2. Honest(use, started, session', {})
        BY <1>3, StepRecorded DEF RecordInv
    <2>3. HalfWays' = HalfWays /\ Pending' = {}
        BY <1>3, <2>1 DEF Succeed, Fail, HalfWays, HalfWay, Pending
    <2> QED
        BY <2>1, <2>2, <2>3 DEF RecordInv
<1>4. CASE FailTwice
    <2>1. /\ at = "step" /\ ~RecordIsUnique(running.execution, running.step)
          /\ session' = [records |-> session.records, effects |-> Effects]
          /\ use' = use /\ started' = started /\ db' = db
        BY <1>4 DEF FailTwice, StepEnds
    <2>2. Honest(use, started, session', {})
        BY <2>1, StepNotRecorded DEF RecordInv
    <2>3. HalfWays' = HalfWays /\ Pending' = {}
        BY <1>4, <2>1 DEF FailTwice, HalfWays, HalfWay, Pending
    <2> QED
        BY <2>1, <2>2, <2>3 DEF RecordInv
<1>5. CASE Migrate
    <2>1. /\ at = "step" /\ at' = "step" /\ use' = use /\ started' = started
          /\ db' = session /\ running' = running
        BY <1>5 DEF Migrate, StepEnds, memory, history
    <2>2. HalfWays' = HalfWays /\ Pending' = Pending /\ Pending = HalfWays
        BY <2>1 DEF HalfWays, HalfWay, Pending
    <2>3. Honest(use, started, session', Pending)
        BY <1>5, StepMigrates DEF RecordInv
    <2> QED
        BY <2>1, <2>2, <2>3 DEF RecordInv
<1>6. CASE Commit
    <2>1. /\ at = "commit" /\ at' = "pump" /\ use' = use /\ started' = started
          /\ db' = session /\ session' = session
        BY <1>6 DEF Commit, history
    <2>2. Honest(use, started, session, {})
        BY <2>1 DEF RecordInv, Pending
    <2>3. session \in Databases
        BY DEF Typed
    <2>4. Honest(use, started, session, HalfWays') /\ Honest(use, started, session, Pending')
        BY <2>2, <2>3, HonestOfMore
    <2> QED
        BY <2>1, <2>4
<1>7. CASE UNCHANGED vars
    <2>1. HalfWays' = HalfWays /\ Pending' = Pending
        BY <1>7 DEF vars, HalfWays, HalfWay, Pending
    <2> QED
        BY <1>7, <2>1 DEF vars, history, RecordInv
<1>8. ASSUME at # "over", at \notin {"step", "commit"} PROVE HalfWays \subseteq HalfWays'
    BY <1>8, HalfWaysAre
<1>9. CASE Execute
    BY <1>8, <1>9, HonestKept DEF Execute, history
<1>10. CASE Schedule
    BY <1>8, <1>10, HonestKept DEF Schedule, history
<1>11. CASE Return
    BY <1>8, <1>11, HonestKept DEF Return, memory, history
<1>12. CASE Throw
    BY <1>8, <1>12, HonestKept DEF Throw, history
<1>13. CASE Catch
    BY <1>8, <1>13, HonestKept DEF Catch, history
<1>14. CASE Complete
    BY <1>8, <1>14, HonestKept DEF Complete
<1>15. CASE ReadRecipe
    <2>1. HalfWays' = HalfWays
        BY <1>15 DEF ReadRecipe, HalfWays, HalfWay
    <2> QED
        BY <1>15, <2>1, HonestKept DEF ReadRecipe, history
<1>16. CASE EndRequest
    BY <1>8, <1>16, HonestKept DEF EndRequest, memory, history
<1>17. CASE LoseTasks \/ Crash
    <2>1. /\ at' = "over" /\ use' = use /\ use.may \cap {"crash", "lose"} # {}
          /\ started' = started /\ session' = db /\ db' = db /\ at # "over"
        BY <1>17 DEF LoseTasks, Crash, history
    <2>2. HalfWays \subseteq HalfWays'
        BY <2>1 DEF HalfWays, HalfWay
    <2> QED
        BY <2>1, <2>2, HonestKept
<1> QED
    BY <1>1, <1>2, <1>3, <1>4, <1>5, <1>6, <1>7, <1>9, <1>10, <1>11, <1>12, <1>13, <1>14,
       <1>15, <1>16, <1>17 DEF Next, Request, RunTask

\* The one element of a set of numbers is the one record.
LEMMA OneIsOnly ==
    ASSUME NEW f, Cardinality(RecordsOf(f[1], f[2])) = 1,
           NEW i \in RecordsOf(f[1], f[2]), db \in Databases
    PROVE  Only(db, f[1], f[2], i)
<1> DEFINE R == RecordsOf(f[1], f[2])
<1>1. IsFiniteSet(R)
    <2>1. PICK q \in Seq(Records) : q = db.records
        BY DatabaseFields
    <2>2. R \subseteq 1..Len(q) /\ 1 \in Int /\ Len(q) \in Int
        BY <2>1 DEF RecordsOf
    <2>3. IsFiniteSet(1..Len(q))
        BY <2>2, FS_Interval
    <2> QED
        BY <2>2, <2>3, FS_Subset
<1>2. PICK x : R = {x}
    BY <1>1, FS_Singleton
<1>3. \A j \in DOMAIN db.records : IsOf(db.records[j], f[1], f[2]) => j \in R
    BY DEF RecordsOf, IsOf
<1>4. i \in DOMAIN db.records /\ IsOf(db.records[i], f[1], f[2])
    BY DEF RecordsOf, IsOf
<1> QED
    BY <1>2, <1>3, <1>4 DEF Only

\* What is committed says of the steps what RecordedAsDone says.
LEMMA HonestIsRecorded ==
    ASSUME Typed, RecordInv
    PROVE  RecordedAsDone
<1>1. db \in Databases /\ Told(started, db)
      /\ Reported(use, started, db, HalfWays)
    BY DEF Typed, RecordInv, Honest
<1>2. ASSUME NEW i \in DOMAIN db.records, db.records[i].isCompleted
      PROVE  \E s \in Range(started[db.records[i].execution]) :
                /\ s.recipe = db.records[i].recipe /\ s.id = db.records[i].id
                /\ s.does \in {"unclaimed", "breaks"}
                   \/ <<db.records[i].execution, s>> \in db.effects
                /\ db.records[i].isSuccessful <=> s.does \notin {"throws", "breaks"}
    BY <1>1, <1>2 DEF Told, IsOf
<1>3. ASSUME NEW f \in db.effects
      PROVE  "throw" \in use.may \/ RecordsOf(f[1], f[2]) # {}
    BY <1>1, <1>3 DEF Reported, Recorded, Cancelled, RecordsOf, IsOf
<1>4. ASSUME NEW f \in db.effects, Cardinality(RecordsOf(f[1], f[2])) = 1,
             ~HalfWay(f), "throw" \in use.may => ~RunsItself(f[1]), NEW i \in RecordsOf(f[1], f[2])
      PROVE  db.records[i].isCompleted
    <2>1. Only(db, f[1], f[2], i)
        BY <1>1, <1>4, OneIsOnly
    <2>2. "throw" \in use.may => ~Repeats(use, started, f[1])
        BY <1>4 DEF RunsItself, Repeats
    <2>3. i \in DOMAIN db.records
        BY <1>4 DEF RecordsOf
    <2>4. f \notin HalfWays
        BY <1>4 DEF HalfWays
    <2> QED
        BY <1>1, <2>1, <2>2, <2>3, <2>4 DEF Reported
<1> QED
    BY <1>2, <1>3, <1>4 DEF RecordedAsDone

\* RecordInv holds after every action.
LEMMA RecordInvNext ==
    ASSUME RecipesAssumption, Typed, RecordInv, [Next]_vars
    PROVE  RecordInv'
<1>1. Working'
    BY WorkingNext DEF RecordInv
<1>2. Known'
    BY KnownNext
<1>3. Honest(use', started', db', HalfWays') /\ Honest(use', started', session', Pending')
    BY HonestNext
<1> QED
    BY <1>1, <1>2, <1>3 DEF RecordInv

\* Whatever recipes there are, and whatever fails or is cut off, a record that is
\* completed is that of a step that has started, it says how the step ended, and what the
\* step wrote is there, unless no handler claimed it or a migration broke, which cancels
\* the transaction.  What is written has its record, which UpdateStepResultRecord completes
\* in the same transaction, but for the migrations that DataMigrationManager commits before
\* their step has come to its end, and for a recipe that is in an execution twice.
THEOREM RecipesRecordedAsDone == ASSUME RecipesAssumption PROVE Spec => []RecordedAsDone
<1>1. Init => Typed /\ RecordInv
    BY TypedInit, RecordInit
<1>2. Typed /\ RecordInv /\ [Next]_vars => Typed' /\ RecordInv'
    BY TypedNext, RecordInvNext
<1>3. Typed /\ RecordInv => RecordedAsDone
    BY HonestIsRecorded
<1> QED
    BY <1>1, <1>2, <1>3, PTL DEF Spec

------------------------------------------------------------------------------
\* What is to be done for an execution, and by whom, when nothing is lost.
Alive(e) ==
    \/ \E k \in DOMAIN tasks : tasks[k] = e
    \/ at = "step" /\ running.execution = e
    \/ at = "queueing" /\ next - 1 = e
InHand(r, e) ==
    \/ \E i \in DOMAIN queue[e] : IsOf(r, e, queue[e][i])
    \/ at = "step" /\ running.execution = e /\ IsOf(r, e, running.step)
Once(d, e) ==
    \A i, j \in DOMAIN d.records :
        d.records[i].execution = e /\ IsOf(d.records[j], e, d.records[i]) => i = j

\* What waits has somebody who takes it, and what is recorded is waited for or done.
Tended(e) ==
    Once(session, e) =>
        /\ DOMAIN queue[e] = {} \/ Alive(e)
        /\ e \in failed \/ \A i \in DOMAIN session.records :
            session.records[i].execution = e =>
                session.records[i].isSuccessful \/ InHand(session.records[i], e)

LeftInv ==
    use.may = {} =>
        /\ at \in {"pump", "over"} => db = session
        /\ at = "over" => tasks = <<>>
        /\ \A e \in Executions : Tended(e)

\* An action that leaves the folder and the records of an execution, and somebody to
\* take what waits.
LEMMA TendedKept ==
    ASSUME NEW e, Tended(e), queue'[e] = queue[e], session'.records = session.records,
           failed' = failed, DOMAIN queue[e] = {} \/ (Alive(e) => Alive(e)'),
           at = "step" => at' = "step" /\ running' = running
    PROVE  Tended(e)'
<1>1. Once(session', e) => Once(session, e)
    BY DEF Once
<1>2. \A r : InHand(r, e) => InHand(r, e)'
    BY DEF InHand
<1>3. DOMAIN queue[e] = {} \/ Alive(e) => DOMAIN queue'[e] = {} \/ Alive(e)'
    OBVIOUS
<1> QED
    BY <1>1, <1>2, <1>3 DEF Tended

\* There is nothing to be done at the start.
LEMMA LeftInit ==
    ASSUME Init
    PROVE  LeftInv
<1>1. at = "request" /\ \A e \in Executions : DOMAIN queue[e] = {}
    BY DEF Init
<1>2. DOMAIN session.records = {}
    BY DEF Init
<1> QED
    BY <1>1, <1>2 DEF LeftInv, Tended

\* Enqueue: the execution that a step is written for has somebody who takes it, and
\* the record of it waits with it.
LEMMA TendedByEnqueue ==
    ASSUME RecipesAssumption, Typed, Enqueue, NEW x \in Executions, Tended(x)
    PROVE  Tended(x)'
<1>1. PICK e \in Executions, s \in Steps :
        /\ queue' = [queue EXCEPT ![e] = Enqueued(queue[e], s)]
        /\ session' = [records |-> Append(session.records, NewRecord(e, s)),
                       effects |-> session.effects]
        /\ e = Busy /\ s = Head(toQueue)
    BY EnqueueFields
<1>2. /\ at \in {"queueing", "step"} /\ at' = at /\ next' = next /\ tasks' = tasks
      /\ running' = running /\ failed' = failed
    BY DEF Enqueue, history
<1>3. PICK c, d : c \in Databases /\ c = session /\ d = session'
    BY DEF Typed
<1>4. PICK r \in Records : r = NewRecord(e, s)
    BY RecordFields DEF NewRecord
<1>5. r.execution = e /\ IsOf(r, e, s)
    BY <1>4 DEF NewRecord, Record, IsOf
<1>6. PICK n : n = Len(c.records) + 1
    OBVIOUS
<1>7. /\ DOMAIN d.records = DOMAIN c.records \cup {n} /\ d.records[n] = r
      /\ \A i \in DOMAIN c.records : d.records[i] = c.records[i]
    <2>1. c.records \in Seq(Records) /\ d.records = Append(c.records, r)
        BY <1>1, <1>3, <1>4 DEF Databases
    <2> QED
        BY <1>6, <2>1, RecordAdded
<1>8. Once(d, x) => Once(c, x)
    BY <1>7 DEF Once
<1>9. Alive(x) => Alive(x)'
    BY <1>2 DEF Alive
<1>10. queue[e] \in Folders /\ queue \in [Executions -> Folders]
    BY DEF Typed
<1>11. CASE x # e
    <2>1. queue'[x] = queue[x]
        BY <1>1, <1>10, <1>11
    <2>2. \A y : InHand(y, x) => InHand(y, x)'
        BY <1>2, <2>1 DEF InHand
    <2>3. \A i \in DOMAIN d.records : d.records[i].execution = x => i \in DOMAIN c.records
        BY <1>5, <1>7, <1>11
    <2> QED
        BY <1>2, <1>3, <1>7, <1>8, <1>9, <2>1, <2>2, <2>3 DEF Tended
<1>12. CASE x = e
    <2>1. queue'[x] = Enqueued(queue[e], s)
        BY <1>1, <1>10, <1>12
    <2>2. /\ \A i \in DOMAIN queue[x] : i \in DOMAIN queue'[x] /\ queue'[x][i] = queue[x][i]
          /\ \E i \in DOMAIN queue'[x] : queue'[x][i] = s
        BY <1>10, <1>12, <2>1, EnqueuedInOrder
    <2>3. \A y : InHand(y, x) => InHand(y, x)'
        BY <1>2, <2>2 DEF InHand
    <2>4. InHand(r, x)'
        BY <1>5, <1>12, <2>2 DEF InHand
    <2>5. Alive(x)'
        BY <1>1, <1>2, <1>12 DEF Alive, Busy
    <2> QED
        BY <1>2, <1>3, <1>7, <1>8, <2>3, <2>4, <2>5 DEF Tended
<1> QED
    BY <1>11, <1>12

\* TakeStep: the step that a task takes is in its hands, with the rest of the folder.
LEMMA TendedByTakeStep ==
    ASSUME RecipesAssumption, Typed, TakeStep, NEW x \in Executions, Tended(x)
    PROVE  Tended(x)'
<1>1. PICK e : e = Head(tasks)
    OBVIOUS
<1>2. /\ e \in Executions /\ queue[e] \in Folders /\ DOMAIN queue[e] # {}
      /\ running'.execution = e
      /\ running'.step = queue[e][FirstStepIndex(queue[e])]
      /\ queue' = [queue EXCEPT ![e] = Dequeued(queue[e])]
    BY <1>1, TakeStepFields
<1>3. /\ at = "pump" /\ at' = "step" /\ session' = session /\ failed' = failed
      /\ tasks # <<>> /\ tasks' = Tail(tasks) /\ tasks \in Seq(Executions)
    BY DEF TakeStep, Typed
<1>4. queue \in [Executions -> Folders]
    BY DEF Typed
<1>5. CASE x # e
    <2>1. queue'[x] = queue[x]
        BY <1>2, <1>4, <1>5
    <2>2. Alive(x) => Alive(x)'
        <3>1. ASSUME NEW k \in DOMAIN tasks, tasks[k] = x
              PROVE  \E l \in DOMAIN tasks' : tasks'[l] = x
            <4>1. /\ Head(tasks) = tasks[1]
                  /\ \A i \in DOMAIN tasks :
                        i = 1 \/ (i - 1 \in DOMAIN tasks' /\ tasks'[i - 1] = tasks[i])
                BY <1>3, HeadAndTail
            <4> QED
                BY <1>1, <1>5, <3>1, <4>1
        <3> QED
            BY <1>3, <3>1 DEF Alive
    <2> QED
        BY <1>3, <2>1, <2>2, TendedKept
<1>6. CASE x = e
    <2>1. queue'[x] = Dequeued(queue[x])
        BY <1>2, <1>4, <1>6
    <2>2. \A i \in DOMAIN queue[x] :
            i = FirstStepIndex(queue[x]) \/ (i \in DOMAIN queue'[x]
                                             /\ queue'[x][i] = queue[x][i])
        BY <1>2, <1>6, <2>1, DequeuedInOrder
    <2>3. \A r : InHand(r, x) => InHand(r, x)'
        BY <1>2, <1>3, <1>6, <2>2 DEF InHand
    <2>4. Alive(x)'
        BY <1>2, <1>3, <1>6 DEF Alive
    <2> QED
        BY <1>3, <2>3, <2>4 DEF Tended
<1> QED
    BY <1>5, <1>6

\* Succeed: the record of the step says success, and a task is added for the next one.
LEMMA TendedBySucceed ==
    ASSUME RecipesAssumption, Typed, Succeed, NEW x \in Executions, Tended(x)
    PROVE  Tended(x)'
<1>1. at = "step" /\ at' = "commit" /\ queue' = queue /\ failed' = failed
    BY DEF Succeed, StepEnds, history
<1>2. PICK e \in Executions, s \in Steps : e = running.execution /\ s = running.step
    BY <1>1, BusyType
<1>3. PICK c, d : c \in Databases /\ c = session /\ d = session'
    BY DEF Typed
<1>4. PICK r \in Records, q \in Seq(Records) :
        /\ IsOf(r, e, s) /\ (r.isSuccessful <=> s.does \notin {"throws", "breaks"})
        /\ session' = [records |-> q, effects |-> Effects]
        /\ DOMAIN q = DOMAIN session.records
        /\ \A i \in DOMAIN session.records :
            \/ (IsOf(session.records[i], e, s) /\ q[i] = r)
            \/ (~IsOf(session.records[i], e, s) /\ q[i] = session.records[i])
    BY <1>2, StepUpdated
<1>5. d.records = q /\ DOMAIN q = DOMAIN c.records
    BY <1>3, <1>4
<1>6. IsOf(r, e, s) /\ r.isSuccessful
    BY <1>2, <1>4 DEF Succeed
<1>7. ASSUME NEW i \in DOMAIN c.records
      PROVE  \/ IsOf(c.records[i], e, s) /\ d.records[i] = r
             \/ ~IsOf(c.records[i], e, s) /\ d.records[i] = c.records[i]
    BY <1>3, <1>4, <1>5, <1>7
<1>8. Once(d, x) => Once(c, x)
    <2>1. ASSUME NEW i \in DOMAIN c.records
          PROVE  /\ d.records[i].execution = c.records[i].execution
                 /\ d.records[i].recipe = c.records[i].recipe
                 /\ d.records[i].id = c.records[i].id
        BY <1>6, <1>7 DEF IsOf
    <2> QED
        BY <1>5, <2>1 DEF Once, IsOf
<1>9. Alive(x) => Alive(x)'
    <2>1. tasks' = Append(tasks, e) /\ tasks \in Seq(Executions)
        BY <1>2 DEF Succeed, ScheduleMore, ScheduleWork, Typed
    <2>2. /\ \A k \in DOMAIN tasks : k \in DOMAIN tasks' /\ tasks'[k] = tasks[k]
          /\ \E k \in DOMAIN tasks' : tasks'[k] = e
        BY <2>1
    <2> QED
        BY <1>1, <1>2, <2>2 DEF Alive
<1>10. ASSUME NEW i \in DOMAIN c.records, d.records[i].execution = x,
              c.records[i].execution = x =>
                c.records[i].isSuccessful \/ InHand(c.records[i], x)
       PROVE  d.records[i].isSuccessful \/ InHand(d.records[i], x)'
    <2>1. CASE d.records[i] = r
        BY <1>6, <2>1
    <2>2. CASE ~IsOf(c.records[i], e, s) /\ d.records[i] = c.records[i]
        <3>1. c.records[i].isSuccessful
              \/ \E j \in DOMAIN queue[x] : IsOf(c.records[i], x, queue[x][j])
            BY <1>2, <1>10, <2>2 DEF InHand
        <3> QED
            BY <1>1, <2>2, <3>1 DEF InHand
    <2> QED
        BY <1>7, <2>1, <2>2
<1> QED
    BY <1>1, <1>3, <1>5, <1>8, <1>9, <1>10 DEF Tended

\* Fail and FailTwice: the execution failed, or it has two records of a step; the
\* others are as they were.
LEMMA TendedByFailure ==
    ASSUME RecipesAssumption, Typed, Fail \/ FailTwice, NEW x \in Executions, Tended(x)
    PROVE  Tended(x)'
<1>1. at = "step" /\ at' = "commit" /\ tasks' = tasks
    BY DEF Fail, FailTwice, StepEnds
<1>2. PICK e \in Executions, s \in Steps : e = running.execution /\ s = running.step
    BY <1>1, BusyType
<1>3. PICK c, d : c \in Databases /\ c = session /\ d = session'
    BY DEF Typed
<1>4. CASE x # e
    <2>1. queue'[x] = queue[x]
        <3>1. CASE Fail
            BY <1>2, <1>4, <3>1 DEF Fail, Typed
        <3>2. CASE FailTwice
            BY <3>2 DEF FailTwice
        <3> QED
            BY <3>1, <3>2
    <2>2. failed' = failed \cup {e}
        BY <1>2 DEF Fail, FailTwice
    <2>3. Alive(x) => Alive(x)'
        BY <1>1, <1>2, <1>4 DEF Alive
    <2>4. \A r : InHand(r, x) => InHand(r, x)'
        BY <1>1, <1>2, <1>4, <2>1 DEF InHand
    <2>5. /\ DOMAIN d.records = DOMAIN c.records
          /\ \A i \in DOMAIN c.records :
                \/ d.records[i] = c.records[i]
                \/ (d.records[i].execution = e /\ c.records[i].execution = e)
        <3>1. CASE Fail
            <4>1. PICK r \in Records, q \in Seq(Records) :
                    /\ IsOf(r, e, s)
                    /\ session' = [records |-> q, effects |-> Effects]
                    /\ DOMAIN q = DOMAIN session.records
                    /\ \A i \in DOMAIN session.records :
                        \/ (IsOf(session.records[i], e, s) /\ q[i] = r)
                        \/ (~IsOf(session.records[i], e, s) /\ q[i] = session.records[i])
                BY <1>2, <3>1, StepUpdated
            <4> QED
                BY <1>3, <4>1 DEF IsOf
        <3>2. CASE FailTwice
            BY <1>3, <3>2 DEF FailTwice
        <3> QED
            BY <3>1, <3>2
    <2>6. Once(d, x) => Once(c, x)
        BY <1>4, <2>5 DEF Once, IsOf
    <2>7. \A i \in DOMAIN d.records :
            d.records[i].execution = x =>
                i \in DOMAIN c.records /\ d.records[i] = c.records[i]
        BY <1>4, <2>5
    <2> QED
        BY <1>3, <2>1, <2>2, <2>3, <2>4, <2>6, <2>7 DEF Tended
<1>5. CASE x = e /\ Fail
    <2>1. queue'[x] = Drained(queue[x])
        BY <1>2, <1>5 DEF Fail, Typed
    <2>2. DOMAIN queue'[x] = {}
        BY <2>1, DrainedInOrder
    <2>3. x \in failed'
        BY <1>2, <1>5 DEF Fail
    <2> QED
        BY <2>2, <2>3 DEF Tended
<1>6. CASE x = e /\ FailTwice
    <2>1. PICK i, j : i \in Matching(e, s) /\ j \in Matching(e, s) /\ i # j
        BY <1>2, <1>6 DEF FailTwice, RecordIsUnique
    <2>2. d.records = c.records
        BY <1>3, <1>6 DEF FailTwice
    <2>3. /\ i \in DOMAIN d.records /\ IsOf(d.records[i], e, s)
          /\ j \in DOMAIN d.records /\ IsOf(d.records[j], e, s)
        BY <1>3, <2>1, <2>2 DEF Matching, IsOf
    <2>4. ~Once(d, x)
        BY <1>6, <2>1, <2>3 DEF Once, IsOf
    <2> QED
        BY <1>3, <2>4 DEF Tended
<1> QED
    BY <1>4, <1>5, <1>6

\* Every execution is tended after every action, when nothing is lost.
LEMMA TendedNext ==
    ASSUME RecipesAssumption, Typed, LeftInv, use.may = {}, Next, NEW x \in Executions
    PROVE  Tended(x)'
<1>1. Tended(x)
    BY DEF LeftInv
<1>2. CASE Execute
    BY <1>1, <1>2, TendedKept DEF Execute, history, Alive
<1>3. CASE Enqueue
    BY <1>1, <1>3, TendedByEnqueue
<1>4. CASE Schedule
    <2>1. tasks' = Append(tasks, next - 1) /\ tasks \in Seq(Executions)
        BY <1>4 DEF Schedule, ScheduleWork, Typed
    <2>2. next - 1 \in Executions
        BY <1>4, UseType DEF Schedule, Typed
    <2>3. /\ \A k \in DOMAIN tasks : k \in DOMAIN tasks' /\ tasks'[k] = tasks[k]
          /\ \E k \in DOMAIN tasks' : tasks'[k] = next - 1
        BY <2>1, <2>2
    <2>4. Alive(x) => Alive(x)'
        BY <1>4, <2>3 DEF Schedule, Alive
    <2> QED
        BY <1>1, <1>4, <2>4, TendedKept DEF Schedule, history
<1>5. CASE Return
    BY <1>1, <1>5, TendedKept DEF Return, memory, history, Alive
<1>6. CASE TakeStep
    BY <1>1, <1>6, TendedByTakeStep
<1>7. CASE Complete
    <2>1. /\ tasks # <<>> /\ tasks' = Tail(tasks) /\ tasks \in Seq(Executions)
          /\ DOMAIN queue[Head(tasks)] = {} /\ at = "pump" /\ at' = "pump"
        BY <1>7 DEF Complete, Typed
    <2>2. /\ Head(tasks) = tasks[1]
          /\ \A k \in DOMAIN tasks :
                k = 1 \/ (k - 1 \in DOMAIN tasks' /\ tasks'[k - 1] = tasks[k])
        BY <2>1, HeadAndTail
    <2>3. DOMAIN queue[x] = {} \/ (Alive(x) => Alive(x)')
        <3>1. CASE Head(tasks) = x
            BY <2>1, <3>1
        <3>2. CASE Head(tasks) # x
            <4>1. ASSUME NEW k \in DOMAIN tasks, tasks[k] = x
                  PROVE  \E l \in DOMAIN tasks' : tasks'[l] = x
                BY <2>2, <3>2, <4>1
            <4> QED
                BY <2>1, <4>1 DEF Alive
        <3> QED
            BY <3>1, <3>2
    <2> QED
        BY <1>1, <1>7, <2>3, TendedKept DEF Complete
<1>8. CASE ReadRecipe
    BY <1>1, <1>8, TendedKept DEF ReadRecipe, history, Alive
<1>9. CASE Succeed
    BY <1>1, <1>9, TendedBySucceed
<1>10. CASE Fail \/ FailTwice
    BY <1>1, <1>10, TendedByFailure
<1>11. CASE Commit
    BY <1>1, <1>11, TendedKept DEF Commit, history, Alive
<1>12. CASE EndRequest
    BY <1>1, <1>12, TendedKept DEF EndRequest, memory, history, Alive
<1>13. ~(Throw \/ Catch \/ LoseTasks \/ Crash)
    BY DEF Throw, Catch, LoseTasks, Crash
<1>14. CASE Migrate
    BY <1>1, <1>14, TendedKept DEF Migrate, memory, history, Alive
<1> QED
    BY <1>2, <1>3, <1>4, <1>5, <1>6, <1>7, <1>8, <1>9, <1>10, <1>11, <1>12, <1>13, <1>14
       DEF Next, Request, RunTask

\* LeftInv holds after every action.
LEMMA LeftNext ==
    ASSUME RecipesAssumption, Typed, LeftInv, [Next]_vars
    PROVE  LeftInv'
<1>1. use' = use
    BY DEF Next, Request, RunTask, Execute, Enqueue, Schedule, Return, TakeStep, Complete,
           ReadRecipe, Migrate, Succeed, Fail, FailTwice, Commit, EndRequest, Throw, Catch,
           LoseTasks, Crash, vars
<1>2. SUFFICES ASSUME use.may = {} PROVE LeftInv'
    BY <1>1 DEF LeftInv
<1>3. CASE UNCHANGED vars
    BY <1>3 DEF vars, history, LeftInv, Tended, Once, Alive, InHand
<1>4. CASE Next
    <2>1. \A x \in Executions : Tended(x)'
        BY <1>2, <1>4, TendedNext
    <2>2. at # "over"
        BY <1>2, <1>4
           DEF Next, Request, RunTask, Execute, Enqueue, Schedule, Return, TakeStep,
               Complete, ReadRecipe, StepEnds, Migrate, Succeed, Fail, FailTwice, Commit,
               EndRequest, Throw, Catch, LoseTasks, Crash
    <2>3. at' \in {"pump", "over"} =>
            \/ db' = session /\ session' = session
            \/ at = "pump" /\ db' = db /\ session' = session
        BY <1>2, <1>4, <2>2
           DEF Next, Request, RunTask, Execute, Enqueue, Schedule, Return, TakeStep,
               Complete, ReadRecipe, StepEnds, Migrate, Succeed, Fail, FailTwice, Commit,
               EndRequest, Throw, Catch, LoseTasks, Crash
    <2>4. at' = "over" => tasks' = <<>>
        BY <1>2, <1>4, <2>2
           DEF Next, Request, RunTask, Execute, Enqueue, Schedule, Return, TakeStep,
               Complete, ReadRecipe, StepEnds, Migrate, Succeed, Fail, FailTwice, Commit,
               EndRequest, Throw, Catch, LoseTasks, Crash, memory
    <2>5. at' \in {"pump", "over"} => db' = session'
        BY <1>2, <2>3 DEF LeftInv
    <2> QED
        BY <2>1, <2>4, <2>5 DEF LeftInv
<1> QED
    BY <1>3, <1>4

\* An execution without two records of a step has one of each.
LEMMA NoneTwiceIsOnce ==
    ASSUME Typed, NEW e, NoneTwice(e)
    PROVE  Once(db, e)
<1>1. ASSUME NEW i \in DOMAIN db.records, NEW j \in DOMAIN db.records,
             db.records[i].execution = e, IsOf(db.records[j], e, db.records[i])
      PROVE  i = j
    <2>1. PICK f : f = <<e, db.records[i]>>
        OBVIOUS
    <2>2. f[1] = e /\ f[2] = db.records[i]
        BY <2>1
    <2>3. Cardinality(RecordsOf(f[1], f[2])) = 1
        BY <1>1, <2>2 DEF NoneTwice
    <2>4. i \in RecordsOf(f[1], f[2])
        BY <1>1, <2>2 DEF RecordsOf
    <2>5. Only(db, f[1], f[2], i)
        BY <2>3, <2>4, OneIsOnly DEF Typed
    <2> QED
        BY <1>1, <2>2, <2>5 DEF Only
<1> QED
    BY <1>1 DEF Once

\* When nothing throws out of the request, no task is lost and the process does not
\* end, the request ends with an empty folder for each of its executions, which either
\* failed or have every step recorded as successful, but for one that has a step twice.
THEOREM RecipesNothingLeft == ASSUME RecipesAssumption PROVE Spec => []NothingLeft
<1>1. Init => Typed /\ LeftInv
    BY TypedInit, LeftInit
<1>2. Typed /\ LeftInv /\ [Next]_vars => Typed' /\ LeftInv'
    BY TypedNext, LeftNext
<1>3. Typed /\ LeftInv => NothingLeft
    <2>1. SUFFICES ASSUME Typed, LeftInv, at = "over", use.may = {},
                          NEW e \in Executions, NoneTwice(e)
                   PROVE  /\ DOMAIN queue[e] = {}
                          /\ e \in failed \/ \A i \in DOMAIN db.records :
                                db.records[i].execution = e => db.records[i].isSuccessful
        BY DEF NothingLeft
    <2>2. db = session /\ tasks = <<>> /\ Tended(e)
        BY <2>1 DEF LeftInv
    <2>3. Once(session, e)
        BY <2>1, <2>2, NoneTwiceIsOnce
    <2>4. ~Alive(e)
        BY <2>1, <2>2 DEF Alive
    <2>5. DOMAIN queue[e] = {}
        BY <2>2, <2>3, <2>4 DEF Tended
    <2>6. \A r : ~InHand(r, e)
        BY <2>1, <2>5 DEF InHand
    <2> QED
        BY <2>2, <2>3, <2>5, <2>6 DEF Tended
<1> QED
    BY <1>1, <1>2, <1>3, PTL DEF Spec
==============================================================================
