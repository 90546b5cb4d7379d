---------------------------- MODULE Migrations_proofs ----------------------------
(***************************************************************************)
(* The invariants of Migrations, for any scopes, features, classes and     *)
(* uses.                                                                   *)
(*                                                                         *)
(* WholeMigrations: a transaction has written the steps from the version   *)
(* that it has read to the one that it has reached.  When it is committed  *)
(* these are to come right after the steps that are committed, so the      *)
(* version that was read is to be the committed one: it is from the first  *)
(* step on, which could not have been applied twice, and stays so for no   *)
(* other transaction at the same class applies steps.                      *)
(*                                                                         *)
(* DependenciesFirst: the calls that are left of an update are in order,   *)
(* as a stack of the updates that have begun (InOrder).                    *)
(*                                                                         *)
(* LeavesUpToDate: what is processed is done or is left to be migrated,    *)
(* and what was asked for is processed or is left to be updated.           *)
(***************************************************************************)
EXTENDS Migrations, SequenceTheorems, FiniteSetTheorems, TLAPS

\* The steps from version a to version b.
Span(a, b) == [i \in 1..(b - a) |-> a + i - 1]

Open(s) == open[s].class \in Classes

OpenTyped(s) ==
    /\ open[s].read \in Nat /\ open[s].current \in Nat
    /\ open[s].read <= open[s].current
    /\ open[s].wrote = Span(open[s].read, open[s].current)

Types ==
    /\ use \in Uses
    /\ version \in [Classes -> Nat]
    /\ DOMAIN at = Scopes /\ DOMAIN open = Scopes
    /\ \A s \in Scopes : Open(s) => at[s] # "ready" /\ OpenTyped(s)

\* What WholeMigrations takes.
Sound == "abort" \notin use.may /\ (~use.data \/ Alone)

\* The version that was read is not ahead of the committed one, and is the same when
\* steps have been applied; the record is written when they all have been.
InStep(s) ==
    LET c == open[s].class IN
    /\ open[s].read <= version[c]
    /\ open[s].current # open[s].read \/ Alone => open[s].read = version[c]
    /\ at[s] # "migrating" => (open[s].recorded <=> open[s].current # open[s].read)

\* One transaction at a class has applied steps.
OneWriter ==
    \A s, o \in Scopes :
        s # o /\ Open(s) /\ open[o].class = open[s].class =>
            open[s].current = open[s].read \/ open[o].current = open[o].read

SoundInv ==
    /\ \A c \in Classes : steps[c] = Span(0, version[c])
    /\ \A s \in Scopes : Open(s) => InStep(s)
    /\ OneWriter

Inv == Types /\ (Sound => SoundInv)

------------------------------------------------------------------------------
\* There are no steps between a version and itself.
LEMMA SpanEmpty ==
    ASSUME NEW a \in Nat, NEW b \in Nat, a <= b
    PROVE  Span(a, b) = <<>> <=> a = b
<1>1. CASE a = b
    BY <1>1 DEF Span
<1>2. CASE a # b
    <2>1. 1 \in DOMAIN Span(a, b)
        BY <1>2 DEF Span
    <2> QED
        BY <1>2, <2>1
<1> QED
    BY <1>1, <1>2

\* The steps are as many as the versions, and come one after the other.
LEMMA SpanIsSeq ==
    ASSUME NEW a \in Nat, NEW b \in Nat, a <= b
    PROVE  /\ Span(a, b) \in Seq(Nat) /\ Len(Span(a, b)) = b - a
           /\ \A i \in 1..(b - a) : Span(a, b)[i] = a + i - 1
    BY DEF Span

\* The steps to b and those from b on are the steps to c.
LEMMA SpanJoin ==
    ASSUME NEW b \in Nat, NEW c \in Nat, b <= c
    PROVE  Span(0, b) \o Span(b, c) = Span(0, c)
<1>1. /\ Span(0, b) \in Seq(Nat) /\ Len(Span(0, b)) = b
      /\ \A i \in 1..b : Span(0, b)[i] = i - 1
    BY SpanIsSeq
<1>2. /\ Span(b, c) \in Seq(Nat) /\ Len(Span(b, c)) = c - b
      /\ \A i \in 1..(c - b) : Span(b, c)[i] = b + i - 1
    BY SpanIsSeq
<1>3. /\ Span(0, c) \in Seq(Nat) /\ Len(Span(0, c)) = c
      /\ \A i \in 1..c : Span(0, c)[i] = i - 1
    BY SpanIsSeq
<1>4. /\ Span(0, b) \o Span(b, c) \in Seq(Nat)
      /\ Len(Span(0, b) \o Span(b, c)) = c
      /\ \A i \in 1..c : (Span(0, b) \o Span(b, c))[i] =
                            IF i <= b THEN Span(0, b)[i] ELSE Span(b, c)[i - b]
    <2>1. Len(Span(0, b)) + Len(Span(b, c)) = c
        <3>1. Len(Span(0, b)) = b /\ Len(Span(b, c)) = c - b
            BY <1>1, <1>2
        <3>2. b + (c - b) = c
            OBVIOUS
        <3> QED
            BY <3>1, <3>2
    <2> QED
        BY <1>1, <1>2, <2>1, ConcatProperties
<1>5. ASSUME NEW i \in 1..c
      PROVE  (Span(0, b) \o Span(b, c))[i] = Span(0, c)[i]
    <2>1. CASE i <= b
        BY <1>1, <1>3, <1>4, <2>1
    <2>2. CASE ~(i <= b)
        <3>1. i - b \in 1..(c - b) /\ b + (i - b) - 1 = i - 1
            BY <2>2
        <3>2. Span(b, c)[i - b] = i - 1
            BY <1>2, <3>1
        <3>3. (Span(0, b) \o Span(b, c))[i] = Span(b, c)[i - b]
            BY <1>4, <2>2
        <3> QED
            BY <1>3, <3>2, <3>3
    <2> QED
        BY <2>1, <2>2
<1> QED
    BY <1>3, <1>4, <1>5, SeqEqual

\* A step that is applied is the next one.
LEMMA SpanAppend ==
    ASSUME NEW a \in Nat, NEW b \in Nat, a <= b
    PROVE  Append(Span(a, b), b) = Span(a, b + 1)
<1>1. /\ Span(a, b) \in Seq(Nat) /\ Len(Span(a, b)) = b - a
      /\ \A i \in 1..(b - a) : Span(a, b)[i] = a + i - 1
    BY SpanIsSeq
<1>2. /\ Span(a, b + 1) \in Seq(Nat) /\ Len(Span(a, b + 1)) = b + 1 - a
      /\ \A i \in 1..(b + 1 - a) : Span(a, b + 1)[i] = a + i - 1
    <2>1. b + 1 \in Nat /\ a <= b + 1
        OBVIOUS
    <2> QED
        BY <2>1, SpanIsSeq
<1>3. Append(Span(a, b), b) \in Seq(Nat) /\ Len(Append(Span(a, b), b)) = b + 1 - a
    BY <1>1
<1>4. ASSUME NEW i \in 1..(b + 1 - a)
      PROVE  Append(Span(a, b), b)[i] = Span(a, b + 1)[i]
    BY <1>1, <1>2
<1> QED
    BY <1>2, <1>3, <1>4, SeqEqual

\* A step before b is one that there is from 0 to b.
LEMMA SpanHas ==
    ASSUME NEW a \in Nat, NEW b \in Nat, a < b
    PROVE  a \in Range(Span(0, b))
<1>1. a + 1 \in DOMAIN Span(0, b) /\ Span(0, b)[a + 1] = a
    BY DEF Span
<1> QED
    BY <1>1 DEF Range

------------------------------------------------------------------------------
\* No scope becomes ready.
Onward ==
    /\ use' = use /\ DOMAIN at' = Scopes
    /\ \A s \in Scopes : at'[s] = "ready" => at[s] = "ready"

\* Who is alone was so before.
LEMMA SoundBefore ==
    ASSUME Onward
    PROVE  (Alone' => Alone) /\ (Sound' => Sound)
<1>1. Alone' => Alone
    BY DEF Onward, Alone
<1> QED
    BY <1>1 DEF Sound, Onward

\* Two scopes that have begun are not alone.
LEMMA AloneIsOne ==
    ASSUME NEW s \in Scopes, NEW o \in Scopes, Alone, at[s] # "ready", at[o] # "ready"
    PROVE  s = o
    BY DEF Alone

\* A step that leaves transactions and the database alone preserves the invariant.
LEMMA IdleInv ==
    ASSUME Inv, Onward, UNCHANGED <<version, steps, open>>,
           \A s \in Scopes : at[s] = "migrating" => at'[s] = "migrating"
    PROVE  Inv'
<1>1. Types'
    BY DEF Inv, Types, Open, OpenTyped, Span, Onward
<1>2. ASSUME Sound' PROVE SoundInv'
    <2>1. SoundInv
        BY <1>2, SoundBefore DEF Inv
    <2>2. ASSUME NEW s \in Scopes, Open(s)' PROVE InStep(s)'
        <3>1. InStep(s)
            BY <2>1, <2>2 DEF SoundInv, Open
        <3> QED
            BY <3>1, SoundBefore DEF InStep
    <2>3. OneWriter'
        BY <2>1 DEF SoundInv, OneWriter, Open
    <2>4. \A c \in Classes : steps'[c] = Span(0, version'[c])
        BY <2>1 DEF SoundInv
    <2> QED
        BY <2>2, <2>3, <2>4 DEF SoundInv, Span
<1> QED
    BY <1>1, <1>2 DEF Inv

\* So does one that cancels the transaction of a scope.
LEMMA DroppedInv ==
    ASSUME MigrationsAssumption, Inv, Onward, NEW s \in Scopes, UNCHANGED database,
           open' = [open EXCEPT ![s] = NoTransaction],
           \A o \in Scopes \ {s} : at'[o] = at[o]
    PROVE  Inv'
<1>1. ~Open(s)' /\ \A o \in Scopes \ {s} : open'[o] = open[o]
    BY DEF Open, NoTransaction, MigrationsAssumption, Inv, Types
<1>2. Types'
    BY <1>1 DEF Inv, Types, Open, OpenTyped, Span, Onward, database
<1>3. ASSUME Sound' PROVE SoundInv'
    <2>1. SoundInv
        BY <1>3, SoundBefore DEF Inv
    <2>2. ASSUME NEW o \in Scopes, Open(o)' PROVE InStep(o)'
        <3>1. o # s /\ InStep(o)
            BY <1>1, <2>1, <2>2 DEF SoundInv, Open
        <3> QED
            BY <1>1, <3>1, SoundBefore DEF InStep, database
    <2>3. OneWriter'
        BY <1>1, <2>1 DEF SoundInv, OneWriter, Open
    <2>4. \A c \in Classes : steps'[c] = Span(0, version'[c])
        BY <2>1 DEF SoundInv, database
    <2> QED
        BY <2>2, <2>3, <2>4 DEF SoundInv, Span
<1> QED
    BY <1>2, <1>3 DEF Inv

\* So does one that commits it: its steps come right after those that are committed, and
\* no other transaction at the class has steps.
LEMMA CommittedInv ==
    ASSUME MigrationsAssumption, Inv, Onward, NEW s \in Scopes, Committed(s),
           at[s] \notin {"ready", "migrating"},
           open' = [open EXCEPT ![s] = NoTransaction],
           \A o \in Scopes \ {s} : at'[o] = at[o]
    PROVE  Inv'
<1> USE DEF Inv
<1>1. ~Open(s)' /\ \A o \in Scopes \ {s} : open'[o] = open[o]
    BY DEF Open, NoTransaction, MigrationsAssumption, Types
<1>2. \A c \in Classes :
        /\ version'[c] = IF open[s].class = c /\ open[s].recorded
                         THEN open[s].current ELSE version[c]
        /\ steps'[c] = IF open[s].class = c THEN steps[c] \o open[s].wrote ELSE steps[c]
    BY DEF Committed
<1>3. version' \in [Classes -> Nat]
    BY DEF Committed, Types, Open, OpenTyped
<1>4. Types'
    BY <1>1, <1>3 DEF Types, Open, OpenTyped, Span, Onward
<1>5. ASSUME Sound' PROVE SoundInv'
    <2>1. SoundInv
        BY <1>5, SoundBefore
    <2>2. ASSUME NEW c \in Classes
          PROVE  /\ steps'[c] = Span(0, version'[c]) /\ version[c] <= version'[c]
                 /\ \/ version'[c] = version[c]
                    \/ open[s].class = c /\ open[s].current # open[s].read
        <3>1. version[c] \in Nat /\ steps[c] = Span(0, version[c])
            BY <2>1 DEF SoundInv, Types
        <3>2. CASE open[s].class # c
            BY <1>2, <3>1, <3>2
        <3>3. CASE open[s].class = c
            <4>1. OpenTyped(s) /\ InStep(s)
                BY <2>1, <3>3 DEF SoundInv, Types, Open
            <4>2. open[s].recorded <=> open[s].current # open[s].read
                BY <4>1 DEF InStep
            <4>3. CASE open[s].current # open[s].read
                <5>1. open[s].read = version[c]
                    BY <3>3, <4>1, <4>3 DEF InStep
                <5>2. version'[c] = open[s].current
                    BY <1>2, <3>3, <4>2, <4>3
                <5>3. steps'[c] = Span(0, version[c]) \o Span(version[c], open[s].current)
                    BY <1>2, <3>1, <3>3, <4>1, <5>1 DEF OpenTyped
                <5>4. open[s].current \in Nat /\ version[c] <= open[s].current
                    BY <4>1, <5>1 DEF OpenTyped
                <5> QED
                    BY <3>1, <3>3, <4>3, <5>2, <5>3, <5>4, SpanJoin
            <4>4. CASE open[s].current = open[s].read
                <5>1. version'[c] = version[c]
                    BY <1>2, <4>2, <4>4
                <5>2. open[s].wrote = <<>>
                    BY <4>1, <4>4, SpanEmpty DEF OpenTyped
                <5>3. steps[c] \in Seq(Nat)
                    BY <3>1, SpanIsSeq
                <5>4. steps'[c] = steps[c]
                    BY <1>2, <3>3, <5>2, <5>3
                <5> QED
                    BY <3>1, <5>1, <5>4
            <4> QED
                BY <4>3, <4>4
        <3> QED
            BY <3>2, <3>3
    <2>3. ASSUME NEW o \in Scopes, Open(o)' PROVE InStep(o)'
        <3>1. o # s /\ Open(o) /\ InStep(o) /\ OpenTyped(o) /\ at[o] # "ready"
            BY <1>1, <2>1, <2>3 DEF SoundInv, Open, Types
        <3>2. open'[o] = open[o] /\ at'[o] = at[o]
            BY <1>1, <3>1
        <3> DEFINE c == open[o].class
        <3>3. c \in Classes /\ version[c] \in Nat /\ version'[c] \in Nat
            BY <1>3, <3>1 DEF Open, Types
        <3>4. open[o].read <= version'[c]
            BY <2>2, <3>1, <3>3 DEF InStep, OpenTyped
        <3>5. ~Alone
            BY <3>1, AloneIsOne
        <3>6. ASSUME open[o].current # open[o].read PROVE open[o].read = version'[c]
            <4>1. ~(open[s].class = c /\ open[s].current # open[s].read)
                BY <2>1, <3>1, <3>6 DEF SoundInv, OneWriter, Open
            <4>2. version'[c] = version[c]
                BY <2>2, <3>3, <4>1
            <4> QED
                BY <3>1, <3>6, <4>2 DEF InStep
        <3> QED
            BY <3>1, <3>2, <3>4, <3>5, <3>6, SoundBefore DEF InStep
    <2>4. OneWriter'
        BY <1>1, <2>1 DEF SoundInv, OneWriter, Open
    <2> QED
        BY <2>2, <2>3, <2>4 DEF SoundInv, Span
<1> QED
    BY <1>4, <1>5

\* So does one that opens a transaction at the version that it reads.
LEMMA ReadInv ==
    ASSUME MigrationsAssumption, Inv, NEW s \in Scopes, ReadVersion(s)
    PROVE  Inv'
<1> USE DEF Inv
<1> DEFINE c == Head(calls[s]).of
<1>1. /\ at[s] = "reading" /\ UNCHANGED <<use, version, steps>>
      /\ open' = [open EXCEPT ![s] = Transaction(c, version[c])]
      /\ at' = [at EXCEPT ![s] = "migrating"]
    BY DEF ReadVersion, database
<1>2. Onward
    BY <1>1 DEF Onward, Types
<1>3. \A o \in Scopes \ {s} : open'[o] = open[o] /\ at'[o] = at[o]
    BY <1>1 DEF Types
<1>4. /\ open'[s].class = c /\ open'[s].read = version[c] /\ open'[s].current = version[c]
      /\ open'[s].wrote = <<>> /\ at'[s] = "migrating"
    BY <1>1 DEF Types, Transaction
<1>5. Open(s)' => OpenTyped(s)' /\ open'[s].current = open'[s].read
    <2>1. ASSUME c \in Classes PROVE version[c] \in Nat /\ Span(version[c], version[c]) = <<>>
        BY <2>1, SpanEmpty DEF Types
    <2>2. CASE c \in Classes
        BY <1>4, <2>1, <2>2 DEF OpenTyped, Span
    <2> QED
        BY <1>4, <2>2 DEF Open
<1>6. Types'
    <2>1. ASSUME NEW o \in Scopes, Open(o)' PROVE at'[o] # "ready" /\ OpenTyped(o)'
        <3>1. CASE o = s
            BY <1>4, <1>5, <2>1, <3>1
        <3>2. CASE o # s
            BY <1>3, <2>1, <3>2 DEF Types, Open, OpenTyped, Span
        <3> QED
            BY <3>1, <3>2
    <2> QED
        BY <1>1, <2>1 DEF Types
<1>7. ASSUME Sound' PROVE SoundInv'
    <2>1. SoundInv
        BY <1>2, <1>7, SoundBefore
    <2>2. ASSUME NEW o \in Scopes, Open(o)' PROVE InStep(o)'
        <3>1. CASE o = s
            <4>1. version[c] \in Nat
                BY <1>4, <2>2, <3>1 DEF Types, Open
            <4> QED
                BY <1>1, <1>4, <3>1, <4>1 DEF InStep
        <3>2. CASE o # s
            <4>1. InStep(o)
                BY <1>3, <2>1, <2>2, <3>2 DEF SoundInv, Open
            <4> QED
                BY <1>1, <1>2, <1>3, <3>2, <4>1, SoundBefore DEF InStep
        <3> QED
            BY <3>1, <3>2
    <2>3. OneWriter'
        BY <1>3, <1>5, <2>1 DEF SoundInv, OneWriter, Open
    <2>4. \A d \in Classes : steps'[d] = Span(0, version'[d])
        BY <1>1, <2>1 DEF SoundInv
    <2> QED
        BY <2>2, <2>3, <2>4 DEF SoundInv, Span
<1> QED
    BY <1>6, <1>7

\* So does one that applies a step: the version that was read is still the committed
\* one, for otherwise the step would have been applied before.
LEMMA ApplyInv ==
    ASSUME MigrationsAssumption, Inv, NEW s \in Scopes, ApplyStep(s)
    PROVE  Inv'
<1> USE DEF Inv
<1> DEFINE c == open[s].class
<1>1. /\ at[s] = "migrating" /\ Writable(s, c) /\ ~StepConflicts(c, open[s].current)
      /\ UNCHANGED <<use, version, steps, at>>
      /\ open' = [open EXCEPT ![s] = Stepped(open[s])]
    BY DEF ApplyStep, StepIsNext, database
<1>2. Onward
    BY <1>1 DEF Onward, Types
<1>3. \A o \in Scopes \ {s} : open'[o] = open[o]
    BY <1>1 DEF Types
<1>4. /\ open'[s].class = c /\ open'[s].read = open[s].read
      /\ open'[s].current = open[s].current + 1
      /\ open'[s].wrote = Append(open[s].wrote, open[s].current)
    BY <1>1 DEF Types, Stepped
<1>5. Open(s)' => OpenTyped(s)'
    <2>1. ASSUME Open(s) PROVE OpenTyped(s)'
        <3>1. OpenTyped(s)
            BY <2>1 DEF Types
        <3>2. Append(open[s].wrote, open[s].current) = Span(open[s].read, open[s].current + 1)
            BY <3>1, SpanAppend DEF OpenTyped
        <3>3. /\ open'[s].read \in Nat /\ open'[s].current \in Nat
              /\ open'[s].read <= open'[s].current
            BY <1>4, <3>1 DEF OpenTyped
        <3>4. open'[s].wrote = Span(open'[s].read, open'[s].current)
            BY <1>4, <3>2
        <3> QED
            BY <3>3, <3>4 DEF OpenTyped, Span
    <2> QED
        BY <1>4, <2>1 DEF Open
<1>6. Types'
    <2>1. ASSUME NEW o \in Scopes, Open(o)' PROVE at'[o] # "ready" /\ OpenTyped(o)'
        <3>1. CASE o = s
            BY <1>1, <1>5, <2>1, <3>1
        <3>2. CASE o # s
            BY <1>1, <1>3, <2>1, <3>2 DEF Types, Open, OpenTyped, Span
        <3> QED
            BY <3>1, <3>2
    <2> QED
        BY <1>1, <2>1 DEF Types
<1>7. ASSUME Sound' PROVE SoundInv'
    <2>1. SoundInv /\ Sound
        BY <1>2, <1>7, SoundBefore
    <2>2. ASSUME Open(s) PROVE open[s].read = version[c]
        <3>1. OpenTyped(s) /\ InStep(s) /\ version[c] \in Nat /\ steps[c] = Span(0, version[c])
            BY <2>1, <2>2 DEF SoundInv, Types, Open
        <3>2. CASE open[s].current # open[s].read \/ Alone
            BY <3>1, <3>2 DEF InStep
        <3>3. CASE open[s].current = open[s].read /\ ~use.data
            <4>1. open[s].read \notin Range(Span(0, version[c]))
                BY <1>1, <3>1, <3>3 DEF StepConflicts
            <4>2. ~(open[s].read < version[c])
                BY <3>1, <4>1, SpanHas DEF OpenTyped
            <4> QED
                BY <3>1, <4>2 DEF InStep, OpenTyped
        <3> QED
            BY <2>1, <3>2, <3>3 DEF Sound
    <2>3. ASSUME NEW o \in Scopes, Open(o)' PROVE InStep(o)'
        <3>1. CASE o = s
            <4>1. Open(s) /\ open[s].read = version[c] /\ version[c] \in Nat
                BY <1>4, <2>2, <2>3, <3>1 DEF Open, Types
            <4> QED
                BY <1>1, <1>4, <3>1, <4>1 DEF InStep
        <3>2. CASE o # s
            <4>1. InStep(o)
                BY <1>3, <2>1, <2>3, <3>2 DEF SoundInv, Open
            <4> QED
                BY <1>1, <1>2, <1>3, <3>2, <4>1, SoundBefore DEF InStep
        <3> QED
            BY <3>1, <3>2
    <2>4. ASSUME NEW o \in Scopes, o # s, Open(s), open[o].class = c
          PROVE  open[o].current = open[o].read
        <3>1. open[o].wrote = <<>>
            BY <1>1, <2>4 DEF Writable, Rivals
        <3>2. OpenTyped(o)
            BY <2>4 DEF Types, Open
        <3> QED
            BY <3>1, <3>2, SpanEmpty DEF OpenTyped
    <2>5. OneWriter'
        <3> SUFFICES ASSUME NEW x \in Scopes, NEW o \in Scopes, x # o,
                            Open(x)', open'[o].class = open'[x].class
                     PROVE  \/ open'[x].current = open'[x].read
                            \/ open'[o].current = open'[o].read
            BY DEF OneWriter
        <3>1. CASE x = s
            BY <1>3, <1>4, <2>4, <3>1 DEF Open
        <3>2. CASE o = s
            BY <1>3, <1>4, <2>4, <3>2 DEF Open
        <3>3. CASE x # s /\ o # s
            BY <1>3, <2>1, <3>3 DEF SoundInv, OneWriter, Open
        <3> QED
            BY <3>1, <3>2, <3>3
    <2>6. \A d \in Classes : steps'[d] = Span(0, version'[d])
        BY <1>1, <2>1 DEF SoundInv
    <2> QED
        BY <2>3, <2>5, <2>6 DEF SoundInv, Span
<1> QED
    BY <1>6, <1>7

\* So does one that writes the record: it does when steps have been applied.
LEMMA RecordInv ==
    ASSUME MigrationsAssumption, Inv, NEW s \in Scopes, Record(s)
    PROVE  Inv'
<1> USE DEF Inv
<1>1. /\ at[s] = "migrating" /\ UNCHANGED <<use, version, steps>>
      /\ open' = [open EXCEPT ![s] = Written(open[s])]
      /\ at' = [at EXCEPT ![s] = "calling"]
    BY DEF Record, database
<1>2. Onward
    BY <1>1 DEF Onward, Types
<1>3. \A o \in Scopes \ {s} : open'[o] = open[o] /\ at'[o] = at[o]
    BY <1>1 DEF Types
<1>4. /\ open'[s].class = open[s].class /\ open'[s].read = open[s].read
      /\ open'[s].current = open[s].current /\ open'[s].wrote = open[s].wrote
      /\ open'[s].recorded = (open[s].current # open[s].read)
      /\ at'[s] = "calling"
    BY <1>1 DEF Types, Written, Recorded
<1>5. Types'
    <2>1. ASSUME NEW o \in Scopes, Open(o)' PROVE at'[o] # "ready" /\ OpenTyped(o)'
        <3>1. CASE o = s
            BY <1>4, <2>1, <3>1 DEF Types, Open, OpenTyped, Span
        <3>2. CASE o # s
            BY <1>3, <2>1, <3>2 DEF Types, Open, OpenTyped, Span
        <3> QED
            BY <3>1, <3>2
    <2> QED
        BY <1>1, <2>1 DEF Types
<1>6. ASSUME Sound' PROVE SoundInv'
    <2>1. SoundInv
        BY <1>2, <1>6, SoundBefore
    <2>2. ASSUME NEW o \in Scopes, Open(o)' PROVE InStep(o)'
        <3>1. Open(o) /\ InStep(o)
            BY <1>3, <1>4, <2>1, <2>2 DEF SoundInv, Open
        <3>2. CASE o = s
            BY <1>1, <1>2, <1>4, <3>1, <3>2, SoundBefore DEF InStep
        <3>3. CASE o # s
            BY <1>1, <1>2, <1>3, <3>1, <3>3, SoundBefore DEF InStep
        <3> QED
            BY <3>2, <3>3
    <2>3. OneWriter'
        <3>1. \A o \in Scopes : /\ open'[o].class = open[o].class
                                /\ open'[o].read = open[o].read
                                /\ open'[o].current = open[o].current
            BY <1>3, <1>4
        <3> QED
            BY <2>1, <3>1 DEF SoundInv, OneWriter, Open
    <2>4. \A d \in Classes : steps'[d] = Span(0, version'[d])
        BY <1>1, <2>1 DEF SoundInv
    <2> QED
        BY <2>2, <2>3, <2>4 DEF SoundInv, Span
<1> QED
    BY <1>5, <1>6

------------------------------------------------------------------------------
\* At the beginning nothing is open, and the steps are those of what is installed.
LEMMA InitInv ==
    ASSUME MigrationsAssumption, Init PROVE Inv
<1>1. \A s \in Scopes : open[s] = NoTransaction /\ ~Open(s)
    BY DEF Init, NoTransaction, MigrationsAssumption, Open
<1>2. Types
    BY <1>1 DEF Init, Types, MigrationsAssumption
<1>3. \A c \in Classes : steps[c] = Span(0, version[c])
    <2>1. ASSUME NEW c \in Classes PROVE steps[c] = Span(0, version[c])
        <3>1. use.installed[c] \in Nat
            BY DEF Init, MigrationsAssumption
        <3>2. steps[c] = [i \in 1..use.installed[c] |-> i - 1]
            BY DEF Init
        <3>3. version[c] = use.installed[c]
            BY DEF Init
        <3> QED
            BY <3>1, <3>2, <3>3 DEF Span
    <2> QED
        BY <2>1
<1> QED
    BY <1>1, <1>2, <1>3 DEF Inv, SoundInv, OneWriter

\* Every step preserves the invariant.
LEMMA StepInv ==
    ASSUME MigrationsAssumption, Inv, [Next]_vars PROVE Inv'
<1> USE DEF Inv
<1>1. ASSUME NEW s \in Scopes, Activate(s) PROVE Inv'
    <2>1. Onward /\ UNCHANGED <<version, steps, open>>
        BY <1>1 DEF Activate, Onward, Types, database
    <2> QED
        BY <1>1, <2>1, IdleInv DEF Activate, Types
<1>2. ASSUME NEW s \in Scopes, Begin(s) PROVE Inv'
    <2>1. Onward /\ UNCHANGED <<version, steps, open>>
        BY <1>2 DEF Begin, Onward, Types, database
    <2> QED
        BY <1>2, <2>1, IdleInv DEF Begin, Types
<1>3. ASSUME NEW s \in Scopes, ListFeatures(s) PROVE Inv'
    <2>1. Onward /\ UNCHANGED <<version, steps, open>>
        BY <1>3 DEF ListFeatures, Onward, Types, database
    <2> QED
        BY <1>3, <2>1, IdleInv DEF ListFeatures, Types
<1>4. ASSUME NEW s \in Scopes, Call(s) \/ UpdateFeature(s) \/ Unlock(s) PROVE Inv'
    <2>1. UNCHANGED <<use, version, steps, open, at>>
        BY <1>4 DEF Call, UpdateFeature, Unlock, database, progress
    <2> QED
        BY <2>1, IdleInv DEF Onward, Types
<1>5. ASSUME NEW s \in Scopes, Finish(s) PROVE Inv'
    <2>1. Onward /\ UNCHANGED <<version, steps, open>>
        BY <1>5 DEF Finish, Onward, Types, database
    <2> QED
        BY <1>5, <2>1, IdleInv DEF Finish, Types
<1>6. ASSUME NEW s \in Scopes, RequireNew(s) PROVE Inv'
    <2>1. Onward /\ \A o \in Scopes \ {s} : at'[o] = at[o]
        BY <1>6 DEF RequireNew, Onward, Types
    <2> QED
        BY <1>6, <2>1, CommittedInv DEF RequireNew, Calls
<1>7. ASSUME NEW s \in Scopes, Close(s) PROVE Inv'
    <2>1. Onward /\ \A o \in Scopes \ {s} : at'[o] = at[o]
        BY <1>7 DEF Close, Onward, Types
    <2> QED
        BY <1>7, <2>1, CommittedInv DEF Close
<1>8. ASSUME NEW s \in Scopes, FailStep(s) PROVE Inv'
    <2>1. Onward /\ \A o \in Scopes \ {s} : at'[o] = at[o]
        BY <1>8 DEF FailStep, Throws, Onward, Types
    <2> QED
        BY <1>8, <2>1, DroppedInv DEF FailStep
<1>9. ASSUME NEW s \in Scopes, CommitFails(s) PROVE Inv'
    <2>1. Onward /\ \A o \in Scopes \ {s} : at'[o] = at[o]
        BY <1>9 DEF CommitFails, Throws, Onward, Types
    <2> QED
        BY <1>9, <2>1, DroppedInv DEF CommitFails
<1>10. ASSUME NEW s \in Scopes, Crash(s) PROVE Inv'
    <2>1. Onward /\ \A o \in Scopes \ {s} : at'[o] = at[o]
        BY <1>10 DEF Crash, Onward, Types
    <2> QED
        BY <1>10, <2>1, DroppedInv DEF Crash
<1>11. ASSUME NEW s \in Scopes, Abort(s) PROVE Inv'
    <2>1. /\ UNCHANGED <<use, version, open>> /\ "abort" \in use.may
          /\ at' = [at EXCEPT ![s] = "closing"]
        BY <1>11 DEF Abort, database
    <2>2. Types'
        BY <2>1 DEF Types, Open, OpenTyped, Span
    <2> QED
        BY <2>1, <2>2 DEF Sound
<1>12. ASSUME Expire \/ UNCHANGED vars PROVE Inv'
    <2>1. UNCHANGED <<use, version, steps, open, at>>
        BY <1>12 DEF Expire, vars, database
    <2> QED
        BY <2>1, IdleInv DEF Onward, Types
<1> QED
    BY <1>1, <1>2, <1>3, <1>4, <1>5, <1>6, <1>7, <1>8, <1>9, <1>10, <1>11, <1>12,
       ReadInv, ApplyInv, RecordInv DEF Next, Run

\* Every step is committed in order and once, whatever fails and whoever runs migrations
\* at a time, in a database that refuses to apply a step twice and without an abort.
THEOREM MigrationsWholeMigrations ==
    ASSUME MigrationsAssumption PROVE Spec => []WholeMigrations
<1>1. Inv => WholeMigrations
    <2>1. ASSUME Inv, Sound, NEW c \in Classes
          PROVE  steps[c] = [i \in 1..version[c] |-> i - 1]
        <3>1. steps[c] = Span(0, version[c]) /\ version[c] \in Nat
            BY <2>1 DEF Inv, SoundInv, Types
        <3> QED
            BY <3>1 DEF Span
    <2> QED
        BY <2>1 DEF WholeMigrations, Sound
<1> QED
    BY <1>1, InitInv, StepInv, PTL DEF Spec

------------------------------------------------------------------------------
\* What a use of the migrations is.
LEMMA UseFacts ==
    ASSUME MigrationsAssumption, use \in Uses
    PROVE  /\ use.installed \in [Classes -> Nat] /\ use.latest \in [Classes -> Nat]
           /\ \A s \in Scopes : use.scopes[s].plan \in Seq(Features)
           /\ \A f \in Features : /\ use.dependencies[f] \in Seq(Features)
                                 /\ use.classes[f] \in Seq(Classes)
           /\ use.order \in Seq(Classes) /\ Classes \subseteq Range(use.order)
    BY DEF MigrationsAssumption

\* A class is one of its feature, and of no other.
LEMMA FeatureOfClass ==
    ASSUME MigrationsAssumption, use \in Uses, NEW c \in Classes
    PROVE  /\ FeatureOf(c) \in Features
           /\ \A g \in Features : c \in Range(use.classes[g]) <=> g = FeatureOf(c)
<1>1. PICK f \in Features : \A g \in Features : c \in Range(use.classes[g]) <=> g = f
    BY DEF MigrationsAssumption
<1>2. FeatureOf(c) = f
    BY <1>1 DEF FeatureOf
<1> QED
    BY <1>1, <1>2

\* What a feature needs are features.
LEMMA NeedsFeatures ==
    ASSUME MigrationsAssumption, use \in Uses, NEW g \in Features
    PROVE  Needs(g) \subseteq Features
<1>1. use.dependencies[g] \in Seq(Features)
    BY UseFacts
<1>2. \A i \in DOMAIN use.dependencies[g] : use.dependencies[g][i] \in Features
    BY <1>1
<1> QED
    BY <1>2 DEF Needs, Range

\* What f depends on: what it needs, and what that depends on.
LEMMA BelowFacts ==
    ASSUME MigrationsAssumption, use \in Uses, NEW f \in Features
    PROVE  /\ Needs(f) \subseteq Below(f) /\ Below(f) \subseteq Features
           /\ \A x \in Below(f) : Below(x) \subseteq Below(f)
           /\ \A d \in Below(f) : \E x \in Needs(f) : d = x \/ d \in Below(x)
<1>0. \A g \in Features : Needs(g) \subseteq Features
    BY NeedsFeatures
<1>1. Needs(f) \subseteq Below(f) /\ Below(f) \subseteq Features
    BY <1>0 DEF Below
<1>2. ASSUME NEW g \in Features, NEW x \in Below(g) PROVE Needs(x) \subseteq Below(g)
    <2> SUFFICES ASSUME NEW d \in Needs(x), NEW S \in SUBSET Features, Needs(g) \subseteq S,
                        \A y \in S : Needs(y) \subseteq S
                 PROVE  d \in S
        BY <1>0, <1>2 DEF Below
    <2>1. x \in S
        BY <1>2 DEF Below
    <2> QED
        BY <2>1
<1>3. ASSUME NEW x \in Below(f) PROVE Below(x) \subseteq Below(f)
    <2>1. Below(f) \in SUBSET Features /\ Needs(x) \subseteq Below(f)
          /\ \A y \in Below(f) : Needs(y) \subseteq Below(f)
        BY <1>1, <1>2, <1>3
    <2> QED
        BY <2>1 DEF Below
<1>4. ASSUME NEW d \in Below(f) PROVE \E x \in Needs(f) : d = x \/ d \in Below(x)
    <2> DEFINE S == {g \in Features : \E x \in Needs(f) : g = x \/ g \in Below(x)}
    <2>1. S \in SUBSET Features /\ Needs(f) \subseteq S
        BY <1>0
    <2>2. ASSUME NEW g \in S, NEW y \in Needs(g) PROVE y \in S
        <3>1. PICK x \in Needs(f) : g = x \/ g \in Below(x)
            OBVIOUS
        <3>2. g \in Features /\ x \in Features /\ y \in Features
            BY <1>0, <2>2
        <3>3. CASE g = x
            <4>1. y \in Below(x)
                BY <1>0, <2>2, <3>2, <3>3 DEF Below
            <4> QED
                BY <3>2, <4>1
        <3>4. CASE g \in Below(x)
            <4>1. y \in Below(x)
                BY <1>2, <2>2, <3>2, <3>4
            <4> QED
                BY <3>2, <4>1
        <3> QED
            BY <3>1, <3>3, <3>4
    <2>3. d \in S
        BY <1>4, <2>1, <2>2 DEF Below
    <2> QED
        BY <2>3
<1> QED
    BY <1>1, <1>3, <1>4

\* No feature is below itself.
LEMMA NotBelowItself ==
    ASSUME MigrationsAssumption, AcyclicAssumption, use \in Uses, NEW f \in Features
    PROVE  f \notin Below(f)
<1>1. PICK rank \in [Features -> 1..Cardinality(Features)] :
        \A g \in Features : \A d \in Needs(g) : rank[d] < rank[g]
    BY DEF AcyclicAssumption, Needs
<1>2. Cardinality(Features) \in Nat
    BY FS_CardinalityType DEF AcyclicAssumption
<1>3. \A g \in Features : rank[g] \in Nat
    BY <1>1, <1>2
<1> DEFINE S == {d \in Features : rank[d] < rank[f]}
<1>4. \A g \in Features : Needs(g) \subseteq Features
    BY NeedsFeatures
<1>5. ASSUME NEW g \in S PROVE Needs(g) \subseteq S
    BY <1>1, <1>3, <1>4
<1>6. S \in SUBSET Features /\ Needs(f) \subseteq S
    BY <1>1, <1>4
<1>7. Below(f) \subseteq S
    BY <1>5, <1>6 DEF Below
<1>8. f \notin S
    BY <1>3
<1> QED
    BY <1>7, <1>8

\* Numbers up to n can be listed in their order.
LEMMA Enumeration ==
    ASSUME NEW n \in Nat, NEW places \in SUBSET (1..n)
    PROVE  /\ Cardinality(places) \in Nat
           /\ \E q \in [1..Cardinality(places) -> places] :
                \A i, j \in 1..Cardinality(places) : i < j => q[i] < q[j]
           /\ \A q \in [1..Cardinality(places) -> places] :
                (\A i, j \in 1..Cardinality(places) : i < j => q[i] < q[j])
                => \A i \in places : \E k \in 1..Cardinality(places) : q[k] = i
<1> DEFINE m == Cardinality(places)
           below == [i \in places |-> {j \in places : j <= i}]
           rank == [i \in places |-> Cardinality(below[i])]
<1> HIDE DEF below, rank
<1>0. \A i \in places : i \in Nat
    OBVIOUS
<1>1. IsFiniteSet(places) /\ m \in Nat
    <2>1. IsFiniteSet(1..n)
        BY FS_Interval
    <2>2. IsFiniteSet(places)
        BY <2>1, FS_Subset
    <2> QED
        BY <2>2, FS_CardinalityType
<1> HIDE DEF m
<1>2. IsFiniteSet(1..m) /\ Cardinality(1..m) = m
    BY <1>1, FS_Interval
<1>3. \A i \in places : IsFiniteSet(below[i]) /\ Cardinality(below[i]) \in 0..m
    <2> TAKE i \in places
    <2>1. below[i] \in SUBSET places
        BY DEF below
    <2>2. IsFiniteSet(below[i]) /\ Cardinality(below[i]) <= m
        BY <1>1, <2>1, FS_Subset DEF m
    <2> QED
        BY <1>1, <2>2, FS_CardinalityType
<1>4. \A i \in places : rank[i] \in 1..m
    <2> TAKE i \in places
    <2>1. i \in below[i]
        BY <1>0 DEF below
    <2>2. rank[i] = Cardinality(below[i])
        BY DEF rank
    <2>3. Cardinality(below[i]) # 0
        BY <1>3, <2>1, FS_EmptySet
    <2>4. Cardinality(below[i]) \in 0..m
        BY <1>3
    <2> QED
        BY <1>1, <2>2, <2>3, <2>4
<1>5. \A i, j \in places : i < j => rank[i] < rank[j]
    <2> SUFFICES ASSUME NEW i \in places, NEW j \in places, i < j PROVE rank[i] < rank[j]
        OBVIOUS
    <2>0. i \in Nat /\ j \in Nat /\ \A k \in places : k \in Nat
        BY <1>0
    <2>1. below[i] \in SUBSET below[j] /\ j \in below[j] /\ j \notin below[i]
        <3>1. below[i] = {k \in places : k <= i} /\ below[j] = {k \in places : k <= j}
            BY DEF below
        <3>2. \A k \in places : k <= i => k <= j
            BY <2>0
        <3>3. j <= j /\ ~(j <= i)
            BY <2>0
        <3> QED
            BY <3>1, <3>2, <3>3
    <2>2. rank[i] = Cardinality(below[i]) /\ rank[j] = Cardinality(below[j])
        BY DEF rank
    <2>3. below[i] # below[j]
        BY <2>1
    <2>4. Cardinality(below[i]) <= Cardinality(below[j])
        BY <1>3, <2>1, FS_Subset
    <2>5. Cardinality(below[i]) # Cardinality(below[j])
        BY <1>3, <2>1, <2>3, FS_Subset
    <2> QED
        BY <1>1, <1>3, <2>2, <2>4, <2>5
<1>6. rank \in [places -> 1..m]
    <2>1. rank = [i \in places |-> rank[i]]
        BY DEF rank
    <2> QED
        BY <1>4, <2>1
<1>7. rank \in Surjection(places, 1..m)
    <2>1. rank \in Injection(places, 1..m)
        <3>1. \A i, j \in places : rank[i] = rank[j] => i = j
            <4> SUFFICES ASSUME NEW i \in places, NEW j \in places, rank[i] = rank[j]
                         PROVE  i = j
                OBVIOUS
            <4>1. i \in Nat /\ j \in Nat /\ rank[i] \in 1..m
                BY <1>0, <1>4
            <4>2. ~(i < j) /\ ~(j < i)
                BY <1>1, <1>5, <4>1
            <4> QED
                BY <4>1, <4>2
        <3> QED
            BY <1>6, <3>1 DEF Injection, IsInjective
    <2> QED
        BY <1>1, <1>2, <2>1, FS_Injection DEF m
<1>8. \A k \in 1..m : \E i \in places : rank[i] = k
    BY <1>7 DEF Surjection
<1> DEFINE s == [k \in 1..m |-> CHOOSE i \in places : rank[i] = k]
<1>9. \A k \in 1..m : s[k] \in places /\ rank[s[k]] = k
    BY <1>8
<1>10. s \in [1..m -> places] /\ \A i, j \in 1..m : i < j => s[i] < s[j]
    <2>1. s \in [1..m -> places]
        BY <1>9
    <2> HIDE DEF s
    <2>2. ASSUME NEW i \in 1..m, NEW j \in 1..m, i < j PROVE s[i] < s[j]
        <3>1. s[i] \in places /\ s[j] \in places
            BY <1>9
        <3>4. s[i] \in Nat /\ s[j] \in Nat
            BY <1>0, <3>1
        <3>2. s[j] < s[i] => rank[s[j]] < rank[s[i]]
            BY <1>5, <3>1
        <3>3. rank[s[i]] = i /\ rank[s[j]] = j
            BY <1>9
        <3> QED
            BY <1>1, <2>2, <3>2, <3>3, <3>4
    <2> QED
        BY <2>1, <2>2
<1>11. ASSUME NEW q \in [1..m -> places], \A i, j \in 1..m : i < j => q[i] < q[j]
       PROVE  \A i \in places : \E k \in 1..m : q[k] = i
    <2>1. ASSUME NEW i \in 1..m, NEW j \in 1..m, q[i] = q[j] PROVE i = j
        <3>1. q[i] \in Nat
            BY <1>0
        <3>2. ~(i < j) /\ ~(j < i)
            BY <1>11, <2>1, <3>1
        <3> QED
            BY <1>1, <3>2
    <2>2. q \in Injection(1..m, places)
        BY <2>1 DEF Injection, IsInjective
    <2>3. q \in Surjection(1..m, places)
        BY <1>1, <1>2, <2>2, FS_Injection DEF m
    <2> QED
        BY <2>3 DEF Surjection
<1> HIDE DEF s
<1> QED
    BY <1>1, <1>10, <1>11 DEF m

\* The features of all classes that have a step left are listed.
LEMMA NeedUpdateFacts ==
    ASSUME MigrationsAssumption, use \in Uses
    PROVE  /\ NeedUpdate \in Seq(Features)
           /\ \A c \in Classes : HasStep(c, version[c]) => FeatureOf(c) \in Range(NeedUpdate)
<1> DEFINE left == {i \in DOMAIN use.order : HasStep(use.order[i], version[use.order[i]])}
           m == Cardinality(left)
           next == CHOOSE next \in [1..Cardinality(left) -> left] :
                    \A i, j \in 1..Cardinality(left) : i < j => next[i] < next[j]
           n == Len(use.order)
           list == [i \in 1..m |-> FeatureOf(use.order[next[i]])]
<1>1. /\ n \in Nat /\ left \in SUBSET (1..n) /\ \A i \in 1..n : use.order[i] \in Classes
      /\ \A c \in Classes : \E i \in 1..n : use.order[i] = c
      /\ \A i \in 1..n : HasStep(use.order[i], version[use.order[i]]) => i \in left
    <2>1. use.order \in Seq(Classes) /\ Classes \subseteq Range(use.order)
        BY UseFacts
    <2>2. n \in Nat /\ DOMAIN use.order = 1..n
        BY <2>1
    <2>3. \A i \in 1..n : use.order[i] \in Classes
        BY <2>1
    <2>4. \A c \in Classes : \E i \in 1..n : use.order[i] = c
        BY <2>1, <2>2 DEF Range
    <2> HIDE DEF n
    <2> QED
        BY <2>2, <2>3, <2>4
<1>2. NeedUpdate = list
    BY DEF NeedUpdate
<1> HIDE DEF left, n
<1>3. /\ m \in Nat
      /\ next \in [1..m -> left] /\ \A i, j \in 1..m : i < j => next[i] < next[j]
      /\ \A i \in left : \E k \in 1..m : next[k] = i
    <2>1. /\ m \in Nat
          /\ \E q \in [1..m -> left] : \A i, j \in 1..m : i < j => q[i] < q[j]
          /\ \A q \in [1..m -> left] :
                (\A i, j \in 1..m : i < j => q[i] < q[j])
                => \A i \in left : \E k \in 1..m : q[k] = i
        BY <1>1, Enumeration
    <2>2. next = CHOOSE q \in [1..m -> left] : \A i, j \in 1..m : i < j => q[i] < q[j]
        OBVIOUS
    <2> HIDE DEF m, next
    <2>3. next \in [1..m -> left] /\ \A i, j \in 1..m : i < j => next[i] < next[j]
        BY <2>1, <2>2
    <2> QED
        BY <2>1, <2>3
<1> HIDE DEF m, next
<1>4. \A i \in 1..m : FeatureOf(use.order[next[i]]) \in Features
    BY <1>1, <1>3, FeatureOfClass
<1>5. list \in Seq(Features)
    BY <1>3, <1>4
<1>6. ASSUME NEW c \in Classes, HasStep(c, version[c]) PROVE FeatureOf(c) \in Range(list)
    <2>1. PICK i \in 1..n : use.order[i] = c
        BY <1>1
    <2>2. PICK k \in 1..m : next[k] = i
        BY <1>1, <1>3, <1>6, <2>1
    <2>3. k \in DOMAIN list /\ list[k] = FeatureOf(c)
        BY <2>1, <2>2
    <2> QED
        BY <2>3 DEF Range
<1> QED
    BY <1>2, <1>5, <1>6

------------------------------------------------------------------------------
(***************************************************************************)
(* DependenciesFirst.  Of a scope these are said: H, the feature of each   *)
(* class; B, what is below each feature; P, the features that are          *)
(* processed; D, the classes of which nothing is left to do; X, the        *)
(* features that have failed; and q, the calls that are left.  A class of  *)
(* what a processed feature is over is done, or is among the first calls,  *)
(* which all belong to that feature.                                       *)
(***************************************************************************)
\* What feature f is over, and f.
Self(B, f) == {f} \cup B[f]

\* Features are over others as in a tree.
Tree(H, B) ==
    /\ H \in [Classes -> Features] /\ B \in [Features -> SUBSET Features]
    /\ \A f \in Features : f \notin B[f] /\ \A x \in B[f] : B[x] \subseteq B[f]

\* A call of Update, or of the migration of a class.
Entries == [update : {TRUE}, of : Features] \cup [update : {FALSE}, of : Classes]

\* Call x is to migrate class e.
Plans(H, B, P, x, e) ==
    IF x.update THEN H[e] \in Self(B, x.of) /\ H[e] \notin P ELSE x.of = e

\* Class e is done, or one of the first k calls is to migrate it.
Planned(H, B, P, D, q, k, e) == e \in D \/ \E i \in 1..k : Plans(H, B, P, q[i], e)

\* All classes of what is in F are.
AllPlanned(H, B, P, D, q, k, F) ==
    \A e \in Classes : H[e] \in F => Planned(H, B, P, D, q, k, e)

\* Call x is made by the update of feature g.
Within(H, B, g, x) == IF x.update THEN x.of \in B[g] ELSE H[x.of] \in Self(B, g)

\* The first k calls are what is left of the update of g.
Frame(H, B, P, D, q, g, k) ==
    /\ \A i \in 1..k : Within(H, B, g, q[i])
    /\ AllPlanned(H, B, P, D, q, k, Self(B, g))

\* What is below a class that will be migrated comes before.
Ahead(H, B, P, D, X, q, i) ==
    ~q[i].update =>
        \/ B[H[q[i].of]] \cap X # {}
        \/ AllPlanned(H, B, P, D, q, i - 1, B[H[q[i].of]])

Framed(H, B, P, D, X, q, g) ==
    \/ Self(B, g) \cap X # {}
    \/ \E k \in 0..Len(q) : Frame(H, B, P, D, q, g, k)

\* An update before a migration is one of what that depends on.
Nested(H, B, x, y) == x.update /\ ~y.update => x.of \in B[H[y.of]]

InOrder(H, B, P, D, X, q) ==
    /\ \A i \in 1..Len(q) : Ahead(H, B, P, D, X, q, i)
    /\ \A g \in P : Framed(H, B, P, D, X, q, g)
    /\ \A i, j \in 1..Len(q) : i < j => Nested(H, B, q[i], q[j])

\* What is below something below f is below f.
LEMMA TreeFacts ==
    ASSUME NEW H, NEW B, Tree(H, B), NEW f \in Features, NEW x \in B[f]
    PROVE  x \in Features /\ Self(B, x) \subseteq B[f] /\ Self(B, x) \subseteq Self(B, f)
    BY DEF Tree, Self

\* What is planned stays so when more is done.
LEMMA PlannedMore ==
    ASSUME NEW H, NEW B, NEW P, NEW D, NEW E, D \subseteq E, NEW q, NEW k, NEW F,
           AllPlanned(H, B, P, D, q, k, F)
    PROVE  AllPlanned(H, B, P, E, q, k, F)
    BY DEF AllPlanned, Planned

\* The order stays when more is done, or has failed.
LEMMA InOrderMore ==
    ASSUME NEW H, NEW B, NEW P, NEW D, NEW E, D \subseteq E, NEW X, NEW Y, X \subseteq Y,
           NEW q, InOrder(H, B, P, D, X, q)
    PROVE  InOrder(H, B, P, E, Y, q)
<1>1. ASSUME NEW i \in 1..Len(q) PROVE Ahead(H, B, P, E, Y, q, i)
    <2>1. Ahead(H, B, P, D, X, q, i)
        BY DEF InOrder
    <2> QED
        BY <2>1, PlannedMore DEF Ahead
<1>2. ASSUME NEW g \in P PROVE Framed(H, B, P, E, Y, q, g)
    <2>1. Framed(H, B, P, D, X, q, g)
        BY DEF InOrder
    <2>2. CASE Self(B, g) \cap X # {}
        BY <2>2 DEF Framed
    <2>3. ASSUME NEW k \in 0..Len(q), Frame(H, B, P, D, q, g, k)
          PROVE  Framed(H, B, P, E, Y, q, g)
        <3>1. Frame(H, B, P, E, q, g, k)
            BY <2>3, PlannedMore DEF Frame
        <3> QED
            BY <3>1 DEF Framed
    <2> QED
        BY <2>1, <2>2, <2>3 DEF Framed
<1> QED
    BY <1>1, <1>2 DEF InOrder

\* The first call of a scope without calls keeps the order: what is processed is done.
LEMMA InOrderCall ==
    ASSUME NEW H, NEW B, NEW P, NEW D, NEW X, InOrder(H, B, P, D, X, <<>>),
           NEW x, x.update
    PROVE  InOrder(H, B, P, D, X, <<x>>)
<1>1. Len(<<x>>) = 1 /\ <<x>>[1] = x
    OBVIOUS
<1>2. ASSUME NEW i \in 1..Len(<<x>>) PROVE Ahead(H, B, P, D, X, <<x>>, i)
    BY <1>1 DEF Ahead
<1>3. ASSUME NEW g \in P PROVE Framed(H, B, P, D, X, <<x>>, g)
    <2>1. Framed(H, B, P, D, X, <<>>, g)
        BY DEF InOrder
    <2>2. ASSUME Frame(H, B, P, D, <<>>, g, 0) PROVE Frame(H, B, P, D, <<x>>, g, 0)
        BY <2>2 DEF Frame, AllPlanned, Planned
    <2> QED
        BY <1>1, <2>1, <2>2 DEF Framed
<1>4. \A i, j \in 1..Len(<<x>>) : ~(i < j)
    BY <1>1
<1> QED
    BY <1>2, <1>3, <1>4 DEF InOrder

\* The order holds when the calls are dropped, for the feature of the first one has
\* failed: so has all that these calls were made for.
LEMMA InOrderDropped ==
    ASSUME NEW H, NEW B, NEW P, NEW D, NEW E, NEW X, NEW Y, X \subseteq Y, NEW q,
           InOrder(H, B, P, D, X, q), 1 \in 1..Len(q), ~q[1].update, H[q[1].of] \in Y,
           \A e \in D \ E : H[e] \in Y
    PROVE  InOrder(H, B, P, E, Y, <<>>)
<1>1. ASSUME NEW g \in P PROVE Framed(H, B, P, E, Y, <<>>, g)
    <2>1. Framed(H, B, P, D, X, q, g)
        BY DEF InOrder
    <2>2. CASE Self(B, g) \cap X # {}
        BY <2>2 DEF Framed
    <2>3. ASSUME NEW k \in 0..Len(q), Frame(H, B, P, D, q, g, k)
          PROVE  Framed(H, B, P, E, Y, <<>>, g)
        <3>1. CASE k # 0
            <4>1. 1 \in 1..k
                BY <3>1
            <4>2. Within(H, B, g, q[1])
                BY <2>3, <4>1 DEF Frame
            <4> QED
                BY <4>2 DEF Within, Framed
        <3>2. CASE k = 0
            <4>1. \A e \in Classes : H[e] \in Self(B, g) => e \in D
                BY <2>3, <3>2 DEF Frame, AllPlanned, Planned
            <4>2. Self(B, g) \cap Y = {} => Frame(H, B, P, E, <<>>, g, 0)
                BY <4>1 DEF Frame, AllPlanned, Planned
            <4> QED
                BY <4>2 DEF Framed
        <3> QED
            BY <3>1, <3>2
    <2> QED
        BY <2>1, <2>2, <2>3 DEF Framed
<1> QED
    BY <1>1 DEF InOrder

\* The calls of r are those of q but the first one.
Drops(q, r) ==
    /\ Len(q) \in Nat \ {0} /\ Len(r) = Len(q) - 1
    /\ \A i \in 1..Len(r) : r[i] = q[i + 1]

\* What is planned without the first call is still planned when that one is gone.
LEMMA PlannedDrops ==
    ASSUME NEW H, NEW B, NEW P, NEW D, NEW E, D \subseteq E, NEW q, NEW r, Drops(q, r),
           \A e \in Classes : Plans(H, B, P, q[1], e) => e \in E,
           NEW k \in 1..Len(q), NEW F, AllPlanned(H, B, P, D, q, k, F)
    PROVE  AllPlanned(H, B, P, E, r, k - 1, F)
<1> SUFFICES ASSUME NEW e \in Classes, H[e] \in F, e \notin E
             PROVE  \E i \in 1..(k - 1) : Plans(H, B, P, r[i], e)
    BY DEF AllPlanned, Planned
<1>1. PICK i \in 1..k : Plans(H, B, P, q[i], e)
    BY DEF AllPlanned, Planned
<1>2. i # 1
    BY <1>1
<1>3. i - 1 \in 1..(k - 1) /\ i - 1 \in 1..Len(r) /\ (i - 1) + 1 = i
    BY <1>2 DEF Drops
<1>4. r[i - 1] = q[i]
    BY <1>3 DEF Drops
<1> QED
    BY <1>1, <1>3, <1>4

\* The order holds when the first call is gone because it has nothing to do, or because
\* something that it is to update has failed.
LEMMA InOrderDrops ==
    ASSUME NEW H, NEW B, Tree(H, B), NEW P, NEW D, NEW E, D \subseteq E, NEW X,
           NEW q \in Seq(Entries), NEW r, Drops(q, r), InOrder(H, B, P, D, X, q), P \subseteq Features,
           \/ \A e \in Classes : Plans(H, B, P, q[1], e) => e \in E
           \/ q[1].update /\ Self(B, q[1].of) \cap X # {}
    PROVE  InOrder(H, B, P, E, X, r)
<1>0. Len(q) \in Nat /\ \A i \in 1..Len(q) : q[i] \in Entries
    OBVIOUS
<1>1. 1 \in 1..Len(q) /\ q[1] \in Entries
    BY <1>0 DEF Drops
<1>2. ASSUME NEW i \in 1..Len(r) PROVE Ahead(H, B, P, E, X, r, i)
    <2>1. /\ i + 1 \in 1..Len(q) /\ r[i] = q[i + 1] /\ (i + 1) - 1 = i /\ 1 < i + 1
          /\ i \in 1..Len(q)
        BY <1>0 DEF Drops
    <2>2. Ahead(H, B, P, D, X, q, i + 1)
        BY <2>1 DEF InOrder
    <2> DEFINE F == B[H[q[i + 1].of]]
    <2> SUFFICES ASSUME ~q[i + 1].update, F \cap X = {}
                 PROVE  AllPlanned(H, B, P, E, r, i - 1, F)
        BY <2>1 DEF Ahead
    <2>3. AllPlanned(H, B, P, D, q, i, F)
        BY <2>1, <2>2 DEF Ahead
    <2>4. ASSUME q[1].update PROVE Self(B, q[1].of) \cap X = {}
        <3>1. Nested(H, B, q[1], q[i + 1])
            BY <1>1, <2>1 DEF InOrder
        <3>2. q[1].of \in F
            BY <2>4, <3>1 DEF Nested
        <3>3. q[i + 1] \in Entries
            BY <1>0, <2>1
        <3>4. q[i + 1].of \in Classes
            BY <3>3 DEF Entries
        <3>5. H[q[i + 1].of] \in Features
            BY <3>4 DEF Tree
        <3> QED
            BY <3>2, <3>5, TreeFacts
    <2> HIDE DEF F
    <2> QED
        BY <2>1, <2>3, <2>4, PlannedDrops
<1>3. ASSUME NEW g \in P PROVE Framed(H, B, P, E, X, r, g)
    <2>0. g \in Features
        OBVIOUS
    <2>1. Framed(H, B, P, D, X, q, g)
        BY DEF InOrder
    <2> SUFFICES ASSUME Self(B, g) \cap X = {}, NEW k \in 0..Len(q), Frame(H, B, P, D, q, g, k)
                 PROVE  Framed(H, B, P, E, X, r, g)
        BY <2>1 DEF Framed
    <2>2. CASE k = 0
        <3>1. Frame(H, B, P, E, r, g, 0)
            BY <2>2 DEF Frame, AllPlanned, Planned
        <3>2. 0 \in 0..Len(r)
            BY DEF Drops
        <3> QED
            BY <3>1, <3>2 DEF Framed
    <2>3. CASE k # 0
        <3>1. k \in 1..Len(q) /\ 1 \in 1..k /\ k - 1 \in 0..Len(r)
            BY <1>0, <2>3 DEF Drops
        <3>2. Within(H, B, g, q[1])
            BY <3>1 DEF Frame
        <3>3. ASSUME q[1].update PROVE Self(B, q[1].of) \cap X = {}
            <4>1. q[1].of \in B[g]
                BY <3>2, <3>3 DEF Within
            <4> QED
                BY <2>0, <4>1, TreeFacts
        <3>4. AllPlanned(H, B, P, E, r, k - 1, Self(B, g))
            BY <3>1, <3>3, PlannedDrops DEF Frame
        <3>5. ASSUME NEW i \in 1..(k - 1) PROVE Within(H, B, g, r[i])
            <4>1. i + 1 \in 1..k /\ i \in 1..Len(r)
                BY <3>1
            <4> QED
                BY <4>1 DEF Frame, Drops
        <3> QED
            BY <3>1, <3>4, <3>5 DEF Framed, Frame
    <2> QED
        BY <2>2, <2>3
<1>4. ASSUME NEW i \in 1..Len(r), NEW j \in 1..Len(r), i < j PROVE Nested(H, B, r[i], r[j])
    <2>0. \A a \in 1..Len(r) : a + 1 \in 1..Len(q)
        BY <1>0 DEF Drops
    <2>1. i + 1 \in 1..Len(q) /\ j + 1 \in 1..Len(q) /\ i + 1 < j + 1
        BY <1>4, <2>0
    <2>2. Nested(H, B, q[i + 1], q[j + 1])
        BY <2>1 DEF InOrder
    <2> QED
        BY <2>2 DEF Drops
<1> QED
    BY <1>2, <1>3, <1>4 DEF InOrder

\* An update of a feature that is processed and is the first call has nothing to do, or
\* something has failed that it is to update.
LEMMA ProcessedIsDone ==
    ASSUME NEW H, NEW B, Tree(H, B), NEW P, P \subseteq Features, NEW D, NEW X,
           NEW q, InOrder(H, B, P, D, X, q), q[1].update, q[1].of \in Features,
           NEW g \in P, g \in Self(B, q[1].of)
    PROVE  \/ Self(B, g) \cap X # {}
           \/ \A e \in Classes : H[e] \in Self(B, g) => e \in D
<1> SUFFICES ASSUME Self(B, g) \cap X = {}
             PROVE  \A e \in Classes : H[e] \in Self(B, g) => e \in D
    OBVIOUS
<1>1. PICK k \in 0..Len(q) : Frame(H, B, P, D, q, g, k)
    BY DEF InOrder, Framed
<1>2. k = 0
    <2> SUFFICES ASSUME 1 \in 1..k PROVE FALSE
        OBVIOUS
    <2>1. Within(H, B, g, q[1])
        BY <1>1 DEF Frame
    <2>2. q[1].of \in B[g]
        BY <2>1 DEF Within
    <2>3. q[1].of \in B[q[1].of] \/ g \in B[g]
        BY <2>2, TreeFacts DEF Self
    <2> QED
        BY <2>3 DEF Tree
<1> QED
    BY <1>1, <1>2 DEF Frame, AllPlanned, Planned

\* The order holds when such an update is gone.
LEMMA InOrderSkipped ==
    ASSUME NEW H, NEW B, Tree(H, B), NEW P, P \subseteq Features, NEW D, NEW X,
           NEW q \in Seq(Entries), NEW r, Drops(q, r), InOrder(H, B, P, D, X, q),
           q[1].update, q[1].of \in P
    PROVE  InOrder(H, B, P, D, X, r)
<1>1. q[1].of \in Features /\ q[1].of \in Self(B, q[1].of)
    BY DEF Self
<1>2. \/ Self(B, q[1].of) \cap X # {}
      \/ \A e \in Classes : H[e] \in Self(B, q[1].of) => e \in D
    BY <1>1, ProcessedIsDone
<1>3. \/ \A e \in Classes : Plans(H, B, P, q[1], e) => e \in D
      \/ q[1].update /\ Self(B, q[1].of) \cap X # {}
    BY <1>2 DEF Plans
<1> QED
    BY <1>3, InOrderDrops

\* The calls of r are those of q, with in place of the first one the updates of what f
\* needs, which are n, and with them the migrations of f.
Updates(H, B, f, q, r, n, m) ==
    /\ n \in Nat /\ m \in Nat /\ n <= m
    /\ Len(q) \in Nat \ {0} /\ Len(r) = Len(q) + m - 1
    /\ \A i \in 1..n : r[i].update /\ r[i].of \in B[f]
    /\ \A d \in B[f] : \E i \in 1..n : d \in Self(B, r[i].of)
    /\ \A i \in (n + 1)..m : ~r[i].update /\ H[r[i].of] = f
    /\ \A e \in Classes : H[e] = f => \E i \in (n + 1)..m : r[i].of = e
    /\ \A i \in 2..Len(q) : r[i + m - 1] = q[i]

\* What a call plans that is not the first, it plans still, but for what f has.
LEMMA PlansUpdates ==
    ASSUME NEW H, NEW B, NEW P, NEW f, NEW q, NEW r, NEW n, NEW m, Updates(H, B, f, q, r, n, m),
           NEW k \in 1..Len(q), NEW i \in 2..k, NEW e \in Classes, H[e] # f,
           Plans(H, B, P, q[i], e)
    PROVE  \E j \in 1..(k + m - 1) : Plans(H, B, P \cup {f}, r[j], e)
<1>1. i \in 2..Len(q) /\ i + m - 1 \in 1..(k + m - 1)
    BY DEF Updates
<1>2. r[i + m - 1] = q[i]
    BY <1>1 DEF Updates
<1>3. Plans(H, B, P \cup {f}, q[i], e)
    BY DEF Plans
<1> QED
    BY <1>1, <1>2, <1>3

\* All of f is planned by its own migrations, and all below f that is not processed by
\* the updates of what f needs.
LEMMA PlansBelow ==
    ASSUME NEW H, NEW B, Tree(H, B), NEW P, NEW f \in Features, NEW q, NEW r, NEW n, NEW m,
           Updates(H, B, f, q, r, n, m), NEW k \in Nat, NEW e \in Classes
    PROVE  /\ m <= k /\ H[e] = f => \E j \in 1..k : Plans(H, B, P \cup {f}, r[j], e)
           /\ n <= k /\ H[e] \in B[f] /\ H[e] \notin P
                => \E j \in 1..k : Plans(H, B, P \cup {f}, r[j], e)
<1>1. ASSUME m <= k, H[e] = f PROVE \E j \in 1..k : Plans(H, B, P \cup {f}, r[j], e)
    <2>1. PICK j \in (n + 1)..m : r[j].of = e
        BY <1>1 DEF Updates
    <2>2. ~r[j].update
        BY DEF Updates
    <2>3. j \in 1..k
        BY <1>1 DEF Updates
    <2> QED
        BY <2>1, <2>2, <2>3 DEF Plans
<1>2. ASSUME n <= k, H[e] \in B[f], H[e] \notin P
      PROVE  \E j \in 1..k : Plans(H, B, P \cup {f}, r[j], e)
    <2>1. PICK j \in 1..n : H[e] \in Self(B, r[j].of)
        BY <1>2 DEF Updates
    <2>2. r[j].update
        BY DEF Updates
    <2>3. H[e] # f
        BY <1>2 DEF Tree
    <2>4. j \in 1..k
        BY <1>2 DEF Updates
    <2> QED
        BY <1>2, <2>1, <2>2, <2>3, <2>4 DEF Plans
<1> QED
    BY <1>1, <1>2

\* What is planned stays so when an update is unfolded.
LEMMA PlannedUpdates ==
    ASSUME NEW H, NEW B, Tree(H, B), NEW P, NEW D, NEW f \in Features, f \notin P, NEW q, NEW r,
           NEW n, NEW m, Updates(H, B, f, q, r, n, m), q[1].update, q[1].of = f,
           NEW k \in 1..Len(q), NEW F, AllPlanned(H, B, P, D, q, k, F)
    PROVE  AllPlanned(H, B, P \cup {f}, D, r, k + m - 1, F)
<1> SUFFICES ASSUME NEW e \in Classes, H[e] \in F, e \notin D
             PROVE  \E j \in 1..(k + m - 1) : Plans(H, B, P \cup {f}, r[j], e)
    BY DEF AllPlanned, Planned
<1>0. k + m - 1 \in Nat /\ m <= k + m - 1 /\ n <= k + m - 1
    BY DEF Updates
<1>1. PICK i \in 1..k : Plans(H, B, P, q[i], e)
    BY DEF AllPlanned, Planned
<1>2. CASE H[e] = f
    BY <1>0, <1>2, PlansBelow
<1>3. CASE H[e] # f /\ i = 1
    <2>1. H[e] \in B[f] /\ H[e] \notin P
        BY <1>1, <1>3 DEF Plans, Self
    <2> QED
        BY <1>0, <2>1, PlansBelow
<1>4. CASE H[e] # f /\ i # 1
    <2>1. i \in 2..k
        BY <1>4
    <2> QED
        BY <1>1, <1>4, <2>1, PlansUpdates
<1> QED
    BY <1>2, <1>3, <1>4

\* When the updates of what f needs come first, all below f is planned.
LEMMA BelowPlanned ==
    ASSUME NEW H, NEW B, Tree(H, B), NEW P, P \subseteq Features, NEW D, NEW X,
           NEW f \in Features, NEW q, NEW r, NEW n, NEW m, Updates(H, B, f, q, r, n, m),
           InOrder(H, B, P, D, X, q), q[1].update, q[1].of = f,
           B[f] \cap X = {}, NEW k \in Nat, n <= k
    PROVE  AllPlanned(H, B, P \cup {f}, D, r, k, B[f])
<1> SUFFICES ASSUME NEW e \in Classes, H[e] \in B[f], e \notin D
             PROVE  \E j \in 1..k : Plans(H, B, P \cup {f}, r[j], e)
    BY DEF AllPlanned, Planned
<1>1. CASE H[e] \notin P
    BY <1>1, PlansBelow
<1>2. CASE H[e] \in P
    <2>1. H[e] \in Self(B, q[1].of) /\ H[e] \in Self(B, H[e])
        BY DEF Self
    <2>2. Self(B, H[e]) \cap X = {}
        BY TreeFacts
    <2> QED
        BY <1>2, <2>1, <2>2, ProcessedIsDone
<1> QED
    BY <1>1, <1>2

\* The order holds when an update is unfolded.
LEMMA InOrderUpdates ==
    ASSUME NEW H, NEW B, Tree(H, B), NEW P, P \subseteq Features, NEW D, NEW X,
           NEW f \in Features, f \notin P, NEW q \in Seq(Entries), NEW r, NEW n, NEW m,
           Updates(H, B, f, q, r, n, m), InOrder(H, B, P, D, X, q),
           q[1].update, q[1].of = f
    PROVE  InOrder(H, B, P \cup {f}, D, X, r)
<1> DEFINE Q == P \cup {f}
<1>0. /\ Len(q) \in Nat \ {0} /\ n \in Nat /\ m \in Nat /\ n <= m /\ Len(r) = Len(q) + m - 1
      /\ 1 \in 1..Len(q) /\ \A i \in 1..Len(q) : q[i] \in Entries
    BY DEF Updates
<1>1. ASSUME NEW i \in 1..Len(r)
      PROVE  \/ i \in 1..n /\ r[i].update /\ r[i].of \in B[f]
             \/ i \in (n + 1)..m /\ ~r[i].update /\ H[r[i].of] = f
             \/ \E j \in 2..Len(q) : i = j + m - 1 /\ r[i] = q[j]
    <2>1. CASE i <= n
        BY <1>0, <2>1 DEF Updates
    <2>2. CASE n < i /\ i <= m
        BY <1>0, <2>2 DEF Updates
    <2>3. CASE m < i
        <3> DEFINE j == i - m + 1
        <3>1. j \in 2..Len(q) /\ i = j + m - 1
            BY <1>0, <2>3
        <3> HIDE DEF j
        <3>2. r[j + m - 1] = q[j]
            BY <3>1 DEF Updates
        <3> QED
            BY <3>1, <3>2
    <2> QED
        BY <1>0, <2>1, <2>2, <2>3
<1>2. ASSUME NEW i \in 1..Len(r) PROVE Ahead(H, B, Q, D, X, r, i)
    <2> SUFFICES ASSUME ~r[i].update, B[H[r[i].of]] \cap X = {}
                 PROVE  AllPlanned(H, B, Q, D, r, i - 1, B[H[r[i].of]])
        BY DEF Ahead
    <2>1. CASE i \in (n + 1)..m /\ H[r[i].of] = f
        <3>1. i - 1 \in Nat /\ n <= i - 1
            BY <1>0, <2>1
        <3> QED
            BY <2>1, <3>1, BelowPlanned
    <2>2. ASSUME NEW j \in 2..Len(q), i = j + m - 1, r[i] = q[j]
          PROVE  AllPlanned(H, B, Q, D, r, i - 1, B[H[r[i].of]])
        <3>1. j \in 1..Len(q) /\ j - 1 \in 1..Len(q) /\ (j - 1) + m - 1 = i - 1
            BY SMTT(30), <1>0, <2>2
        <3>2. Ahead(H, B, P, D, X, q, j)
            BY <3>1 DEF InOrder
        <3>3. AllPlanned(H, B, P, D, q, j - 1, B[H[r[i].of]])
            BY <2>2, <3>2 DEF Ahead
        <3>4. AllPlanned(H, B, Q, D, r, (j - 1) + m - 1, B[H[r[i].of]])
            BY <3>1, <3>3, PlannedUpdates
        <3> QED
            BY <3>1, <3>4
    <2> QED
        BY <1>1, <2>1, <2>2
<1>3. ASSUME NEW g \in P PROVE Framed(H, B, Q, D, X, r, g)
    <2>0. g \in Features
        OBVIOUS
    <2>1. Framed(H, B, P, D, X, q, g)
        BY DEF InOrder
    <2> SUFFICES ASSUME Self(B, g) \cap X = {}, NEW k \in 0..Len(q), Frame(H, B, P, D, q, g, k)
                 PROVE  Framed(H, B, Q, D, X, r, g)
        BY <2>1 DEF Framed
    <2>2. CASE k = 0
        <3>1. Frame(H, B, Q, D, r, g, 0)
            BY <2>2 DEF Frame, AllPlanned, Planned
        <3>2. 0 \in 0..Len(r)
            BY <1>0
        <3> QED
            BY <3>1, <3>2 DEF Framed
    <2>3. CASE k # 0
        <3>1. /\ k \in 1..Len(q) /\ 1 \in 1..k /\ k + m - 1 \in 0..Len(r)
              /\ 1..(k + m - 1) \subseteq 1..Len(r)
            BY <1>0, <2>3
        <3>2. f \in B[g]
            BY <3>1 DEF Frame, Within
        <3>3. B[f] \subseteq B[g] /\ f \in Self(B, g)
            BY <2>0, <3>2 DEF Tree, Self
        <3>4. AllPlanned(H, B, Q, D, r, k + m - 1, Self(B, g))
            BY <3>1, PlannedUpdates DEF Frame
        <3>5. ASSUME NEW i \in 1..(k + m - 1) PROVE Within(H, B, g, r[i])
            <4>1. CASE r[i].update /\ r[i].of \in B[f]
                BY <3>3, <4>1 DEF Within
            <4>2. CASE ~r[i].update /\ H[r[i].of] = f
                BY <3>3, <4>2 DEF Within
            <4>3. ASSUME NEW j \in 2..Len(q), i = j + m - 1, r[i] = q[j]
                  PROVE  Within(H, B, g, r[i])
                <5>1. j \in 1..k
                    BY <1>0, <4>3
                <5> QED
                    BY <4>3, <5>1 DEF Frame
            <4> QED
                BY <1>1, <3>1, <4>1, <4>2, <4>3
        <3> QED
            BY <3>1, <3>4, <3>5 DEF Framed, Frame
    <2> QED
        BY <2>2, <2>3
<1>4. Framed(H, B, Q, D, X, r, f)
    <2> SUFFICES ASSUME Self(B, f) \cap X = {} PROVE Frame(H, B, Q, D, r, f, m)
        BY <1>0 DEF Framed
    <2>1. AllPlanned(H, B, Q, D, r, m, B[f])
        BY <1>0, BelowPlanned DEF Self
    <2>2. AllPlanned(H, B, Q, D, r, m, Self(B, f))
        <3> SUFFICES ASSUME NEW e \in Classes, H[e] = f
                     PROVE  \E j \in 1..m : Plans(H, B, Q, r[j], e)
            BY <2>1 DEF AllPlanned, Planned, Self
        <3>1. m \in Nat /\ m <= m
            BY <1>0
        <3> QED
            BY <3>1, PlansBelow
    <2>3. ASSUME NEW i \in 1..m PROVE Within(H, B, f, r[i])
        <3>1. i \in 1..n \/ i \in (n + 1)..m
            BY <1>0
        <3> QED
            BY <3>1 DEF Within, Updates, Self
    <2> QED
        BY <2>2, <2>3 DEF Frame
<1>5. ASSUME NEW i \in 1..Len(r), NEW j \in 1..Len(r), i < j PROVE Nested(H, B, r[i], r[j])
    <2> SUFFICES ASSUME r[i].update, ~r[j].update PROVE r[i].of \in B[H[r[j].of]]
        BY DEF Nested
    <2>1. ASSUME NEW b \in 2..Len(q), NEW a \in 1..Len(q), a < b, ~q[b].update, q[a].update
          PROVE  q[a].of \in B[H[q[b].of]]
        <3>1. b \in 1..Len(q)
            BY <1>0
        <3> QED
            BY <2>1, <3>1 DEF InOrder, Nested
    <2>2. ASSUME NEW b \in 2..Len(q), ~q[b].update PROVE B[f] \subseteq B[H[q[b].of]]
        <3>1. b \in 1..Len(q) /\ 1 < b
            BY <1>0
        <3>2. f \in B[H[q[b].of]]
            BY <1>0, <2>1, <2>2, <3>1
        <3>3. q[b] \in Entries
            BY <1>0, <3>1
        <3>4. H[q[b].of] \in Features
            BY <2>2, <3>3 DEF Tree, Entries
        <3> QED
            BY <3>2, <3>4 DEF Tree
    <2>3. CASE i \in 1..n /\ r[i].of \in B[f]
        BY <1>1, <2>2, <2>3
    <2>4. ASSUME NEW a \in 2..Len(q), i = a + m - 1, r[i] = q[a]
          PROVE  r[i].of \in B[H[r[j].of]]
        <3>1. PICK b \in 2..Len(q) : j = b + m - 1 /\ r[j] = q[b]
            BY <1>0, <1>1, <1>5, <2>4
        <3>2. a < b /\ a \in 1..Len(q)
            BY <1>0, <1>5, <2>4, <3>1
        <3> QED
            BY <2>1, <2>4, <3>1, <3>2
    <2> QED
        BY <1>1, <2>3, <2>4
<1> QED
    BY <1>2, <1>3, <1>4, <1>5 DEF InOrder

------------------------------------------------------------------------------
\* The feature of each class, and what is below each feature.
Home == [c \in Classes |-> FeatureOf(c)]
Beneath == [f \in Features |-> Below(f)]

\* The features are as in a tree.
LEMMA UseIsTree ==
    ASSUME MigrationsAssumption, AcyclicAssumption, use \in Uses
    PROVE  Tree(Home, Beneath)
<1>1. Home \in [Classes -> Features]
    BY FeatureOfClass DEF Home
<1>2. ASSUME NEW f \in Features
      PROVE  /\ Beneath[f] = Below(f) /\ Below(f) \subseteq Features /\ f \notin Below(f)
             /\ \A x \in Below(f) : Below(x) \subseteq Below(f)
    BY <1>2, BelowFacts, NotBelowItself DEF Beneath
<1>3. Beneath \in [Features -> SUBSET Features]
    BY <1>2 DEF Beneath
<1>4. ASSUME NEW f \in Features, NEW x \in Beneath[f] PROVE Beneath[x] \subseteq Beneath[f]
    <2>1. x \in Below(f) /\ x \in Features
        BY <1>2
    <2> QED
        BY <1>2, <2>1
<1> QED
    BY <1>1, <1>2, <1>3, <1>4 DEF Tree

\* The calls that an update makes are those of what the feature needs, and its own.
LEMMA CallsOfUpdate ==
    ASSUME MigrationsAssumption, use \in Uses, NEW f \in Features
    PROVE  /\ Dependencies(f) \in Seq(Entries) /\ Migrate(f) \in Seq(Entries)
           /\ \A i \in 1..Len(Dependencies(f)) :
                Dependencies(f)[i].update /\ Dependencies(f)[i].of \in Needs(f)
           /\ \A d \in Needs(f) : \E i \in 1..Len(Dependencies(f)) : Dependencies(f)[i].of = d
           /\ \A i \in 1..Len(Migrate(f)) :
                ~Migrate(f)[i].update /\ FeatureOf(Migrate(f)[i].of) = f
           /\ \A e \in Classes : FeatureOf(e) = f => \E i \in 1..Len(Migrate(f)) : Migrate(f)[i].of = e
<1> DEFINE ds == use.dependencies[f]
           cs == use.classes[f]
<1>1. ds \in Seq(Features) /\ cs \in Seq(Classes)
    BY UseFacts
<1> HIDE DEF ds, cs
<1>2. /\ Dependencies(f) = [i \in 1..Len(ds) |-> [update |-> TRUE, of |-> ds[i]]]
      /\ Migrate(f) = [i \in 1..Len(cs) |-> [update |-> FALSE, of |-> cs[i]]]
      /\ Len(ds) \in Nat /\ Len(cs) \in Nat
    BY <1>1 DEF Dependencies, Migrate, ds, cs
<1>3. /\ \A i \in 1..Len(ds) : ds[i] \in Features /\ [update |-> TRUE, of |-> ds[i]] \in Entries
      /\ \A i \in 1..Len(cs) : cs[i] \in Classes /\ [update |-> FALSE, of |-> cs[i]] \in Entries
    BY <1>1 DEF Entries
<1>4. Dependencies(f) \in Seq(Entries) /\ Len(Dependencies(f)) = Len(ds)
    BY <1>2, <1>3
<1>5. Migrate(f) \in Seq(Entries) /\ Len(Migrate(f)) = Len(cs)
    BY <1>2, <1>3
<1>6. \A x : x \in Needs(f) <=> \E i \in 1..Len(ds) : ds[i] = x
    <2>1. DOMAIN ds = 1..Len(ds)
        BY <1>1
    <2>2. Needs(f) = Range(ds)
        BY DEF Needs, ds
    <2> QED
        BY <2>1, <2>2 DEF Range
<1>7. ASSUME NEW i \in 1..Len(cs) PROVE FeatureOf(cs[i]) = f
    <2>1. cs[i] \in Range(use.classes[f])
        BY <1>1 DEF Range, cs
    <2> QED
        BY <1>3, <2>1, FeatureOfClass
<1>8. ASSUME NEW e \in Classes, FeatureOf(e) = f PROVE \E i \in 1..Len(cs) : cs[i] = e
    <2>1. e \in Range(use.classes[f])
        BY <1>8, FeatureOfClass
    <2> QED
        BY <1>1, <2>1 DEF Range, cs
<1>9. ASSUME NEW i \in 1..Len(ds)
      PROVE  Dependencies(f)[i].update /\ Dependencies(f)[i].of = ds[i]
    BY <1>2
<1>10. ASSUME NEW i \in 1..Len(cs)
       PROVE  ~Migrate(f)[i].update /\ Migrate(f)[i].of = cs[i]
    BY <1>2
<1>11. \A i \in 1..Len(Dependencies(f)) :
            Dependencies(f)[i].update /\ Dependencies(f)[i].of \in Needs(f)
    BY <1>4, <1>6, <1>9
<1>12. \A d \in Needs(f) : \E i \in 1..Len(Dependencies(f)) : Dependencies(f)[i].of = d
    BY <1>4, <1>6, <1>9
<1>13. \A i \in 1..Len(Migrate(f)) : ~Migrate(f)[i].update /\ FeatureOf(Migrate(f)[i].of) = f
    BY <1>5, <1>7, <1>10
<1>14. \A e \in Classes : FeatureOf(e) = f => \E i \in 1..Len(Migrate(f)) : Migrate(f)[i].of = e
    BY <1>5, <1>8, <1>10
<1> QED
    BY <1>4, <1>5, <1>11, <1>12, <1>13, <1>14

\* They come before the other ones.
LEMMA UnfoldUpdate ==
    ASSUME MigrationsAssumption, AcyclicAssumption, use \in Uses, NEW f \in Features,
           NEW q \in Seq(Entries), q # <<>>
    PROVE  \E n, m : Updates(Home, Beneath, f, q, Dependencies(f) \o Migrate(f) \o Tail(q), n, m)
<1> DEFINE d == Dependencies(f)
           g == Migrate(f)
           n == Len(d)
           m == Len(d) + Len(g)
           r == d \o g \o Tail(q)
<1>1. /\ d \in Seq(Entries) /\ g \in Seq(Entries)
      /\ \A i \in 1..Len(d) : d[i].update /\ d[i].of \in Needs(f)
      /\ \A x \in Needs(f) : \E i \in 1..Len(d) : d[i].of = x
      /\ \A i \in 1..Len(g) : ~g[i].update /\ FeatureOf(g[i].of) = f
      /\ \A e \in Classes : FeatureOf(e) = f => \E i \in 1..Len(g) : g[i].of = e
    BY CallsOfUpdate
<1> HIDE DEF d, g
<1>2. /\ Tail(q) \in Seq(Entries) /\ Len(q) \in Nat \ {0} /\ Len(Tail(q)) = Len(q) - 1
      /\ \A i \in 1..Len(Tail(q)) : Tail(q)[i] = q[i + 1]
    OBVIOUS
<1>3. d \o g \in Seq(Entries) /\ Len(d \o g) = m /\ n \in Nat /\ Len(g) \in Nat /\ m \in Nat
    BY <1>1
<1>4. \A i \in 1..m : (d \o g)[i] = IF i <= n THEN d[i] ELSE g[i - n]
    BY <1>1
<1>5. Len(r) = Len(q) + m - 1
    BY <1>2, <1>3
<1>6. \A i \in 1..Len(r) : r[i] = IF i <= m THEN (d \o g)[i] ELSE Tail(q)[i - m]
    BY <1>2, <1>3
<1>7. \A i \in 1..n : r[i] = d[i]
    BY <1>2, <1>3, <1>4, <1>5, <1>6
<1>8. ASSUME NEW i \in 1..Len(g) PROVE r[n + i] = g[i] /\ n + i \in (n + 1)..m
    <2>1. n + i \in 1..m /\ n + i \in 1..Len(r) /\ n + i <= m /\ ~(n + i <= n) /\ (n + i) - n = i
        BY <1>2, <1>3, <1>5
    <2>2. (d \o g)[n + i] = g[i]
        BY <1>4, <2>1
    <2> QED
        BY <1>3, <1>6, <2>1, <2>2
<1>9. ASSUME NEW i \in 2..Len(q) PROVE r[i + m - 1] = q[i]
    <2>1. /\ i + m - 1 \in 1..Len(r) /\ ~(i + m - 1 <= m) /\ (i + m - 1) - m = i - 1
          /\ i - 1 \in 1..Len(Tail(q)) /\ (i - 1) + 1 = i
        BY <1>2, <1>3, <1>5
    <2>2. r[i + m - 1] = Tail(q)[i - 1]
        BY <1>6, <2>1
    <2> QED
        BY <1>2, <2>1, <2>2
<1> HIDE DEF r
<1>10. /\ Beneath[f] = Below(f) /\ Needs(f) \subseteq Below(f) /\ Below(f) \subseteq Features
       /\ \A x \in Below(f) : \E y \in Needs(f) : x = y \/ x \in Below(y)
    BY BelowFacts DEF Beneath
<1>11. ASSUME NEW i \in 1..n PROVE r[i].update /\ r[i].of \in Beneath[f]
    BY <1>1, <1>7, <1>10
<1>12. ASSUME NEW x \in Beneath[f] PROVE \E i \in 1..n : x \in Self(Beneath, r[i].of)
    <2>1. PICK y \in Needs(f) : x = y \/ x \in Below(y)
        BY <1>10
    <2>2. PICK i \in 1..n : d[i].of = y
        BY <1>1
    <2>3. y \in Features
        BY <1>10
    <2>4. x \in Self(Beneath, y)
        BY <2>1, <2>3 DEF Self, Beneath
    <2> QED
        BY <1>7, <2>2, <2>4
<1>13. ASSUME NEW i \in (n + 1)..m PROVE ~r[i].update /\ Home[r[i].of] = f
    <2>1. i - n \in 1..Len(g) /\ n + (i - n) = i
        BY <1>3
    <2>2. r[i] = g[i - n]
        BY <1>8, <2>1
    <2>3. ~g[i - n].update /\ FeatureOf(g[i - n].of) = f
        BY <1>1, <2>1
    <2>4. g[i - n] \in Entries
        BY <1>1, <2>1
    <2>5. g[i - n].of \in Classes
        BY <2>3, <2>4 DEF Entries
    <2> QED
        BY <2>2, <2>3, <2>5 DEF Home
<1>14. ASSUME NEW e \in Classes, Home[e] = f PROVE \E i \in (n + 1)..m : r[i].of = e
    <2>1. PICK i \in 1..Len(g) : g[i].of = e
        BY <1>1, <1>14 DEF Home
    <2> QED
        BY <1>8, <2>1
<1>15. n <= m
    BY <1>3
<1> HIDE DEF n, m
<1>16. Updates(Home, Beneath, f, q, r, n, m)
    BY <1>2, <1>3, <1>5, <1>9, <1>11, <1>12, <1>13, <1>14, <1>15 DEF Updates
<1> QED
    BY <1>16 DEF r, d, g

------------------------------------------------------------------------------
(***************************************************************************)
(* The types, and what a scope is at.  What its transaction has read is    *)
(* the latest version only when that is committed, and stays so; when it   *)
(* is over, its record is that of the latest version, or needs not be      *)
(* written.                                                                *)
(***************************************************************************)
Places == {"ready", "listing", "calling", "reading", "migrating", "closing", "ended", "dead"}

Control ==
    /\ steps \in [Classes -> Seq(Nat)] /\ holder \in Scopes \cup {NoScope}
    /\ at \in [Scopes -> Places] /\ plan \in [Scopes -> Seq(Features)]
    /\ calls \in [Scopes -> Seq(Entries)]
    /\ processed \in [Scopes -> SUBSET Features] /\ failed \in [Scopes -> SUBSET Features]

\* The latest version of c, or one after it, is committed.
Latest(c) == version[c] >= use.latest[c]

Transacted(s) ==
    LET c == open[s].class IN
    /\ open[s].read # open[s].current => open[s].current <= use.latest[c]
    /\ open[s].recorded => open[s].current = use.latest[c]
    /\ open[s].read >= use.latest[c] => Latest(c)
    /\ at[s] \notin {"migrating", "closing"} /\ ~open[s].recorded => Latest(c)

Placed(s) ==
    /\ open[s] # NoTransaction => Open(s)
    /\ Open(s) => Transacted(s)
    /\ at[s] \in {"reading", "migrating"} => calls[s] # <<>> /\ ~Head(calls[s]).update
    /\ at[s] = "migrating" =>
        Open(s) /\ ~open[s].recorded /\ open[s].class = Head(calls[s]).of
    /\ at[s] \in {"ready", "listing", "reading", "ended", "dead"} => open[s] = NoTransaction
    /\ at[s] \in {"ready", "listing"} => calls[s] = <<>> /\ processed[s] = {}

TypedInv == Inv /\ Control /\ \A s \in Scopes : Placed(s)

\* The versions that are committed get no less than the latest.
Advance == \A c \in Classes : Latest(c) => Latest(c)'

Untouched(o) ==
    /\ at'[o] = at[o] /\ plan'[o] = plan[o] /\ calls'[o] = calls[o]
    /\ processed'[o] = processed[o] /\ open'[o] = open[o] /\ failed'[o] = failed[o]

\* A step of scope s does nothing to the others.
Moves(s) == use' = use /\ Advance /\ \A o \in Scopes \ {s} : Untouched(o)

\* No transaction is one of a class.
LEMMA NotOpen ==
    ASSUME MigrationsAssumption, NEW s \in Scopes, open[s] = NoTransaction
    PROVE  ~Open(s)
    BY DEF MigrationsAssumption, NoTransaction, Open

\* A commit leaves what is the latest version, and makes it so for what was recorded.
LEMMA CommitAdvances ==
    ASSUME MigrationsAssumption, TypedInv, use' = use, NEW s \in Scopes, Committed(s)
    PROVE  /\ Advance /\ steps' \in [Classes -> Seq(Nat)]
           /\ \A c \in Classes : open[s].class = c /\ open[s].recorded => Latest(c)'
<1>1. use \in Uses /\ version \in [Classes -> Nat] /\ steps \in [Classes -> Seq(Nat)]
    BY DEF TypedInv, Inv, Types, Control
<1>2. use.latest \in [Classes -> Nat]
    BY <1>1, UseFacts
<1>3. ASSUME NEW c \in Classes, open[s].class = c
      PROVE  /\ open[s].recorded => open[s].current = use.latest[c]
             /\ open[s].wrote \in Seq(Nat)
    <2>1. Open(s)
        BY <1>3 DEF Open
    <2>2. Transacted(s) /\ OpenTyped(s)
        BY <2>1 DEF TypedInv, Placed, Inv, Types
    <2>3. open[s].wrote \in Seq(Nat)
        BY ZenonT(40), <2>2, SpanIsSeq DEF OpenTyped
    <2> QED
        BY <1>3, <2>2, <2>3 DEF Transacted
<1>4. ASSUME NEW c \in Classes
      PROVE  /\ version'[c] = IF open[s].class = c /\ open[s].recorded
                              THEN open[s].current ELSE version[c]
             /\ steps'[c] = IF open[s].class = c THEN steps[c] \o open[s].wrote
                            ELSE steps[c]
    BY DEF Committed
<1>5. ASSUME NEW c \in Classes
      PROVE  /\ Latest(c) => Latest(c)'
             /\ open[s].class = c /\ open[s].recorded => Latest(c)'
             /\ steps'[c] \in Seq(Nat)
    <2>1. use.latest[c] \in Nat /\ version[c] \in Nat /\ steps[c] \in Seq(Nat)
        BY <1>1, <1>2
    <2>2. CASE open[s].class = c
        <3>1. steps'[c] \in Seq(Nat)
            <4>1. open[s].wrote \in Seq(Nat) /\ steps'[c] = steps[c] \o open[s].wrote
                BY <1>3, <1>4, <2>2
            <4> QED
                BY <2>1, <4>1
        <3> QED
            BY <1>3, <1>4, <2>1, <2>2, <3>1 DEF Latest
    <2>3. CASE open[s].class # c
        BY <1>4, <2>1, <2>3 DEF Latest
    <2> QED
        BY <2>2, <2>3
<1>6. steps' = [c \in Classes |-> steps'[c]]
    BY DEF Committed
<1> QED
    BY <1>5, <1>6 DEF Advance

\* A step of a scope is only its own.
LEMMA EachMoves ==
    ASSUME MigrationsAssumption, TypedInv, NEW s \in Scopes,
           \/ Activate(s) \/ Begin(s) \/ Run(s) \/ Abort(s) \/ CommitFails(s) \/ Crash(s)
    PROVE  Moves(s)
<1>0. /\ at \in [Scopes -> Places] /\ plan \in [Scopes -> Seq(Features)]
      /\ calls \in [Scopes -> Seq(Entries)] /\ DOMAIN open = Scopes
      /\ processed \in [Scopes -> SUBSET Features] /\ failed \in [Scopes -> SUBSET Features]
    BY DEF TypedInv, Control, Inv, Types
<1>1. ASSUME use' = use, version' = version PROVE Advance
    BY <1>1 DEF Advance, Latest
<1>2. CASE Activate(s) \/ Begin(s) \/ Finish(s) \/ Unlock(s)
    BY <1>0, <1>1, <1>2 DEF Activate, Begin, Finish, Unlock, Moves, Untouched, database, progress
<1>3. CASE ListFeatures(s)
    BY <1>0, <1>1, <1>3 DEF ListFeatures, Moves, Untouched, database, progress
<1>4. CASE Call(s)
    BY <1>0, <1>1, <1>4 DEF Call, Moves, Untouched, database, progress
<1>5. CASE UpdateFeature(s)
    BY <1>0, <1>1, <1>5 DEF UpdateFeature, Moves, Untouched, database, progress
<1>6. CASE RequireNew(s)
    <2>1. Advance
        BY <1>6, CommitAdvances DEF RequireNew
    <2> QED
        BY <1>0, <1>6, <2>1 DEF RequireNew, Moves, Untouched, progress
<1>7. CASE ReadVersion(s) \/ ApplyStep(s)
    BY <1>0, <1>1, <1>7 DEF ReadVersion, ApplyStep, Moves, Untouched, database, progress
<1>8. CASE Record(s)
    BY <1>0, <1>1, <1>8 DEF Record, Moves, Untouched, database, progress
<1>9. CASE FailStep(s)
    BY <1>0, <1>1, <1>9 DEF FailStep, Fails, Throws, Moves, Untouched, database, progress
<1>10. CASE Close(s)
    <2>1. Advance
        BY <1>10, CommitAdvances DEF Close
    <2> QED
        BY <1>0, <1>10, <2>1 DEF Close, Moves, Untouched, progress
<1>11. CASE Abort(s)
    BY <1>0, <1>1, <1>11 DEF Abort, Fails, Moves, Untouched, database
<1>12. CASE CommitFails(s)
    BY <1>0, <1>1, <1>12 DEF CommitFails, Fails, Throws, Moves, Untouched, database
<1>13. CASE Crash(s)
    BY <1>0, <1>1, <1>13 DEF Crash, Moves, Untouched, database, progress
<1> QED
    BY <1>2, <1>3, <1>4, <1>5, <1>6, <1>7, <1>8, <1>9, <1>10, <1>11, <1>12, <1>13 DEF Run

\* What another scope is at stays as it is.
LEMMA OthersPlaced ==
    ASSUME NEW s \in Scopes, Moves(s), NEW o \in Scopes \ {s}, Placed(o)
    PROVE  Placed(o)'
<1>1. use' = use /\ Untouched(o)
    BY DEF Moves
<1>2. Open(o)' <=> Open(o)
    BY <1>1 DEF Untouched, Open
<1>3. ASSUME NEW c \in Classes, open[o].class = c PROVE Transacted(o)'
    <2>1. Latest(c) => Latest(c)'
        BY DEF Moves, Advance
    <2>2. open'[o] = open[o] /\ at'[o] = at[o]
        BY <1>1 DEF Untouched
    <2>3. Transacted(o)
        BY <1>3 DEF Placed, Open
    <2> QED
        BY <1>1, <1>3, <2>1, <2>2, <2>3 DEF Transacted, Latest
<1>4. Open(o) => Transacted(o)'
    BY <1>3 DEF Open
<1> QED
    BY <1>1, <1>2, <1>4 DEF Untouched, Placed, NoTransaction

\* Features are added to those of a scope.
LEMMA AddedFeatures ==
    ASSUME NEW w \in [Scopes -> SUBSET Features], NEW s \in Scopes, NEW Y, Y \subseteq Features
    PROVE  [w EXCEPT ![s] = @ \cup Y] \in [Scopes -> SUBSET Features]
<1>1. w[s] \cup Y \in SUBSET Features
    OBVIOUS
<1> QED
    BY <1>1

\* Every variable keeps its type.
LEMMA ControlStep ==
    ASSUME MigrationsAssumption, TypedInv, [Next]_vars PROVE Control'
<1>0. /\ steps \in [Classes -> Seq(Nat)] /\ holder \in Scopes \cup {NoScope}
      /\ at \in [Scopes -> Places] /\ plan \in [Scopes -> Seq(Features)]
      /\ calls \in [Scopes -> Seq(Entries)] /\ use \in Uses
      /\ processed \in [Scopes -> SUBSET Features] /\ failed \in [Scopes -> SUBSET Features]
    BY DEF TypedInv, Control, Inv, Types
<1> USE DEF Places, database, progress
<1>1. ASSUME NEW s \in Scopes, Activate(s) \/ Begin(s) \/ Finish(s) \/ Unlock(s) \/ Crash(s)
      PROVE  Control'
    BY <1>0, <1>1 DEF Activate, Begin, Finish, Unlock, Crash, Control
<1>2. ASSUME NEW s \in Scopes, ListFeatures(s) PROVE Control'
    <2>1. NeedUpdate \in Seq(Features)
        BY <1>0, NeedUpdateFacts
    <2> QED
        BY <1>0, <1>2, <2>1 DEF ListFeatures, Control
<1>3. ASSUME NEW s \in Scopes, Call(s) PROVE Control'
    <2>1. plan[s] \in Seq(Features) /\ plan[s] # <<>>
        BY <1>0, <1>3 DEF Call
    <2>2. Head(plan[s]) \in Features /\ Tail(plan[s]) \in Seq(Features)
        BY <2>1
    <2>3. [update |-> TRUE, of |-> Head(plan[s])] \in Entries
        BY <2>2 DEF Entries
    <2>4. <<[update |-> TRUE, of |-> Head(plan[s])]>> \in Seq(Entries)
        BY <2>3
    <2>5. calls' \in [Scopes -> Seq(Entries)] /\ plan' \in [Scopes -> Seq(Features)]
        BY <1>0, <1>3, <2>2, <2>4 DEF Call
    <2> QED
        BY <1>0, <1>3, <2>5 DEF Call, Control
<1>4. ASSUME NEW s \in Scopes, UpdateFeature(s) PROVE Control'
    <2> DEFINE f == Head(calls[s]).of
               d == Dependencies(f) \o Migrate(f)
    <2>1. calls[s] \in Seq(Entries) /\ calls[s] # <<>> /\ Head(calls[s]).update
        BY <1>0, <1>4 DEF UpdateFeature, Calls
    <2>2. Head(calls[s]) \in Entries /\ Tail(calls[s]) \in Seq(Entries)
        BY <2>1
    <2>3. f \in Features
        BY <2>1, <2>2 DEF Entries
    <2>4. d \in Seq(Entries)
        <3>1. Dependencies(f) \in Seq(Entries) /\ Migrate(f) \in Seq(Entries)
            BY <1>0, <2>3, CallsOfUpdate
        <3> QED
            BY <3>1
    <2> HIDE DEF d
    <2>5. d \o Tail(calls[s]) \in Seq(Entries)
        BY <2>2, <2>4
    <2>6. \/ calls' = [calls EXCEPT ![s] = Tail(calls[s])] /\ processed' = processed
          \/ /\ calls' = [calls EXCEPT ![s] = d \o Tail(calls[s])]
             /\ processed' = [processed EXCEPT ![s] = processed[s] \cup {f}]
        BY <1>4 DEF UpdateFeature, d
    <2> HIDE DEF f
    <2>7. calls' \in [Scopes -> Seq(Entries)]
        BY <1>0, <2>2, <2>5, <2>6
    <2>8. processed' \in [Scopes -> SUBSET Features]
        <3>1. [processed EXCEPT ![s] = @ \cup {f}] \in [Scopes -> SUBSET Features]
            BY <1>0, <2>3, AddedFeatures
        <3> QED
            BY <1>0, <2>6, <3>1
    <2> QED
        BY <1>0, <1>4, <2>7, <2>8 DEF UpdateFeature, Control
<1>5. ASSUME NEW s \in Scopes, RequireNew(s) \/ Close(s) PROVE Control'
    <2>1. Committed(s) /\ use' = use
        BY <1>5 DEF RequireNew, Close
    <2>2. steps' \in [Classes -> Seq(Nat)]
        BY <2>1, CommitAdvances
    <2> QED
        BY <1>0, <1>5, <2>2 DEF RequireNew, Close, Control
<1>6. ASSUME NEW s \in Scopes, ReadVersion(s) \/ ApplyStep(s) PROVE Control'
    BY <1>0, <1>6 DEF ReadVersion, ApplyStep, Control
<1>7. ASSUME NEW s \in Scopes, Record(s) PROVE Control'
    <2>1. calls[s] \in Seq(Entries) /\ calls[s] # <<>>
        BY <1>0, <1>7 DEF Record, TypedInv, Placed
    <2>2. Tail(calls[s]) \in Seq(Entries)
        BY <2>1
    <2> QED
        BY <1>0, <1>7, <2>2 DEF Record, Control
<1>8. ASSUME NEW s \in Scopes, Throws(s) \/ calls' = [calls EXCEPT ![s] = <<>>]
      PROVE  calls' \in [Scopes -> Seq(Entries)]
    <2>1. <<>> \in Seq(Entries)
        OBVIOUS
    <2> QED
        BY <1>0, <1>8, <2>1 DEF Throws
<1>9. ASSUME NEW s \in Scopes, FailStep(s) \/ Abort(s) PROVE Control'
    <2>1. open[s].class \in Classes
        BY <1>9 DEF FailStep, Abort, StepIsNext, TypedInv, Placed, Open
    <2>2. FeatureOf(open[s].class) \in Features
        BY <1>0, <2>1, FeatureOfClass
    <2>3. calls' \in [Scopes -> Seq(Entries)]
        BY <1>8, <1>9 DEF FailStep, Abort
    <2>4. failed' \in [Scopes -> SUBSET Features]
        <3>1. failed' = [failed EXCEPT ![s] = @ \cup {FeatureOf(open[s].class)}]
            BY <1>9 DEF FailStep, Abort, Fails
        <3> QED
            BY <1>0, <2>2, <3>1, AddedFeatures
    <2> QED
        BY <1>0, <1>9, <2>3, <2>4 DEF FailStep, Abort, Throws, Control
<1>10. ASSUME NEW s \in Scopes, CommitFails(s) PROVE Control'
    <2>1. open[s].class \in Classes
        BY <1>10 DEF CommitFails, TypedInv, Placed, Open
    <2>2. FeatureOf(open[s].class) \in Features
        BY <1>0, <2>1, FeatureOfClass
    <2>3. ASSUME Calls(s), ~Head(calls[s]).update PROVE FeatureOf(Head(calls[s]).of) \in Features
        <3>1. calls[s] \in Seq(Entries) /\ calls[s] # <<>>
            BY <1>0, <2>3 DEF Calls
        <3>2. Head(calls[s]) \in Entries
            BY <3>1
        <3>3. Head(calls[s]).of \in Classes
            BY <2>3, <3>2 DEF Entries
        <3> QED
            BY <1>0, <3>3, FeatureOfClass
    <2>4. calls' \in [Scopes -> Seq(Entries)]
        BY <1>0, <1>8, <1>10 DEF CommitFails
    <2>5. failed' \in [Scopes -> SUBSET Features]
        <3> DEFINE c == FeatureOf(open[s].class)
                   e == FeatureOf(Head(calls[s]).of)
        <3>1. \/ failed' = [failed EXCEPT ![s] = @ \cup {c}]
              \/ e \in Features /\ failed' = [failed EXCEPT ![s] = @ \cup {c, e}]
            BY <1>10, <2>3 DEF CommitFails, Fails
        <3> HIDE DEF c, e
        <3>2. c \in Features
            BY <2>2 DEF c
        <3>3. CASE failed' = [failed EXCEPT ![s] = @ \cup {c}]
            BY <1>0, <3>2, <3>3, AddedFeatures
        <3>4. CASE e \in Features /\ failed' = [failed EXCEPT ![s] = @ \cup {c, e}]
            <4>1. {c, e} \subseteq Features
                BY <3>2, <3>4
            <4> QED
                BY <1>0, <3>4, <4>1, AddedFeatures
        <3> QED
            BY <3>1, <3>3, <3>4
    <2> QED
        BY <1>0, <1>10, <2>4, <2>5 DEF CommitFails, Throws, Control
<1>11. CASE Expire \/ UNCHANGED vars
    BY <1>0, <1>11 DEF Expire, vars, Control
<1> QED
    BY <1>1, <1>2, <1>3, <1>4, <1>5, <1>6, <1>7, <1>9, <1>10, <1>11 DEF Next, Run

\* What a scope is at follows from its own step.
LEMMA OwnPlaced ==
    ASSUME MigrationsAssumption, TypedInv, Inv', NEW s \in Scopes,
           \/ Activate(s) \/ Begin(s) \/ Run(s) \/ Abort(s) \/ CommitFails(s) \/ Crash(s)
    PROVE  Placed(s)'
<1>0. /\ at \in [Scopes -> Places] /\ calls \in [Scopes -> Seq(Entries)]
      /\ DOMAIN open = Scopes /\ Placed(s) /\ use' = use
      /\ processed \in [Scopes -> SUBSET Features]
    BY EachMoves DEF TypedInv, Control, Inv, Types, Moves
<1>1. open'[s] = NoTransaction => ~Open(s)'
    BY DEF MigrationsAssumption, NoTransaction, Open
<1>2. ASSUME UNCHANGED <<version, open>>, at'[s] \in {"migrating", "closing"} \/ at'[s] = at[s]
               \/ at[s] \notin {"migrating", "closing"}
      PROVE  /\ Open(s) <=> Open(s)'
             /\ Open(s) => Transacted(s)'
             /\ open'[s] = open[s]
    BY <1>0, <1>2 DEF Placed, Transacted, Open, Latest
<1>3. CASE Activate(s) \/ Begin(s) \/ ListFeatures(s) \/ Finish(s) \/ Unlock(s) \/ Call(s)
    <2>1. UNCHANGED <<version, open>> /\ processed' = processed
        BY <1>3 DEF Activate, Begin, ListFeatures, Finish, Unlock, Call, database, progress
    <2>2. /\ at'[s] \in {"listing", "ended", "calling", "closing"}
          /\ at'[s] \in {"listing", "ended"} => at[s] = "ready" /\ calls' = calls
          /\ \/ at'[s] \in {"migrating", "closing"} \/ at'[s] = at[s]
             \/ at[s] \notin {"migrating", "closing"}
        BY <1>0, <1>3 DEF Activate, Begin, ListFeatures, Finish, Unlock, Call, progress
    <2> QED
        BY <1>0, <1>1, <1>2, <2>1, <2>2 DEF Placed
<1>4. CASE UpdateFeature(s)
    <2>1. UNCHANGED <<version, open, at>> /\ at[s] = "calling"
        BY <1>4 DEF UpdateFeature, database, Calls
    <2> QED
        BY <1>0, <1>1, <1>2, <2>1 DEF Placed
<1>5. CASE RequireNew(s)
    <2>1. open'[s] = NoTransaction /\ at'[s] = "reading" /\ calls' = calls
          /\ calls[s] # <<>> /\ ~Head(calls[s]).update
        BY <1>0, <1>5 DEF RequireNew, Calls, progress
    <2> QED
        BY <1>1, <2>1 DEF Placed
<1>6. CASE Close(s) \/ Crash(s)
    <2>1. open'[s] = NoTransaction /\ at'[s] \in {"ended", "dead"}
        BY <1>0, <1>6 DEF Close, Crash
    <2> QED
        BY <1>1, <2>1 DEF Placed
<1>7. CASE FailStep(s) \/ CommitFails(s)
    <2>1. /\ open'[s] = NoTransaction /\ at'[s] \in {"calling", "closing", "ended"}
        BY <1>0, <1>7 DEF FailStep, CommitFails, Throws
    <2> QED
        BY <1>1, <2>1 DEF Placed
<1>8. CASE Abort(s)
    <2>1. UNCHANGED <<version, open>> /\ at'[s] = "closing"
        BY <1>0, <1>8 DEF Abort, database
    <2> QED
        BY <1>0, <1>1, <1>2, <2>1 DEF Placed
<1>9. CASE ReadVersion(s)
    <2> DEFINE c == Head(calls[s]).of
    <2>1. /\ at[s] = "reading" /\ at'[s] = "migrating" /\ calls' = calls /\ version' = version
          /\ open'[s] = Transaction(c, version[c])
        BY <1>0, <1>9 DEF ReadVersion, database, progress
    <2>2. calls[s] \in Seq(Entries) /\ calls[s] # <<>> /\ ~Head(calls[s]).update
        BY <1>0, <2>1 DEF Placed
    <2>3. Head(calls[s]) \in Entries
        BY <2>2
    <2>4. c \in Classes
        BY <2>2, <2>3 DEF Entries
    <2>5. /\ open'[s].class = c /\ open'[s].read = version[c] /\ open'[s].current = version[c]
          /\ open'[s].recorded = FALSE
        BY <2>1 DEF Transaction
    <2>6. Transacted(s)'
        BY <1>0, <2>1, <2>5 DEF Transacted, Latest
    <2> QED
        BY <2>1, <2>2, <2>4, <2>5, <2>6 DEF Placed, Open
<1>10. CASE ApplyStep(s)
    <2> DEFINE c == open[s].class
    <2>1. /\ at[s] = "migrating" /\ at'[s] = "migrating" /\ calls' = calls /\ version' = version
          /\ HasStep(c, open[s].current) /\ open'[s] = Stepped(open[s])
        BY <1>0, <1>10 DEF ApplyStep, StepIsNext, database, progress
    <2>2. /\ open'[s].class = c /\ open'[s].read = open[s].read
          /\ open'[s].current = open[s].current + 1 /\ open'[s].recorded = open[s].recorded
        BY <2>1 DEF Stepped
    <2>3. Open(s) /\ ~open[s].recorded /\ c = Head(calls[s]).of /\ calls[s] # <<>>
          /\ ~Head(calls[s]).update
        BY <1>0, <2>1 DEF Placed
    <2>4. c \in Classes /\ Transacted(s) /\ OpenTyped(s)
        BY <1>0, <2>3 DEF Placed, TypedInv, Inv, Types, Open
    <2>5. use.latest[c] \in Nat
        BY <2>4, UseFacts DEF TypedInv, Inv, Types
    <2>6. open'[s].current <= use.latest[c]
        BY <2>1, <2>2, <2>4, <2>5 DEF HasStep, OpenTyped
    <2>7. Transacted(s)'
        BY <1>0, <2>1, <2>2, <2>3, <2>4, <2>6 DEF Transacted, Latest
    <2> QED
        BY <2>1, <2>2, <2>3, <2>4, <2>7 DEF Placed, Open
<1>11. CASE Record(s)
    <2> DEFINE c == open[s].class
    <2>1. /\ at[s] = "migrating" /\ at'[s] = "calling" /\ version' = version
          /\ ~HasStep(c, open[s].current) /\ open'[s] = Written(open[s])
        BY <1>0, <1>11 DEF Record, database
    <2>2. /\ open'[s].class = c /\ open'[s].read = open[s].read
          /\ open'[s].current = open[s].current
          /\ open'[s].recorded = (open[s].current # open[s].read)
        BY <2>1 DEF Written, Recorded
    <2>3. c \in Classes /\ Transacted(s) /\ OpenTyped(s)
        BY <1>0, <2>1 DEF Placed, TypedInv, Inv, Types, Open
    <2>4. use.latest[c] \in Nat
        BY <2>3, UseFacts DEF TypedInv, Inv, Types
    <2>5. open[s].current >= use.latest[c]
        BY <2>1, <2>3, <2>4 DEF HasStep, OpenTyped
    <2>6. open[s].current # open[s].read => open[s].current = use.latest[c]
        BY <2>3, <2>4, <2>5 DEF Transacted, OpenTyped
    <2>7. open[s].current = open[s].read => Latest(c)
        BY <2>3, <2>5 DEF Transacted
    <2>8. Transacted(s)'
        BY <1>0, <2>1, <2>2, <2>3, <2>6, <2>7 DEF Transacted, Latest
    <2> QED
        BY <2>1, <2>2, <2>3, <2>8 DEF Placed, Open
<1> QED
    BY <1>3, <1>4, <1>5, <1>6, <1>7, <1>8, <1>9, <1>10, <1>11 DEF Run

\* At the beginning the types are right, and nothing is open.
LEMMA TypedInit ==
    ASSUME MigrationsAssumption, Init PROVE TypedInv
<1>1. Inv /\ use \in Uses
    BY InitInv DEF Inv, Types
<1>2. use.installed \in [Classes -> Nat] /\ \A s \in Scopes : use.scopes[s].plan \in Seq(Features)
    BY <1>1, UseFacts
<1>3. ASSUME NEW c \in Classes PROVE [i \in 1..use.installed[c] |-> i - 1] \in Seq(Nat)
    BY <1>2
<1>4. Control
    BY <1>2, <1>3 DEF Init, Control, Places
<1>5. ASSUME NEW s \in Scopes PROVE Placed(s)
    <2>1. open[s] = NoTransaction /\ ~Open(s)
        BY NotOpen DEF Init
    <2> QED
        BY <2>1 DEF Init, Placed
<1> QED
    BY <1>1, <1>4, <1>5 DEF TypedInv

\* Every step keeps them so.
LEMMA TypedStep ==
    ASSUME MigrationsAssumption, TypedInv, [Next]_vars PROVE TypedInv'
<1>1. Inv' /\ Control'
    BY StepInv, ControlStep DEF TypedInv
<1>2. ASSUME NEW s \in Scopes,
             \/ Activate(s) \/ Begin(s) \/ Run(s) \/ Abort(s) \/ CommitFails(s) \/ Crash(s),
             NEW o \in Scopes
      PROVE  Placed(o)'
    <2>1. CASE o = s
        BY <1>1, <1>2, <2>1, OwnPlaced
    <2>2. CASE o # s
        BY <1>2, <2>2, EachMoves, OthersPlaced DEF TypedInv
    <2> QED
        BY <2>1, <2>2
<1>3. ASSUME Expire \/ UNCHANGED vars, NEW o \in Scopes PROVE Placed(o)'
    BY <1>3 DEF Expire, vars, database, progress, TypedInv, Placed, Open, Transacted, Latest,
       NoTransaction
<1> QED
    BY <1>1, <1>2, <1>3 DEF TypedInv, Next

\* Every variable always holds what it should: a scope that is at a migration has a
\* transaction of its class, and no step is applied beyond the latest version.
THEOREM MigrationsTypeOK ==
    ASSUME MigrationsAssumption PROVE Spec => []TypeOK
<1>1. ASSUME TypedInv PROVE TypeOK
    <2>1. Inv /\ Types /\ Control
        BY <1>1 DEF TypedInv, Inv
    <2>2. ASSUME NEW s \in Scopes, NEW i \in DOMAIN calls[s]
          PROVE  calls[s][i].of \in IF calls[s][i].update THEN Features ELSE Classes
        <3>1. calls[s][i] \in Entries
            BY <2>1 DEF Control
        <3> QED
            BY <3>1 DEF Entries
    <2>3. ASSUME NEW s \in Scopes
          PROVE  /\ at[s] = "migrating" => open[s].class \in Classes
                 /\ open[s] # NoTransaction =>
                    /\ open[s].read <= open[s].current
                    /\ open[s].read # open[s].current
                        => open[s].current <= use.latest[open[s].class]
        BY <1>1, <2>1 DEF TypedInv, Placed, Transacted, Types, Open, OpenTyped
    <2> QED
        BY <2>1, <2>2, <2>3 DEF TypeOK, Control, Types, Places
<1> QED
    BY <1>1, TypedInit, TypedStep, PTL DEF Spec

------------------------------------------------------------------------------
\* The classes of which scope s has nothing left to do: the latest version is committed,
\* or will be with the transaction of s.
DoneBy(s) ==
    {e \in Classes : Latest(e) \/ (open[s].class = e /\ open[s].recorded)}

\* The calls of a scope that may still migrate are in order.
Ordered(s) ==
    at[s] \notin {"closing", "ended", "dead"} =>
        InOrder(Home, Beneath, processed[s], DoneBy(s), failed[s], calls[s])

OrderedInv == TypedInv /\ \A s \in Scopes : Ordered(s)

\* The features and classes are those of the use.
LEMMA SameTree ==
    ASSUME use' = use PROVE Home' = Home /\ Beneath' = Beneath
    BY DEF Home, FeatureOf, Beneath, Below, Needs

\* What is done for a scope stays so while its transaction does.
LEMMA DoneStays ==
    ASSUME use' = use, Advance, NEW s \in Scopes, open'[s] = open[s]
    PROVE  DoneBy(s) \subseteq DoneBy(s)'
<1> SUFFICES ASSUME NEW e \in Classes, e \in DoneBy(s) PROVE e \in DoneBy(s)'
    BY DEF DoneBy
<1>1. Latest(e) => Latest(e)'
    BY DEF Advance
<1> QED
    BY <1>1 DEF DoneBy

\* The calls of another scope stay in order.
LEMMA OthersOrdered ==
    ASSUME NEW s \in Scopes, Moves(s), NEW o \in Scopes \ {s}, Ordered(o)
    PROVE  Ordered(o)'
<1>1. use' = use /\ Untouched(o) /\ Advance
    BY DEF Moves
<1>2. Home' = Home /\ Beneath' = Beneath
    BY <1>1, SameTree
<1>3. DoneBy(o) \subseteq DoneBy(o)'
    BY <1>1, DoneStays DEF Untouched
<1> SUFFICES ASSUME at[o] \notin {"closing", "ended", "dead"}
             PROVE  InOrder(Home, Beneath, processed[o], DoneBy(o)', failed[o], calls[o])
    BY <1>1, <1>2 DEF Ordered, Untouched
<1>4. InOrder(Home, Beneath, processed[o], DoneBy(o), failed[o], calls[o])
    BY DEF Ordered
<1> HIDE DEF DoneBy
<1> QED
    BY <1>3, <1>4, InOrderMore

\* The calls of a scope stay in order when it updates a feature.
LEMMA OrderedUpdate ==
    ASSUME MigrationsAssumption, AcyclicAssumption, OrderedInv, NEW s \in Scopes, UpdateFeature(s)
    PROVE  InOrder(Home, Beneath, processed'[s], DoneBy(s), failed[s], calls'[s])
<1> DEFINE q == calls[s]
           f == Head(q).of
           P == processed[s]
           r == Dependencies(f) \o Migrate(f) \o Tail(q)
<1>1. /\ q \in Seq(Entries) /\ q # <<>> /\ q[1].update /\ q[1].of = f /\ at[s] = "calling"
      /\ P \subseteq Features
    BY DEF UpdateFeature, Calls, OrderedInv, TypedInv, Control
<1>2. f \in Features
    <2>1. q[1] \in Entries
        BY <1>1
    <2> QED
        BY <1>1, <2>1 DEF Entries
<1>3. InOrder(Home, Beneath, P, DoneBy(s), failed[s], q)
    BY <1>1 DEF OrderedInv, Ordered
<1>4. Tree(Home, Beneath) /\ use \in Uses
    BY UseIsTree DEF OrderedInv, TypedInv, Inv, Types
<1>5. \/ f \in P /\ calls'[s] = Tail(q) /\ processed'[s] = P
      \/ f \notin P /\ calls'[s] = r /\ processed'[s] = P \cup {f}
    BY DEF UpdateFeature, OrderedInv, TypedInv, Control
<1> HIDE DEF q, f, P
<1>6. CASE f \in P /\ calls'[s] = Tail(q) /\ processed'[s] = P
    <2>1. Drops(q, Tail(q))
        BY <1>1 DEF Drops
    <2> QED
        BY <1>1, <1>3, <1>4, <1>6, <2>1, InOrderSkipped
<1>7. CASE f \notin P /\ calls'[s] = r /\ processed'[s] = P \cup {f}
    <2>1. PICK n, m : Updates(Home, Beneath, f, q, r, n, m)
        BY <1>1, <1>2, <1>4, UnfoldUpdate
    <2> HIDE DEF r
    <2> QED
        BY <1>1, <1>2, <1>3, <1>4, <1>7, <2>1, InOrderUpdates
<1> QED
    BY <1>5, <1>6, <1>7

\* When a migration is over, its class is done.
LEMMA RecordDone ==
    ASSUME MigrationsAssumption, TypedInv, NEW s \in Scopes, Record(s), Placed(s)'
    PROVE  /\ DoneBy(s) \subseteq DoneBy(s)'
           /\ ~Head(calls[s]).update
           /\ \E c \in Classes : c = Head(calls[s]).of /\ c \in DoneBy(s)'
<1>1. /\ calls[s] \in Seq(Entries) /\ calls[s] # <<>> /\ ~Head(calls[s]).update
      /\ at[s] = "migrating" /\ open[s].class = Head(calls[s]).of /\ ~open[s].recorded
    BY DEF Record, TypedInv, Control, Placed
<1>2. PICK c \in Classes : c = Head(calls[s]).of
    <2>1. Head(calls[s]) \in Entries
        BY <1>1
    <2> QED
        BY <1>1, <2>1 DEF Entries
<1>3. use' = use /\ version' = version /\ open'[s].class = c /\ at'[s] = "calling"
    BY <1>1, <1>2 DEF Record, TypedInv, Control, Inv, Types, database, Written
<1>4. DoneBy(s) \subseteq DoneBy(s)'
    BY <1>1, <1>3 DEF DoneBy, Latest
<1>5. c \in DoneBy(s)'
    <2>1. Open(s)'
        BY <1>3 DEF Open
    <2>2. Transacted(s)'
        BY <2>1 DEF Placed
    <2>3. open'[s].recorded \/ Latest(c)'
        BY <1>3, <2>2 DEF Transacted, Latest
    <2> QED
        BY <1>3, <2>3 DEF DoneBy, Latest
<1> QED
    BY <1>1, <1>2, <1>4, <1>5

\* A commit leaves done what is.
LEMMA CommitDone ==
    ASSUME MigrationsAssumption, TypedInv, use' = use, NEW s \in Scopes, Committed(s)
    PROVE  DoneBy(s) \subseteq DoneBy(s)'
<1>1. ASSUME NEW e \in Classes, e \in DoneBy(s) PROVE e \in DoneBy(s)'
    <2>1. Latest(e) => Latest(e)'
        BY CommitAdvances DEF Advance
    <2>2. open[s].class = e /\ open[s].recorded => Latest(e)'
        BY CommitAdvances
    <2> QED
        BY <1>1, <2>1, <2>2 DEF DoneBy
<1> QED
    BY <1>1 DEF DoneBy

\* The calls stay in order when a migration is over.
LEMMA OrderedRecord ==
    ASSUME MigrationsAssumption, AcyclicAssumption, OrderedInv, NEW s \in Scopes, Record(s),
           Placed(s)'
    PROVE  InOrder(Home, Beneath, processed[s], DoneBy(s)', failed[s], calls'[s])
<1> DEFINE q == calls[s]
           P == processed[s]
<1>1. /\ q \in Seq(Entries) /\ q # <<>> /\ at[s] = "migrating" /\ P \subseteq Features
      /\ calls'[s] = Tail(q)
    BY DEF Record, OrderedInv, TypedInv, Control, Placed
<1>2. /\ DoneBy(s) \subseteq DoneBy(s)' /\ ~q[1].update
      /\ \E c \in Classes : c = q[1].of /\ c \in DoneBy(s)'
    <2>1. q[1] = Head(q)
        BY <1>1
    <2> QED
        BY <2>1, RecordDone DEF OrderedInv
<1>3. InOrder(Home, Beneath, P, DoneBy(s), failed[s], q)
    BY <1>1 DEF OrderedInv, Ordered
<1>4. Tree(Home, Beneath)
    BY UseIsTree DEF OrderedInv, TypedInv, Inv, Types
<1> HIDE DEF q, P, DoneBy
<1>5. \A e \in Classes : Plans(Home, Beneath, P, q[1], e) => e \in DoneBy(s)'
    BY <1>2 DEF Plans
<1>6. Drops(q, Tail(q))
    BY <1>1 DEF Drops
<1> QED
    BY <1>1, <1>2, <1>3, <1>4, <1>5, <1>6, InOrderDrops DEF P

\* They are in order when an exception ends the update: the feature of the migration that
\* would be next has failed, and that of a transaction that is lost.
LEMMA OrderedThrows ==
    ASSUME MigrationsAssumption, AcyclicAssumption, OrderedInv, NEW s \in Scopes,
           \/ FailStep(s)
           \/ CommitFails(s) /\ at[s] = "calling"
    PROVE  InOrder(Home, Beneath, processed[s], DoneBy(s)', failed'[s], <<>>)
<1> DEFINE q == calls[s]
<1>1. /\ q \in Seq(Entries) /\ q # <<>> /\ ~q[1].update /\ at[s] \in {"calling", "migrating"}
      /\ open[s].class \in Classes /\ version' = version /\ use' = use
    BY DEF FailStep, StepIsNext, CommitFails, Calls, Throws, OrderedInv, TypedInv, Control, Placed,
       Open, database
<1>2. q[1].of \in Classes
    <2>1. q[1] \in Entries
        BY <1>1
    <2> QED
        BY <1>1, <2>1 DEF Entries
<1>3. InOrder(Home, Beneath, processed[s], DoneBy(s), failed[s], q)
    BY <1>1 DEF OrderedInv, Ordered
<1>4. /\ failed[s] \subseteq failed'[s] /\ FeatureOf(open[s].class) \in failed'[s]
      /\ FeatureOf(q[1].of) \in failed'[s]
    <2>1. CASE FailStep(s)
        <3>1. failed' = [failed EXCEPT ![s] = @ \cup {FeatureOf(open[s].class)}]
            BY <2>1 DEF FailStep, Fails
        <3>2. open[s].class = q[1].of
            BY <1>1, <2>1 DEF FailStep, StepIsNext, OrderedInv, TypedInv, Placed
        <3>3. failed'[s] = failed[s] \cup {FeatureOf(open[s].class)}
            BY <3>1 DEF OrderedInv, TypedInv, Control
        <3> QED
            BY <3>2, <3>3
    <2>2. CASE CommitFails(s) /\ at[s] = "calling"
        <3>1. failed' = [failed EXCEPT ![s] =
                    @ \cup {FeatureOf(open[s].class), FeatureOf(Head(calls[s]).of)}]
            BY <2>2 DEF CommitFails
        <3>2. failed'[s] = failed[s] \cup {FeatureOf(open[s].class), FeatureOf(q[1].of)}
            BY <3>1 DEF OrderedInv, TypedInv, Control
        <3> QED
            BY <3>2
    <2> QED
        BY <2>1, <2>2
<1>5. ASSUME NEW e \in DoneBy(s) \ DoneBy(s)' PROVE Home[e] \in failed'[s]
    <2>1. e \in Classes /\ e = open[s].class
        BY <1>1, <1>5 DEF DoneBy, Latest
    <2> QED
        BY <1>4, <2>1 DEF Home
<1>6. Home[q[1].of] \in failed'[s]
    BY <1>2, <1>4 DEF Home
<1>7. 1 \in 1..Len(q)
    BY <1>1
<1> HIDE DEF q, DoneBy
<1> QED
    BY <1>1, <1>3, <1>4, <1>5, <1>6, <1>7, InOrderDropped

\* The calls of a scope are in order after its own step.
LEMMA OwnOrdered ==
    ASSUME MigrationsAssumption, AcyclicAssumption, OrderedInv, TypedInv', NEW s \in Scopes,
           \/ Activate(s) \/ Begin(s) \/ Run(s) \/ Abort(s) \/ CommitFails(s) \/ Crash(s)
    PROVE  Ordered(s)'
<1> DEFINE Busy == at[s] \notin {"closing", "ended", "dead"}
<1>0. /\ TypedInv /\ at \in [Scopes -> Places] /\ plan \in [Scopes -> Seq(Features)]
      /\ calls \in [Scopes -> Seq(Entries)] /\ DOMAIN open = Scopes
      /\ processed \in [Scopes -> SUBSET Features] /\ failed \in [Scopes -> SUBSET Features]
      /\ Placed(s) /\ Placed(s)'
    BY DEF OrderedInv, TypedInv, Control, Inv, Types
<1>1. use' = use /\ Advance
    BY <1>0, EachMoves DEF Moves
<1>2. Home' = Home /\ Beneath' = Beneath
    BY <1>1, SameTree
<1>3. Busy => InOrder(Home, Beneath, processed[s], DoneBy(s), failed[s], calls[s])
    BY DEF OrderedInv, Ordered
<1>4. ASSUME Busy, DoneBy(s) \subseteq DoneBy(s)', UNCHANGED <<processed, failed, calls>>
      PROVE  Ordered(s)'
    <2> HIDE DEF DoneBy
    <2>1. InOrder(Home, Beneath, processed[s], DoneBy(s)', failed[s], calls[s])
        BY <1>3, <1>4, InOrderMore
    <2> QED
        BY <1>2, <1>4, <2>1 DEF Ordered
<1>5. CASE Activate(s) \/ Begin(s) \/ ListFeatures(s)
    <2>1. Busy /\ open' = open /\ UNCHANGED <<processed, failed, calls>>
        BY <1>5 DEF Activate, Begin, ListFeatures, progress
    <2> QED
        BY <1>1, <1>4, <2>1, DoneStays
<1>6. CASE Call(s)
    <2> DEFINE x == [update |-> TRUE, of |-> Head(plan[s])]
    <2>1. /\ Busy /\ open' = open /\ UNCHANGED <<processed, failed, at>> /\ calls[s] = <<>>
          /\ calls'[s] = <<x>> /\ x.update
        BY <1>0, <1>6 DEF Call
    <2> HIDE DEF x
    <2>2. InOrder(Home, Beneath, processed[s], DoneBy(s), failed[s], <<x>>)
        BY <1>3, <2>1, InOrderCall
    <2>3. DoneBy(s) \subseteq DoneBy(s)' /\ failed[s] \subseteq failed[s]
        BY <1>1, <2>1, DoneStays
    <2> HIDE DEF DoneBy
    <2>4. InOrder(Home, Beneath, processed[s], DoneBy(s)', failed[s], <<x>>)
        BY <2>2, <2>3, InOrderMore
    <2> QED
        BY <1>2, <2>1, <2>4 DEF Ordered
<1>7. CASE UpdateFeature(s)
    <2>1. open' = open /\ UNCHANGED <<failed, at>>
        BY <1>7 DEF UpdateFeature
    <2>2. InOrder(Home, Beneath, processed'[s], DoneBy(s), failed[s], calls'[s])
        BY <1>7, OrderedUpdate
    <2>3. DoneBy(s) \subseteq DoneBy(s)' /\ failed[s] \subseteq failed[s]
        BY <1>1, <2>1, DoneStays
    <2> HIDE DEF DoneBy
    <2>4. InOrder(Home, Beneath, processed'[s], DoneBy(s)', failed[s], calls'[s])
        BY <2>2, <2>3, InOrderMore
    <2> QED
        BY <1>2, <2>1, <2>4 DEF Ordered
<1>8. CASE RequireNew(s)
    <2>1. Busy /\ UNCHANGED <<processed, failed, calls>> /\ Committed(s)
        BY <1>8 DEF RequireNew, Calls, progress
    <2>2. DoneBy(s) \subseteq DoneBy(s)'
        BY <1>0, <1>1, <2>1, CommitDone
    <2> QED
        BY <1>4, <2>1, <2>2
<1>9. CASE ReadVersion(s) \/ ApplyStep(s)
    <2>1. /\ Busy /\ UNCHANGED <<processed, failed, calls, version>>
          /\ at[s] \in {"reading", "migrating"}
        BY <1>9 DEF ReadVersion, ApplyStep, StepIsNext, progress, database
    <2>2. ASSUME NEW e \in Classes, open[s].class = e, open[s].recorded PROVE FALSE
        BY <1>0, <2>1, <2>2, NotOpen DEF Placed, Open
    <2>3. DoneBy(s) \subseteq DoneBy(s)'
        BY <1>1, <2>1, <2>2 DEF DoneBy, Latest
    <2> QED
        BY <1>4, <2>1, <2>3
<1>10. CASE Record(s)
    <2>1. InOrder(Home, Beneath, processed[s], DoneBy(s)', failed[s], calls'[s])
        BY <1>0, <1>10, OrderedRecord
    <2>2. processed' = processed /\ failed' = failed
        BY <1>10 DEF Record
    <2> QED
        BY <1>2, <2>1, <2>2 DEF Ordered
<1>11. CASE FailStep(s) \/ (CommitFails(s) /\ at[s] = "calling")
    <2>1. InOrder(Home, Beneath, processed[s], DoneBy(s)', failed'[s], <<>>)
        BY <1>11, OrderedThrows
    <2>2. processed' = processed /\ calls'[s] = <<>>
        BY <1>0, <1>11 DEF FailStep, CommitFails, Throws
    <2> QED
        BY <1>2, <2>1, <2>2 DEF Ordered
<1>12. CASE \/ Finish(s) \/ Unlock(s) \/ Close(s) \/ Abort(s) \/ Crash(s)
            \/ CommitFails(s) /\ at[s] # "calling"
    <2>1. at'[s] \in {"closing", "ended", "dead"}
        BY <1>0, <1>12 DEF Finish, Unlock, Close, Abort, Crash, CommitFails, Calls
    <2> QED
        BY <2>1 DEF Ordered
<1> QED
    BY <1>5, <1>6, <1>7, <1>8, <1>9, <1>10, <1>11, <1>12 DEF Run

\* The calls of every scope are in order at the beginning: there are none.
LEMMA OrderedInit ==
    ASSUME MigrationsAssumption, Init PROVE OrderedInv
<1>1. TypedInv
    BY TypedInit
<1>2. ASSUME NEW s \in Scopes PROVE Ordered(s)
    BY DEF Init, Ordered, InOrder
<1> QED
    BY <1>1, <1>2 DEF OrderedInv

\* They stay in order.
LEMMA OrderedStep ==
    ASSUME MigrationsAssumption, AcyclicAssumption, OrderedInv, [Next]_vars
    PROVE  OrderedInv'
<1>1. TypedInv /\ TypedInv'
    BY TypedStep DEF OrderedInv
<1>2. ASSUME NEW s \in Scopes,
             \/ Activate(s) \/ Begin(s) \/ Run(s) \/ Abort(s) \/ CommitFails(s) \/ Crash(s),
             NEW o \in Scopes
      PROVE  Ordered(o)'
    <2>1. CASE o = s
        BY <1>1, <1>2, <2>1, OwnOrdered
    <2>2. CASE o # s
        BY <1>1, <1>2, <2>2, EachMoves, OthersOrdered DEF OrderedInv
    <2> QED
        BY <2>1, <2>2
<1>3. ASSUME Expire \/ UNCHANGED vars, NEW o \in Scopes PROVE Ordered(o)'
    <2>1. UNCHANGED <<use, version, at, calls, processed, failed, open>>
        BY <1>3 DEF Expire, vars, database, progress
    <2>2. Home' = Home /\ Beneath' = Beneath
        BY <2>1, SameTree
    <2>3. DoneBy(o)' = DoneBy(o)
        BY <2>1 DEF DoneBy, Latest
    <2> QED
        BY <2>1, <2>2, <2>3 DEF OrderedInv, Ordered
<1> QED
    BY <1>1, <1>2, <1>3 DEF OrderedInv, Next

\* No step of a feature runs before those of all that it depends on are committed, unless
\* one of these failed in the scope before.
THEOREM MigrationsDependenciesFirst ==
    ASSUME MigrationsAssumption, AcyclicAssumption PROVE Spec => []DependenciesFirst
<1>1. ASSUME OrderedInv, NEW s \in Scopes, at[s] = "migrating",
             Below(FeatureOf(open[s].class)) \cap failed[s] = {},
             NEW d \in Below(FeatureOf(open[s].class))
      PROVE  UpToDate(d)
    <2> DEFINE q == calls[s]
    <2>1. /\ q \in Seq(Entries) /\ q # <<>> /\ ~q[1].update /\ open[s].class = q[1].of
          /\ open[s].class \in Classes /\ ~open[s].recorded /\ use \in Uses
        BY <1>1 DEF OrderedInv, TypedInv, Control, Placed, Open, Inv, Types
    <2> HIDE DEF q
    <2>2. 1 \in 1..Len(q)
        BY <2>1
    <2>3. InOrder(Home, Beneath, processed[s], DoneBy(s), failed[s], q)
        BY <1>1 DEF OrderedInv, Ordered, q
    <2>4. Ahead(Home, Beneath, processed[s], DoneBy(s), failed[s], q, 1)
        BY <2>2, <2>3 DEF InOrder
    <2>5. /\ FeatureOf(open[s].class) \in Features
          /\ Beneath[Home[q[1].of]] = Below(FeatureOf(open[s].class))
        BY <2>1, FeatureOfClass DEF Home, Beneath
    <2>6. AllPlanned(Home, Beneath, processed[s], DoneBy(s), q, 0,
                     Below(FeatureOf(open[s].class)))
        BY <1>1, <2>1, <2>4, <2>5 DEF Ahead
    <2>7. ASSUME NEW e \in Range(use.classes[d]) PROVE version[e] >= use.latest[e]
        <3>1. d \in Features
            BY <2>1, <2>5, BelowFacts
        <3>2. use.classes[d] \in Seq(Classes)
            BY <2>1, <3>1, UseFacts
        <3>3. e \in Classes
            BY <3>2 DEF Range
        <3>4. Home[e] = d
            BY <2>1, <2>7, <3>1, <3>3, FeatureOfClass DEF Home
        <3>5. e \in DoneBy(s)
            BY <2>6, <3>3, <3>4 DEF AllPlanned, Planned
        <3> QED
            BY <2>1, <3>5 DEF DoneBy, Latest
    <2> QED
        BY <2>7 DEF UpToDate
<1>2. OrderedInv => DependenciesFirst
    BY <1>1 DEF DependenciesFirst
<1> QED
    BY <1>2, OrderedInit, OrderedStep, PTL DEF Spec

------------------------------------------------------------------------------
(***************************************************************************)
(* LeavesUpToDate.  While nothing has failed in a scope, each class of a   *)
(* feature that is processed is done or is still to be migrated, and each  *)
(* that the scope is to leave up to date is so, or its feature is          *)
(* processed or is still to be updated.                                    *)
(***************************************************************************)
MigrateCall(c) == [update |-> FALSE, of |-> c]
UpdateCall(f) == [update |-> TRUE, of |-> f]

\* Class c is one that scope s is to leave up to date.
Asking(s, c) ==
    IF Lists(s)
    THEN \/ at[s] \in {"calling", "reading", "migrating", "closing"} \/ processed[s] # {}
         \/ at[s] = "ended" /\ Kind(s) = "all"
    ELSE FeatureOf(c) \in Range(use.scopes[s].plan)

\* The migrations of what is processed are done, or are left.
Migrated(s) ==
    \A c \in Classes : FeatureOf(c) \in processed[s] =>
        c \in DoneBy(s) \/ MigrateCall(c) \in Range(calls[s])

\* What was asked for is up to date or processed, or its update is left.
Updated(s) ==
    \A c \in Classes : Asking(s, c) =>
        \/ Latest(c) \/ FeatureOf(c) \in processed[s] \/ FeatureOf(c) \in Range(plan[s])
        \/ UpdateCall(FeatureOf(c)) \in Range(calls[s])

\* Nothing is left when the scope closes; a scope that did not get the lock has no plan.
NothingLeft(s) ==
    \/ at[s] = "closing"
    \/ at[s] = "ended" /\ (Kind(s) # "activation" \/ processed[s] # {})
    => calls[s] = <<>> /\ plan[s] = <<>>

Complete(s) ==
    failed[s] = {} /\ at[s] # "dead" => Migrated(s) /\ Updated(s) /\ NothingLeft(s)

CompleteInv == TypedInv /\ \A s \in Scopes : Complete(s)

\* The members of a sequence: none, the head and those of the tail, those of both parts.
LEMMA RangeFacts ==
    ASSUME NEW S
    PROVE  /\ Range(<<>>) = {}
           /\ \A x : Range(<<x>>) = {x}
           /\ \A q \in Seq(S) : q # <<>> => Range(q) = {Head(q)} \cup Range(Tail(q))
           /\ \A q, r \in Seq(S) : Range(q \o r) = Range(q) \cup Range(r)
<1>1. Range(<<>>) = {}
    BY DEF Range
<1>2. ASSUME NEW x PROVE Range(<<x>>) = {x}
    BY DEF Range
<1>3. ASSUME NEW q \in Seq(S), q # <<>> PROVE Range(q) = {Head(q)} \cup Range(Tail(q))
    <2>1. /\ DOMAIN q = 1..Len(q) /\ DOMAIN Tail(q) = 1..(Len(q) - 1) /\ Len(q) \in Nat \ {0}
          /\ Head(q) = q[1] /\ \A i \in 1..(Len(q) - 1) : Tail(q)[i] = q[i + 1]
        BY <1>3
    <2>2. ASSUME NEW i \in 1..Len(q) PROVE q[i] = Head(q) \/ q[i] \in Range(Tail(q))
        <3>1. CASE i = 1
            BY <2>1, <3>1
        <3>2. CASE i # 1
            <4>1. i - 1 \in 1..(Len(q) - 1) /\ (i - 1) + 1 = i
                BY <2>1, <3>2
            <4>2. Tail(q)[i - 1] = q[i] /\ i - 1 \in DOMAIN Tail(q)
                BY <2>1, <4>1
            <4> QED
                BY <4>2 DEF Range
        <3> QED
            BY <3>1, <3>2
    <2>3. Head(q) \in Range(q)
        BY <2>1 DEF Range
    <2>4. ASSUME NEW i \in 1..(Len(q) - 1) PROVE Tail(q)[i] \in Range(q)
        <3>1. i + 1 \in 1..Len(q) /\ Tail(q)[i] = q[i + 1]
            BY <2>1
        <3> QED
            BY <2>1, <3>1 DEF Range
    <2>5. Range(q) \subseteq {Head(q)} \cup Range(Tail(q))
        BY <2>1, <2>2 DEF Range
    <2>6. Range(Tail(q)) \subseteq Range(q)
        BY <2>1, <2>4 DEF Range
    <2> QED
        BY <2>3, <2>5, <2>6
<1>4. ASSUME NEW q \in Seq(S), NEW r \in Seq(S) PROVE Range(q \o r) = Range(q) \cup Range(r)
    <2>1. /\ q \o r \in Seq(S) /\ Len(q \o r) = Len(q) + Len(r)
          /\ Len(q) \in Nat /\ Len(r) \in Nat /\ DOMAIN q = 1..Len(q) /\ DOMAIN r = 1..Len(r)
          /\ DOMAIN (q \o r) = 1..(Len(q) + Len(r))
          /\ \A i \in 1..(Len(q) + Len(r)) :
                (q \o r)[i] = IF i <= Len(q) THEN q[i] ELSE r[i - Len(q)]
        BY ConcatProperties
    <2>2. ASSUME NEW i \in 1..(Len(q) + Len(r)) PROVE (q \o r)[i] \in Range(q) \cup Range(r)
        <3>1. CASE i <= Len(q)
            <4>1. i \in DOMAIN q /\ (q \o r)[i] = q[i]
                BY <2>1, <3>1
            <4> QED
                BY <4>1 DEF Range
        <3>2. CASE ~(i <= Len(q))
            <4>1. i - Len(q) \in DOMAIN r /\ (q \o r)[i] = r[i - Len(q)]
                BY <2>1, <3>2
            <4> QED
                BY <4>1 DEF Range
        <3> QED
            BY <3>1, <3>2
    <2>3. ASSUME NEW i \in 1..Len(q) PROVE q[i] \in Range(q \o r)
        <3>1. i \in DOMAIN (q \o r) /\ (q \o r)[i] = q[i]
            BY <2>1
        <3> QED
            BY <3>1 DEF Range
    <2>4. ASSUME NEW i \in 1..Len(r) PROVE r[i] \in Range(q \o r)
        <3>1. /\ Len(q) + i \in 1..(Len(q) + Len(r)) /\ ~(Len(q) + i <= Len(q))
              /\ (Len(q) + i) - Len(q) = i
            BY <2>1
        <3>2. Len(q) + i \in DOMAIN (q \o r) /\ (q \o r)[Len(q) + i] = r[i]
            BY <2>1, <3>1
        <3> QED
            BY <3>2 DEF Range
    <2>5. Range(q \o r) \subseteq Range(q) \cup Range(r)
        BY <2>1, <2>2 DEF Range
    <2>6. Range(q) \subseteq Range(q \o r) /\ Range(r) \subseteq Range(q \o r)
        BY <2>1, <2>3, <2>4 DEF Range
    <2> QED
        BY <2>5, <2>6
<1> QED
    BY <1>1, <1>2, <1>3, <1>4

\* What another scope has to do stays as it is.
LEMMA OthersComplete ==
    ASSUME NEW s \in Scopes, Moves(s), NEW o \in Scopes \ {s}, Complete(o)
    PROVE  Complete(o)'
<1>1. use' = use /\ Untouched(o) /\ Advance
    BY DEF Moves
<1>2. DoneBy(o) \subseteq DoneBy(o)'
    BY <1>1, DoneStays DEF Untouched
<1> SUFFICES ASSUME Migrated(o), Updated(o), NothingLeft(o)
             PROVE  Migrated(o)' /\ Updated(o)' /\ NothingLeft(o)'
    BY <1>1 DEF Complete, Untouched
<1>3. ASSUME NEW c \in Classes
      PROVE  /\ FeatureOf(c)' = FeatureOf(c) /\ Asking(o, c)' = Asking(o, c)
             /\ Latest(c) => Latest(c)'
    BY <1>1 DEF FeatureOf, Asking, Kind, Lists, Untouched, Advance
<1>4. Migrated(o)'
    <2> SUFFICES ASSUME NEW c \in Classes, FeatureOf(c) \in processed[o]
                 PROVE  c \in DoneBy(o)' \/ MigrateCall(c) \in Range(calls[o])
        BY <1>1, <1>3 DEF Migrated, Untouched, MigrateCall
    <2> QED
        BY <1>2 DEF Migrated
<1>5. Updated(o)'
    <2> SUFFICES ASSUME NEW c \in Classes, Asking(o, c)
                 PROVE  \/ Latest(c)' \/ FeatureOf(c) \in processed[o]
                        \/ FeatureOf(c) \in Range(plan[o])
                        \/ UpdateCall(FeatureOf(c)) \in Range(calls[o])
        BY <1>1, <1>3 DEF Updated, Untouched, UpdateCall
    <2> QED
        BY <1>3 DEF Updated
<1>6. NothingLeft(o)'
    BY <1>1 DEF NothingLeft, Kind, Untouched
<1> QED
    BY <1>4, <1>5, <1>6

\* What is asked for does not change, but for what the plan of an activation is to be.
LEMMA AskingBefore ==
    ASSUME use' = use, NEW s \in Scopes, NEW c \in Classes, Asking(s, c)',
           \/ at'[s] \notin {"calling", "reading", "migrating", "closing"}
           \/ at[s] \in {"calling", "reading", "migrating", "closing"}
           \/ ~Lists(s),
           at'[s] = "ended" /\ Kind(s) = "all" => at[s] = "closing",
           processed'[s] = processed[s] \/ at[s] = "calling"
    PROVE  Asking(s, c)
<1>1. FeatureOf(c)' = FeatureOf(c) /\ Kind(s)' = Kind(s)
    BY DEF FeatureOf, Kind
<1> QED
    BY <1>1 DEF Asking, Lists

\* What a scope has to do follows from its own step.
LEMMA OwnComplete ==
    ASSUME MigrationsAssumption, CompleteInv, TypedInv', NEW s \in Scopes,
           \/ Activate(s) \/ Begin(s) \/ Run(s) \/ Abort(s) \/ CommitFails(s) \/ Crash(s)
    PROVE  Complete(s)'
<1>0. /\ TypedInv /\ at \in [Scopes -> Places] /\ plan \in [Scopes -> Seq(Features)]
      /\ calls \in [Scopes -> Seq(Entries)] /\ DOMAIN open = Scopes
      /\ processed \in [Scopes -> SUBSET Features] /\ failed \in [Scopes -> SUBSET Features]
      /\ Placed(s) /\ Placed(s)' /\ Complete(s) /\ use \in Uses
    BY DEF CompleteInv, TypedInv, Control, Inv, Types
<1>1. use' = use /\ Advance
    BY <1>0, EachMoves DEF Moves
<1>2. /\ \A c \in Classes : FeatureOf(c)' = FeatureOf(c) /\ (Latest(c) => Latest(c)')
      /\ Kind(s)' = Kind(s)
    BY <1>1 DEF FeatureOf, Advance, Kind
<1>3. ASSUME failed'[s] # {} \/ at'[s] = "dead" PROVE Complete(s)'
    BY <1>3 DEF Complete
<1>4. CASE FailStep(s) \/ Abort(s) \/ CommitFails(s) \/ Crash(s)
    <2>1. failed'[s] # {} \/ at'[s] = "dead"
        BY ZenonT(40), <1>0, <1>4 DEF FailStep, Abort, CommitFails, Crash, Fails
    <2> QED
        BY <1>3, <2>1
<1>5. CASE ~(FailStep(s) \/ Abort(s) \/ CommitFails(s) \/ Crash(s))
    <2>1. failed' = failed
        BY <1>5 DEF Activate, Begin, Run, ListFeatures, Call, UpdateFeature, RequireNew,
           ReadVersion, ApplyStep, Record, Finish, Unlock, Close, progress
    <2>2. at[s] # "dead"
        BY <1>5 DEF Activate, Begin, Run, ListFeatures, Call, UpdateFeature, RequireNew,
           ReadVersion, ApplyStep, Record, Finish, Unlock, Close, Calls, StepIsNext
    <2> SUFFICES ASSUME Migrated(s), Updated(s), NothingLeft(s)
                 PROVE  Migrated(s)' /\ Updated(s)' /\ NothingLeft(s)'
        BY <1>0, <2>1, <2>2 DEF Complete
    <2>3. ASSUME DoneBy(s) \subseteq DoneBy(s)', UNCHANGED <<processed, calls>>
          PROVE  Migrated(s)'
        <3> HIDE DEF DoneBy
        <3> SUFFICES ASSUME NEW c \in Classes, FeatureOf(c) \in processed[s]
                     PROVE  c \in DoneBy(s)' \/ MigrateCall(c) \in Range(calls[s])
            BY <1>2, <2>3 DEF Migrated, MigrateCall
        <3> QED
            BY <2>3 DEF Migrated
    <2>4. ASSUME UNCHANGED <<processed, calls, plan>>,
                 \/ at'[s] \notin {"calling", "reading", "migrating", "closing"}
                 \/ at[s] \in {"calling", "reading", "migrating", "closing"}
                 \/ ~Lists(s),
                 at'[s] = "ended" /\ Kind(s) = "all" => at[s] = "closing"
          PROVE  Updated(s)'
        <3> SUFFICES ASSUME NEW c \in Classes, Asking(s, c)'
                     PROVE  \/ Latest(c)' \/ FeatureOf(c) \in processed[s]
                            \/ FeatureOf(c) \in Range(plan[s])
                            \/ UpdateCall(FeatureOf(c)) \in Range(calls[s])
            BY <1>2, <2>4 DEF Updated, UpdateCall
        <3>1. Asking(s, c)
            BY <1>1, <2>4, AskingBefore
        <3> QED
            BY <1>2, <3>1 DEF Updated
    <2>5. CASE Activate(s) \/ Begin(s)
        <3>1. /\ UNCHANGED <<processed, calls, plan, open>>
              /\ at[s] = "ready" /\ processed[s] = {}
              /\ \/ at'[s] = "calling" /\ ~Lists(s)
                 \/ at'[s] = "listing"
                 \/ at'[s] = "ended" /\ Kind(s) = "activation"
            BY <1>0, <2>5 DEF Activate, Begin, Lists, progress, Placed
        <3>2. DoneBy(s) \subseteq DoneBy(s)'
            BY <1>1, <3>1, DoneStays
        <3> QED
            BY <1>2, <2>3, <2>4, <3>1, <3>2 DEF NothingLeft
    <2>6. CASE ListFeatures(s)
        <3>1. /\ UNCHANGED <<processed, calls, open, version>> /\ at'[s] = "calling"
              /\ plan'[s] = NeedUpdate
            BY <1>0, <2>6 DEF ListFeatures, database
        <3>2. DoneBy(s) \subseteq DoneBy(s)'
            BY <1>1, <3>1, DoneStays
        <3>3. ASSUME NEW c \in Classes PROVE Latest(c)' \/ FeatureOf(c) \in Range(plan'[s])
            <4>1. HasStep(c, version[c]) => FeatureOf(c) \in Range(NeedUpdate)
                BY <1>0, NeedUpdateFacts
            <4>2. version[c] \in Nat /\ use.latest[c] \in Nat
                BY <1>0, UseFacts DEF TypedInv, Inv, Types
            <4>3. HasStep(c, version[c]) \/ Latest(c)
                BY <4>2 DEF HasStep, Latest
            <4> QED
                BY <1>2, <3>1, <4>1, <4>3
        <3>4. Updated(s)'
            BY <1>2, <3>3 DEF Updated
        <3> QED
            BY <2>3, <3>1, <3>2, <3>4 DEF NothingLeft
    <2>7. CASE Call(s)
        <3> DEFINE f == Head(plan[s])
        <3>1. /\ UNCHANGED <<processed, open>> /\ at'[s] = "calling" /\ at[s] = "calling"
              /\ calls[s] = <<>> /\ calls'[s] = <<UpdateCall(f)>> /\ plan[s] # <<>>
              /\ plan'[s] = Tail(plan[s])
            BY <1>0, <2>7 DEF Call, UpdateCall
        <3>2. /\ Range(calls[s]) = {} /\ Range(calls'[s]) = {UpdateCall(f)}
              /\ Range(plan[s]) = {f} \cup Range(plan'[s])
            BY <1>0, <3>1, RangeFacts
        <3> HIDE DEF f
        <3>3. DoneBy(s) \subseteq DoneBy(s)'
            BY <1>1, <3>1, DoneStays
        <3>4. Migrated(s)'
            <4> HIDE DEF DoneBy
            <4> SUFFICES ASSUME NEW c \in Classes, FeatureOf(c) \in processed[s]
                         PROVE  c \in DoneBy(s)'
                BY <1>2, <3>1 DEF Migrated
            <4> QED
                BY <3>2, <3>3 DEF Migrated
        <3>5. Updated(s)'
            <4> SUFFICES ASSUME NEW c \in Classes, Asking(s, c)'
                         PROVE  \/ Latest(c)' \/ FeatureOf(c) \in processed[s]
                                \/ FeatureOf(c) \in Range(plan'[s])
                                \/ UpdateCall(FeatureOf(c)) \in Range(calls'[s])
                BY <1>2, <3>1 DEF Updated, UpdateCall
            <4>1. Asking(s, c)
                BY <1>1, <3>1, AskingBefore
            <4> QED
                BY <1>2, <3>2, <4>1 DEF Updated
        <3> QED
            BY <3>1, <3>4, <3>5 DEF NothingLeft
    <2>8. CASE UpdateFeature(s)
        <3> DEFINE q == calls[s]
                   f == Head(q).of
                   d == Dependencies(f)
                   g == Migrate(f)
        <3>1. /\ UNCHANGED <<open, plan, at>> /\ at[s] = "calling"
              /\ q \in Seq(Entries) /\ q # <<>> /\ Head(q).update
              /\ \/ f \in processed[s] /\ calls'[s] = Tail(q) /\ processed'[s] = processed[s]
                 \/ calls'[s] = d \o g \o Tail(q) /\ processed'[s] = processed[s] \cup {f}
            BY <1>0, <2>8 DEF UpdateFeature, Calls
        <3>2. Head(q) \in Entries /\ Tail(q) \in Seq(Entries)
            BY <3>1
        <3>3. f \in Features /\ Head(q) = UpdateCall(f)
            BY <3>1, <3>2 DEF Entries, UpdateCall
        <3>4. /\ d \in Seq(Entries) /\ g \in Seq(Entries)
              /\ \A e \in Classes : FeatureOf(e) = f => \E i \in 1..Len(g) : g[i].of = e
              /\ \A i \in 1..Len(g) : ~g[i].update
            BY <1>0, <3>3, CallsOfUpdate
        <3> HIDE DEF d, g, f
        <3>5. Range(q) = {UpdateCall(f)} \cup Range(Tail(q))
            BY <3>1, <3>3, RangeFacts
        <3>6. ASSUME calls'[s] = d \o g \o Tail(q)
              PROVE  Range(calls'[s]) = Range(d) \cup Range(g) \cup Range(Tail(q))
            <4> DEFINE a == d \o g
                       b == Tail(q)
            <4>1. a \in Seq(Entries)
                BY <3>4
            <4>2. Range(a) = Range(d) \cup Range(g)
                BY <3>4, RangeFacts
            <4>3. b \in Seq(Entries)
                BY <3>2
            <4>4. calls'[s] = a \o b
                BY <3>6
            <4> HIDE DEF a, b
            <4>5. Range(a \o b) = Range(a) \cup Range(b)
                BY <4>1, <4>3, RangeFacts
            <4> QED
                BY <4>2, <4>4, <4>5 DEF b
        <3>7. ASSUME NEW e \in Classes, FeatureOf(e) = f PROVE MigrateCall(e) \in Range(g)
            <4>1. PICK i \in 1..Len(g) : g[i].of = e
                BY <3>4, <3>7
            <4>2. g[i] \in Entries /\ ~g[i].update
                BY <3>4
            <4>3. g[i] = MigrateCall(e)
                BY <4>1, <4>2 DEF Entries, MigrateCall
            <4>4. i \in DOMAIN g
                BY <3>4
            <4> QED
                BY <4>3, <4>4 DEF Range
        <3>8. /\ Range(Tail(q)) \subseteq Range(calls'[s])
              /\ \/ f \in processed[s] /\ processed'[s] = processed[s]
                 \/ /\ Range(g) \subseteq Range(calls'[s])
                    /\ processed'[s] = processed[s] \cup {f}
            BY <3>1, <3>6
        <3>9. DoneBy(s) \subseteq DoneBy(s)'
            BY <1>1, <3>1, DoneStays
        <3>10. Migrated(s)'
            <4> HIDE DEF DoneBy
            <4> SUFFICES ASSUME NEW c \in Classes, FeatureOf(c) \in processed'[s]
                         PROVE  c \in DoneBy(s)' \/ MigrateCall(c) \in Range(calls'[s])
                BY <1>2 DEF Migrated, MigrateCall
            <4>1. CASE FeatureOf(c) \in processed[s]
                <5>1. c \in DoneBy(s) \/ MigrateCall(c) \in Range(q)
                    BY <4>1 DEF Migrated
                <5>2. MigrateCall(c) # UpdateCall(f)
                    BY DEF MigrateCall, UpdateCall
                <5> QED
                    BY <3>5, <3>8, <3>9, <5>1, <5>2
            <4>2. CASE FeatureOf(c) \notin processed[s]
                BY <3>7, <3>8, <4>2
            <4> QED
                BY <4>1, <4>2
        <3>11. Updated(s)'
            <4> SUFFICES ASSUME NEW c \in Classes, Asking(s, c)'
                         PROVE  \/ Latest(c)' \/ FeatureOf(c) \in processed'[s]
                                \/ FeatureOf(c) \in Range(plan[s])
                                \/ UpdateCall(FeatureOf(c)) \in Range(calls'[s])
                BY <1>2, <3>1 DEF Updated, UpdateCall
            <4>1. Asking(s, c)
                BY <1>1, <3>1, AskingBefore
            <4>2. UpdateCall(FeatureOf(c)) = UpdateCall(f) => FeatureOf(c) = f
                BY DEF UpdateCall
            <4> QED
                BY <1>2, <3>5, <3>8, <4>1, <4>2 DEF Updated
        <3> QED
            BY <3>1, <3>10, <3>11 DEF NothingLeft
    <2>9. CASE RequireNew(s) \/ Close(s)
        <3>1. /\ UNCHANGED <<processed, calls, plan>> /\ Committed(s)
              /\ \/ at[s] = "calling" /\ at'[s] = "reading"
                 \/ at[s] = "closing" /\ at'[s] = "ended"
            BY <1>0, <2>9 DEF RequireNew, Close, Calls, progress
        <3>2. DoneBy(s) \subseteq DoneBy(s)'
            BY <1>0, <1>1, <3>1, CommitDone
        <3> QED
            BY <2>3, <2>4, <3>1, <3>2 DEF NothingLeft
    <2>10. CASE ReadVersion(s) \/ ApplyStep(s)
        <3>1. /\ UNCHANGED <<processed, calls, plan, version>>
              /\ at[s] \in {"reading", "migrating"} /\ at'[s] = "migrating"
            BY <1>0, <2>10 DEF ReadVersion, ApplyStep, StepIsNext, progress, database
        <3>2. ASSUME NEW e \in Classes, open[s].class = e, open[s].recorded PROVE FALSE
            BY <1>0, <3>1, <3>2, NotOpen DEF Placed, Open
        <3>3. DoneBy(s) \subseteq DoneBy(s)'
            BY <1>1, <3>1, <3>2 DEF DoneBy, Latest
        <3> QED
            BY <2>3, <2>4, <3>1, <3>3 DEF NothingLeft
    <2>11. CASE Record(s)
        <3> DEFINE q == calls[s]
        <3>1. /\ UNCHANGED <<processed, plan>> /\ at[s] = "migrating" /\ at'[s] = "calling"
              /\ q \in Seq(Entries) /\ q # <<>> /\ calls'[s] = Tail(q)
            BY <1>0, <2>11 DEF Record, Placed
        <3>2. DoneBy(s) \subseteq DoneBy(s)' /\ ~Head(q).update
            BY <1>0, <2>11, RecordDone
        <3>3. PICK e \in Classes : e = Head(q).of /\ e \in DoneBy(s)'
            BY <1>0, <2>11, RecordDone
        <3>4. Head(q) = MigrateCall(e)
            <4>1. Head(q) \in Entries
                BY <3>1
            <4> QED
                BY <3>2, <3>3, <4>1 DEF Entries, MigrateCall
        <3>5. Range(q) = {MigrateCall(e)} \cup Range(calls'[s])
            BY <3>1, <3>4, RangeFacts
        <3>6. Migrated(s)'
            <4> HIDE DEF DoneBy
            <4> SUFFICES ASSUME NEW c \in Classes, FeatureOf(c) \in processed[s]
                         PROVE  c \in DoneBy(s)' \/ MigrateCall(c) \in Range(calls'[s])
                BY <1>2, <3>1 DEF Migrated, MigrateCall
            <4>1. MigrateCall(c) = MigrateCall(e) => c = e
                BY DEF MigrateCall
            <4> QED
                BY <3>2, <3>3, <3>5, <4>1 DEF Migrated
        <3>7. Updated(s)'
            <4> SUFFICES ASSUME NEW c \in Classes, Asking(s, c)'
                         PROVE  \/ Latest(c)' \/ FeatureOf(c) \in processed[s]
                                \/ FeatureOf(c) \in Range(plan[s])
                                \/ UpdateCall(FeatureOf(c)) \in Range(calls'[s])
                BY <1>2, <3>1 DEF Updated, UpdateCall
            <4>1. Asking(s, c)
                BY <1>1, <3>1, AskingBefore
            <4>2. UpdateCall(FeatureOf(c)) # MigrateCall(e)
                BY DEF UpdateCall, MigrateCall
            <4> QED
                BY <1>2, <3>5, <4>1, <4>2 DEF Updated
        <3> QED
            BY <3>1, <3>6, <3>7 DEF NothingLeft
    <2>12. CASE Finish(s) \/ Unlock(s)
        <3>1. /\ UNCHANGED <<processed, calls, plan, open>> /\ at'[s] = "closing"
              /\ at[s] \in {"calling", "closing"}
              /\ at[s] = "calling" => calls[s] = <<>> /\ plan[s] = <<>>
            BY <1>0, <2>12 DEF Finish, Unlock, progress
        <3>2. DoneBy(s) \subseteq DoneBy(s)'
            BY <1>1, <3>1, DoneStays
        <3> QED
            BY <2>3, <2>4, <3>1, <3>2 DEF NothingLeft
    <2> QED
        BY <1>5, <2>5, <2>6, <2>7, <2>8, <2>9, <2>10, <2>11, <2>12 DEF Run
<1> QED
    BY <1>4, <1>5

\* At the beginning everything is planned that a scope without a lock is asked for.
LEMMA CompleteInit ==
    ASSUME MigrationsAssumption, Init PROVE CompleteInv
<1>1. TypedInv
    BY TypedInit
<1>2. ASSUME NEW s \in Scopes PROVE Complete(s)
    BY DEF Init, Complete, Migrated, Updated, Asking, NothingLeft
<1> QED
    BY <1>1, <1>2 DEF CompleteInv

\* What is left to do stays planned.
LEMMA CompleteStep ==
    ASSUME MigrationsAssumption, CompleteInv, [Next]_vars PROVE CompleteInv'
<1>1. TypedInv /\ TypedInv'
    BY TypedStep DEF CompleteInv
<1>2. ASSUME NEW s \in Scopes,
             \/ Activate(s) \/ Begin(s) \/ Run(s) \/ Abort(s) \/ CommitFails(s) \/ Crash(s),
             NEW o \in Scopes
      PROVE  Complete(o)'
    <2>1. CASE o = s
        BY <1>1, <1>2, <2>1, OwnComplete
    <2>2. CASE o # s
        BY <1>1, <1>2, <2>2, EachMoves, OthersComplete DEF CompleteInv
    <2> QED
        BY <2>1, <2>2
<1>3. ASSUME Expire \/ UNCHANGED vars, NEW o \in Scopes PROVE Complete(o)'
    <2>1. UNCHANGED <<use, version, at, plan, calls, processed, failed, open>>
        BY <1>3 DEF Expire, vars, database, progress
    <2>2. DoneBy(o)' = DoneBy(o) /\ \A c \in Classes : FeatureOf(c)' = FeatureOf(c)
        BY <2>1 DEF DoneBy, Latest, FeatureOf
    <2> QED
        BY <2>1, <2>2 DEF CompleteInv, Complete, Migrated, Updated, Asking, NothingLeft, Kind,
           Lists, Latest, MigrateCall, UpdateCall
<1> QED
    BY <1>1, <1>2, <1>3 DEF CompleteInv, Next

\* A scope that ends without a failure leaves what it was asked for up to date, what others
\* have left unfinished included.
THEOREM MigrationsLeavesUpToDate ==
    ASSUME MigrationsAssumption PROVE Spec => []LeavesUpToDate
<1>1. ASSUME CompleteInv, NEW s \in Scopes, at[s] = "ended", failed[s] = {},
             NEW f \in Asked(s), NEW c \in Range(use.classes[f])
      PROVE  version[c] >= use.latest[c]
    <2>1. /\ use \in Uses /\ open[s] = NoTransaction
          /\ Migrated(s) /\ Updated(s) /\ NothingLeft(s)
        BY <1>1 DEF CompleteInv, TypedInv, Inv, Types, Placed, Complete
    <2>2. f \in Features
        <3>1. use.scopes[s].plan \in Seq(Features)
            BY <2>1, UseFacts
        <3> QED
            BY <3>1 DEF Asked, Range
    <2>3. c \in Classes
        <3>1. use.classes[f] \in Seq(Classes)
            BY <2>1, <2>2, UseFacts
        <3> QED
            BY <3>1 DEF Range
    <2>4. FeatureOf(c) = f
        BY <2>1, <2>2, <2>3, FeatureOfClass
    <2>5. Asking(s, c) /\ (Kind(s) # "activation" \/ processed[s] # {})
        BY <1>1, <2>4 DEF Asked, Asking, Lists
    <2>6. Range(calls[s]) = {} /\ Range(plan[s]) = {}
        BY <1>1, <2>1, <2>5, RangeFacts DEF NothingLeft
    <2>7. Latest(c) \/ FeatureOf(c) \in processed[s]
        BY <2>1, <2>3, <2>5, <2>6 DEF Updated
    <2>8. FeatureOf(c) \in processed[s] => c \in DoneBy(s)
        BY <2>1, <2>3, <2>6 DEF Migrated
    <2>9. open[s].class # c
        BY <2>1, <2>3, NotOpen DEF Open
    <2> QED
        BY <2>7, <2>8, <2>9 DEF DoneBy, Latest
<1>2. CompleteInv => LeavesUpToDate
    BY <1>1 DEF LeavesUpToDate, UpToDate
<1> QED
    BY <1>2, CompleteInit, CompleteStep, PTL DEF Spec
==============================================================================
