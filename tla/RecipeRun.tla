-------------------------------- MODULE RecipeRun --------------------------------
(***************************************************************************)
(* What the execution of recipes promises, apart from the folder, the      *)
(* tasks and the transactions that it is made of: the steps of an          *)
(* execution start one at a time, in the order in which they were queued,  *)
(* each of them at most once, and what is given up is given up for good.   *)
(***************************************************************************)
EXTENDS Sequences

CONSTANTS Executions, Steps

VARIABLES
    waiting,    \* waiting[e]: the steps of execution e that have not started
    started     \* started[e]: those that have, in that order

vars == <<waiting, started>>

Init ==
    /\ waiting = [e \in Executions |-> <<>>]
    /\ started = [e \in Executions |-> <<>>]

Queue(e, s) ==
    /\ waiting' = [waiting EXCEPT ![e] = Append(@, s)]
    /\ UNCHANGED started

Start(e) ==
    /\ waiting[e] # <<>>
    /\ started' = [started EXCEPT ![e] = Append(@, Head(waiting[e]))]
    /\ waiting' = [waiting EXCEPT ![e] = Tail(@)]

GiveUp(e) ==
    /\ waiting' = [waiting EXCEPT ![e] = <<>>]
    /\ UNCHANGED started

Next == \E e \in Executions : Start(e) \/ GiveUp(e) \/ \E s \in Steps : Queue(e, s)

Spec == Init /\ [][Next]_vars
==============================================================================
