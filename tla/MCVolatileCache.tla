---------------------------- MODULE MCVolatileCache ----------------------------
(* Instances of VolatileCache for TLC. *)
EXTENDS VolatileCache, TLC

CONSTANTS t1, t2, s1, s2, parent

\* signals, with and without the locks of keys; one source monitored by a task
SomeUses ==
    {[exclusive |-> FALSE, async |-> {}],
     [exclusive |-> TRUE, async |-> {}],
     [exclusive |-> TRUE, async |-> {s2}]}

Symmetry == Permutations(Threads)
==============================================================================
