----------------------------- MODULE MCFeatureState -----------------------------
(* Instances of FeatureState for TLC: b depends on a; c depends on b. *)
EXTENDS FeatureState, TLC

CONSTANTS a, b, c, r1, r2

Chain == [f \in Features |-> IF f = b THEN {a} ELSE IF f = c THEN {b} ELSE {}]
ChainOrder == IF c \in Features THEN <<a, b, c>> ELSE <<a, b>>
Symmetry == Permutations(Requests)

UsesOf(R, O, H, F, N) ==
    [requests : R, once : O, handlers : H, failing : F, changes : N]

\* requests one after another, anything failing, and with handlers that change features;
\* overlapping requests, with and without such handlers
SomeUses ==
    UsesOf({{r} : r \in Requests}, BOOLEAN, {FALSE}, {{"request", "task"}}, {4})
        \cup UsesOf({{r} : r \in Requests}, {FALSE}, {TRUE}, {{"request"}}, {3})
        \cup UsesOf({Requests}, {FALSE}, BOOLEAN, {{"request"}}, {3})
==============================================================================
