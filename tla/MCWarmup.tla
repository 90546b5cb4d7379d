-------------------------------- MODULE MCWarmup --------------------------------
(* Instances of Warmup for TLC. *)
EXTENDS Warmup

CONSTANTS r1, r2, r3, t1, t2, t3
==============================================================================
