--------------------------------- MODULE MCSweep ---------------------------------
(* Instances of Sweep for TLC. *)
EXTENDS Sweep

CONSTANTS t1, t2, t3

\* tasks only; tasks and commits; and everything
SomeUses == {{"task"}, {"task", "commit"}, {"task", "commit", "fatal"}}
==============================================================================
