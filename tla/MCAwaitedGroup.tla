--------------------------- MODULE MCAwaitedGroup ---------------------------
(* Instances of AwaitedGroup, and with it of AsyncGroup, for TLC. *)
EXTENDS AwaitedGroup

CONSTANTS t1, t2, t3, t4, w1
==============================================================================
