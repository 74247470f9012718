---------------------------- MODULE MCDataChannel ----------------------------
(* Instances of DataChannel for TLC. *)
EXTENDS DataChannel

CONSTANT s1
==============================================================================
