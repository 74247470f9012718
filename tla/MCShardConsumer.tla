--------------------------- MODULE MCShardConsumer ---------------------------
(* Instances of ShardConsumer for TLC. *)
EXTENDS ShardConsumer
==============================================================================
