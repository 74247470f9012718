--------------------------- MODULE MCLeaseManager ---------------------------
(* Instances of LeaseManager for TLC. *)
EXTENDS LeaseManager, TLC

CONSTANTS c1, c2, o1, o2, k1, k2

KeyRank == [k \in Key |-> IF k = k1 THEN 0 ELSE 1]

ManagerSymmetry == Permutations(Client) \cup Permutations(Worker)
==============================================================================
