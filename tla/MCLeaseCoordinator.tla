------------------------- MODULE MCLeaseCoordinator -------------------------
(* Instances of LeaseCoordinator for TLC. *)
EXTENDS LeaseCoordinator, TLC

CONSTANTS w1, w2, k1, k2

OneRank == [k \in Key |-> 0]
TwoRanks == [k \in Key |-> IF k = k1 THEN 0 ELSE 1]

WorkerSymmetry == Permutations(Worker)
\* lastWrite is a history variable that no guard reads: runs that check no
\* property of it need not tell states apart by it.
NoHistory == <<now, table, orphans, renewerVars, takerVars, controlVars>>
==============================================================================
