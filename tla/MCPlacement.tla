---------------------------- MODULE MCPlacement ----------------------------
(* Values for TLC: nodes of 10 GB, one of them with a lowered reserve.     *)
EXTENDS Placement, TLC

MCTotalMemory == [n \in Nodes |-> 10]
MCMemoryReserve == [n \in Nodes |-> IF n = CHOOSE m \in Nodes : TRUE THEN 15 ELSE 30]

Symmetry == Permutations(OperationIds)
=============================================================================
