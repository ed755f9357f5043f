--------------------------- MODULE MCControlPlane ---------------------------
(* A small control plane for TLC: the ids are model values, and the largest *)
(* plan can be reached from both others, the other way round from neither.  *)
EXTENDS ControlPlane, TLC, FiniteSets

MCUpgrades == {<<p, q>> \in Plans \X Plans : p < q}

\* Instances, operations and clusters are interchangeable; plans are ordered.
Symmetry == Permutations(InstanceIds) \cup Permutations(OperationIds) \cup Permutations(ClusterIds)
=============================================================================
