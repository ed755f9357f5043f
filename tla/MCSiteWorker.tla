---------------------------- MODULE MCSiteWorker ----------------------------
(* Small sites for TLC. *)
EXTENDS SiteWorker, TLC, FiniteSets

MCUpgrades == {<<p, q>> \in Plans \X Plans : p < q}

Symmetry == Permutations(InstanceIds) \cup Permutations(OperationIds) \cup Permutations(Vmids)
=============================================================================
