\* Two instances that compete for two clusters, four operations: enough for a
\* create, a snapshot, a restore of it and a delete of one instance, or for two
\* instances with a create and one more operation each.
SPECIFICATION Spec
CONSTANTS
    InstanceIds = {i1, i2}
    OperationIds = {o1, o2, o3, o4}
    ClusterIds = {c1, c2}
    Plans = {1, 2}
    Upgrades <- MCUpgrades
    NoInstance = NoInstance
    NoCluster = NoCluster
    NoPlan = NoPlan
    NoOperation = NoOperation
SYMMETRY Symmetry
INVARIANTS TypeOK NoStrandedInstance SnapshotSettled RestorePointReady HeldOnlyWhileActive RoutedToOwner
PROPERTIES DeletionIsSticky TerminalIsFinal
