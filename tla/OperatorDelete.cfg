\* Nothing fails: one create and one delete requested by a platform operator.
SPECIFICATION SiteSpec
CONSTANTS
    InstanceIds = {i1}
    OperationIds = {o1, o2}
    ClusterIds = {c1}
    Plans = {1, 2}
    Upgrades <- MCUpgrades
    Vmids = {v1, v2}
    NoInstance = NoInstance
    NoCluster = NoCluster
    NoPlan = NoPlan
    NoOperation = NoOperation
    NoVmid = NoVmid
    Housekeeper = c1
    Intents = {"create", "operator_delete"}
    Faults = {}
INVARIANT NoOrphanGuest
