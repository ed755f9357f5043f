\* One create whose finish is applied while none of its attempts is answered.
SPECIFICATION SiteSpec
CONSTANTS
    InstanceIds = {i1}
    OperationIds = {o1}
    ClusterIds = {c1}
    Plans = {1, 2}
    Upgrades <- MCUpgrades
    Vmids = {v1}
    NoInstance = NoInstance
    NoCluster = NoCluster
    NoPlan = NoPlan
    NoOperation = NoOperation
    NoVmid = NoVmid
    Housekeeper = c1
    Intents = {"create"}
    Faults = {"answer_lost", "gives_up"}
PROPERTY DestroysNoLiveGuest
