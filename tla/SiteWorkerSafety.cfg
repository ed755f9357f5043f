\* One cluster, two instances that compete for two vmids, three operations:
\* two creates and a delete (a vmid used again), or a create, a snapshot and a
\* restore of it.  Every fault but failure_lost, which lets an operation go on behind
\* a failed stage, and the loss of all answers of a finish (UnansweredFinish.cfg).
SPECIFICATION SiteSpec
CONSTANTS
    InstanceIds = {i1, i2}
    OperationIds = {o1, o2, o3}
    ClusterIds = {c1}
    Plans = {1, 2}
    Upgrades <- MCUpgrades
    Vmids = {v1, v2}
    NoInstance = NoInstance
    NoCluster = NoCluster
    NoPlan = NoPlan
    NoOperation = NoOperation
    NoVmid = NoVmid
    Housekeeper = c1
    Intents = {"create", "snapshot", "resize", "restore_replace", "delete"}
    Faults = {"proxmox_error", "task_unseen", "rpc_error", "record_lost", "mark_lost", "answer_lost", "ssh_wait", "crash", "clone_crash"}
SYMMETRY Symmetry
INVARIANTS SiteTypeOK LiveHasGuest SucceededPassedAll
PROPERTIES DestroysNoLiveGuest Spec
