\* Two instances whose operations compete for one worker, one vmid (so a clone
\* may find none free), failing Proxmox calls, killed runs, lost answers.  No
\* symmetry: it is not sound for liveness.  The faults after which the worker
\* cannot know that it has cloned a guest are left out, for NoOrphanGuest.
SPECIFICATION FairSpec
CONSTANTS
    InstanceIds = {i1, i2}
    OperationIds = {o1, o2, o3}
    ClusterIds = {c1}
    Plans = {1, 2}
    Upgrades <- MCUpgrades
    Vmids = {v1}
    NoInstance = NoInstance
    NoCluster = NoCluster
    NoPlan = NoPlan
    NoOperation = NoOperation
    NoVmid = NoVmid
    Housekeeper = c1
    Intents = {"create", "resize", "delete"}
    Faults = {"proxmox_error", "answer_lost", "gives_up", "crash"}
INVARIANTS NoOrphanGuest
PROPERTIES PlacedOperationsEnd
