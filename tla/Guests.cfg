\* Two customers, two vmids that guests use in turn, a pool of one.
SPECIFICATION Spec
CONSTANTS
    InstanceIds = {i1, i2}
    Vmids = {1, 2}
    MaxGuests = 2
    Target = 1
    NoInstance = NoInstance
    NoVmid = 0
    Faults = {"proxmox_error", "record_lost", "answer_lost", "crash"}
INVARIANTS TypeOK
PROPERTIES OwnedByOne ReapsWhatWasApproved StrayIsReported ApprovedIsReaped
