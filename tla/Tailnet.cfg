\* One member, who is an admin, one instance, two workers that the role moves
\* between, and two requests at a time.
SPECIFICATION Spec
CONSTANTS
    MemberIds = {m1}
    Admins = {m1}
    InstanceIds = {i1}
    WorkerIds = {w1, w2}
    RequestIds = {r1, r2}
    MaxKeys = 3
    MaxEvents = 3
    NoPair = NoPair
    Faults = {"request_fails", "not_revoked", "worker_fails"}
INVARIANTS TypeOK LinkHasLiveKey KeysAccounted
PROPERTIES PolicySettles
