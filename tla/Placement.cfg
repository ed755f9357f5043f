\* Two nodes of 10 GB, plans of 1 and 6 GB: one of each leaves exactly the
\* reserve of 30 percent, so what is placed depends on every hold and guest.
\* Windows of 0, 1 and 1 minutes: placement takes a snapshot of this minute,
\* admission also one of the last, and a hold may expire before, during and
\* after the work it was made for.
SPECIFICATION Spec
CONSTANTS
    OperationIds = {o1, o2, o3}
    Nodes = {n1, n2}
    PlanMemory = {1, 6}
    TotalMemory <- MCTotalMemory
    MemoryReserve <- MCMemoryReserve
    FreshnessWindow = 0
    AdmissionWindow = 1
    HoldWindow = 1
    NoNode = NoNode
    NoOperation = NoOperation
SYMMETRY Symmetry
INVARIANTS TypeOK PlaceableIsAdmitted
PROPERTY PlacementFits
