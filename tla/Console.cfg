\* One SSH key, a create and two more operations, two submits, two polls at a
\* time; two kills, key changes or reloads.
SPECIFICATION Spec
CONSTANTS
    KeyIds = {k1}
    Kinds = {"resize", "snapshot"}
    MaxOperations = 3
    MaxEvents = 2
    MaxSubmits = 2
    MaxPolls = 2
    Faults = {"teardown_fails"}
INVARIANTS TypeOK VmStartable LeftoversFindable RevealedPasswordWorks ResizeTakesEffect
PROPERTIES PageCatchesUp KeysSettle
