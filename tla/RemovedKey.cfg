\* One SSH key, which the guest is created with and which is removed.
SPECIFICATION Spec
CONSTANTS
    KeyIds = {k1}
    Kinds = {"resize", "snapshot"}
    MaxOperations = 1
    MaxEvents = 2
    MaxSubmits = 1
    MaxPolls = 1
    Faults = {}
PROPERTIES RemovedKeyStopsWorking
