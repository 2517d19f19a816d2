SPECIFICATION Spec
CHECK_DEADLOCK FALSE
CONSTANTS
    c1 = c1
    Client = {c1}
    Previewers = {}
    EpochBases <- Once
    MaxReplay = 3
    MaxQueue = 9
    MaxFailures = 1
    Endings = {"done"}
    Faults = {"poll", "drop"}
    MaxFaults = 2
    MaxRows = 1
    EpochSize = 12
    Void = Void
    None = None
INVARIANTS
    SuspensionIsRecovered
