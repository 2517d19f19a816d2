SPECIFICATION Spec
CONSTANTS
    c1 = c1
    Client = {c1}
    Previewers = {c1}
    EpochBases <- EitherWay
    MaxReplay = 4
    MaxQueue = 4
    MaxFailures = 1
    Endings = {"done", "failed"}
    Faults = {"get", "store", "drop", "evict", "restart"}
    MaxFaults = 3
    MaxRows = 1
    EpochSize = 14
    Void = Void
    None = None
INVARIANTS
    TypeOK
    CheckpointIsTrue
    TerminalClearsRows
CHECK_DEADLOCK FALSE
