SPECIFICATION FairSpec
CONSTANTS
    c1 = c1
    Client = {c1}
    Previewers = {c1}
    EpochBases <- EitherWay
    MaxReplay = 3
    MaxQueue = 3
    MaxFailures = 1
    Endings = {"done"}
    Faults = {"get", "store", "omit", "drop", "evict", "restart"}
    MaxFaults = 2
    MaxRows = 1
    EpochSize = 9
    Void = Void
    None = None
INVARIANTS
    CheckpointIsTrue
PROPERTIES
    NoRowsAfterInvalidation
    EveryoneLearns
CHECK_DEADLOCK FALSE
