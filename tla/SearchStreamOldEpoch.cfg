SPECIFICATION Spec
CHECK_DEADLOCK FALSE
CONSTANTS
    c1 = c1
    c2 = c2
    Client = {c1, c2}
    Previewers = {}
    EpochBases <- Downward
    MaxReplay = 2
    MaxQueue = 9
    MaxFailures = 2
    Endings = {"done"}
    Faults = {"drop", "evict"}
    MaxFaults = 2
    MaxRows = 0
    EpochSize = 12
    Void = Void
    None = None
INVARIANTS
    ResyncIsAccepted
