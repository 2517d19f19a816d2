SPECIFICATION Spec
CHECK_DEADLOCK FALSE
CONSTANTS
    c1 = c1
    Client = {c1}
    Previewers = {c1}
    EpochBases <- Once
    MaxReplay = 3
    MaxQueue = 9
    MaxFailures = 1
    Endings = {"failed"}
    Faults = {"omit"}
    MaxFaults = 1
    MaxRows = 2
    EpochSize = 12
    Void = Void
    None = None
INVARIANTS
    TerminalClearsRows
