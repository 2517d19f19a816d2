SPECIFICATION FairSpec
CONSTANTS
    Events = 5
    QueueMax = 2
    SegmentMax = 2
    BatchMax = 2
    MaxInFlight = 2
    ReservationSize = 2
    Huge = {1}
    Undecodable = {3}
    Invalid = {2}
    Verdicts = {"ack", "repack"}
    RepackLimits = {1}
    SyncAlways = TRUE
    Faults = {"crash", "power", "damage", "append", "ack", "reclaim", "checkpoint", "repack", "stream", "grace"}
    MaxFaults = 2
INVARIANTS
    QueueIsSound
    StoredOnce
PROPERTIES
    ImplementsSource
    EverythingSettles
CHECK_DEADLOCK FALSE
