SPECIFICATION FairSpec
CONSTANTS
    Events = 5
    QueueMax = 3
    SegmentMax = 2
    BatchMax = 2
    MaxInFlight = 2
    ReservationSize = 2
    Huge = {3}
    Undecodable = {}
    Invalid = {2}
    Verdicts = {"ack"}
    RepackLimits = {1}
    SyncAlways = TRUE
    Faults = {"crash", "reclaim"}
    MaxFaults = 2
PROPERTIES
    BackpressureIsTransient
CHECK_DEADLOCK FALSE
