SPECIFICATION Spec
CONSTANTS
    Events = 4
    QueueMax = 2
    SegmentMax = 2
    BatchMax = 2
    MaxInFlight = 2
    ReservationSize = 2
    Huge = {4}
    Undecodable = {3}
    Invalid = {1}
    Verdicts = {"ack", "repack"}
    RepackLimits = {1}
    SyncAlways = TRUE
    Faults = {"repack"}
    MaxFaults = 1
PROPERTIES
    ImplementsSource
CHECK_DEADLOCK FALSE
