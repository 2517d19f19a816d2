SPECIFICATION FairSpec
CONSTANTS
    Batches = {1, 2}
    MaxInFlight = 2
    Lingers = FALSE
    LookupFails = TRUE
    MaxFailures = 1
    MaxBreaks = 0
PROPERTIES
    ConflictReconnects
CHECK_DEADLOCK FALSE
