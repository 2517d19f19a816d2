SPECIFICATION FairSpec
CONSTANTS
    Batches = {1, 2, 3}
    MaxInFlight = 2
    Lingers = TRUE
    LookupFails = TRUE
    MaxFailures = 2
    MaxBreaks = 1
INVARIANTS
    PendingHasSlot
    OutcomesAgree
PROPERTIES
    EveryBatchSettles
CHECK_DEADLOCK FALSE
