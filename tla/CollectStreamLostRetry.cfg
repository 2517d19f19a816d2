SPECIFICATION Spec
CONSTANTS
    Batches = {1, 2}
    MaxInFlight = 1
    Lingers = TRUE
    LookupFails = FALSE
    MaxFailures = 2
    MaxBreaks = 0
INVARIANTS
    RetainedIsResent
CHECK_DEADLOCK FALSE
