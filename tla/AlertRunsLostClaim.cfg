SPECIFICATION FairSpec
CONSTANTS
    None = None
    Tick = Tick
    Alert = {a1}
    Workers = {w1}
    Users = {u1}
    Verdicts = {"false"}
    Capacity = 2
    ClaimLimit = 1
    MaxHistory = 1
    MaxRuns = 2
    MaxNow = 1
    MaxUpsets = 1
PROPERTIES
    FailedClaimEnds
CHECK_DEADLOCK FALSE
