SPECIFICATION FairSpec
CONSTANTS
    None = None
    Tick = Tick
    Alert = {a1}
    Workers = {w1}
    Users = {u1}
    Verdicts = {"true", "false", "unsure", "failed", "canceled", "expired", "interrupted"}
    Capacity = 2
    ClaimLimit = 1
    MaxHistory = 1
    MaxRuns = 2
    MaxNow = 1
    MaxUpsets = 1
INVARIANTS
    OutcomeIsTrue
    RunsAreHeld
PROPERTIES
    EveryRunEnds
CHECK_DEADLOCK FALSE
