SPECIFICATION Spec
CONSTANTS
    j1 = j1
    j2 = j2
    j3 = j3
    q1 = q1
    None = None
    Job = {j1, j2}
    Reports = {j1}
    Request <- NoRequest
    Workers = {w1}
    Readers = {}
    MaxJobs = 2
    MaxQueued = 2
    MaxLeases = 2
    Limits <- TwoLimits
    MaxUpsets = 2
INVARIANTS
    TypeOK
    PublicationBarrier
    RecordsAgree
    ManagerIsSound
    OneRunAtATime
PROPERTIES
    TerminalStays
CHECK_DEADLOCK FALSE
