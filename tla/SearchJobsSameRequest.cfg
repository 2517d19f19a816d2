SPECIFICATION Spec
CONSTANTS
    j1 = j1
    j2 = j2
    j3 = j3
    q1 = q1
    None = None
    Job = {j1, j2, j3}
    Reports = {}
    Request <- SameRequest
    Workers = {w1}
    Readers = {}
    MaxJobs = 2
    MaxQueued = 2
    MaxLeases = 2
    Limits <- OneLimit
    MaxUpsets = 1
INVARIANTS
    OneSearchPerRequest
    PublicationBarrier
    RecordsAgree
    ManagerIsSound
CHECK_DEADLOCK FALSE
