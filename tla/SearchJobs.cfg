SPECIFICATION FairSpec
CONSTANTS
    j1 = j1
    j2 = j2
    j3 = j3
    q1 = q1
    None = None
    Job = {j1, j2}
    Reports = {j1}
    Request <- NoRequest
    Workers = {w1}
    Readers = {r1}
    MaxJobs = 2
    MaxQueued = 2
    MaxLeases = 1
    Limits <- TwoLimits
    MaxUpsets = 1
INVARIANTS
    PublicationBarrier
    RecordsAgree
    ManagerIsSound
PROPERTIES
    AdmittedSettles
CHECK_DEADLOCK FALSE
