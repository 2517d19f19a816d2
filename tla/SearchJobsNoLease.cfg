SPECIFICATION FairSpec
CONSTANTS
    j1 = j1
    j2 = j2
    j3 = j3
    q1 = q1
    None = None
    Job = {j1, j2}
    Reports = {}
    Request <- NoRequest
    Workers = {w1}
    Readers = {r1}
    MaxJobs = 2
    MaxQueued = 2
    MaxLeases = 1
    Limits <- OneLimit
    MaxUpsets = 0
PROPERTIES
    NoneLeftQueued
CHECK_DEADLOCK FALSE
