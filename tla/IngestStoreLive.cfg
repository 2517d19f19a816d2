SPECIFICATION FairSpec
CONSTANTS
    b1 = b1
    b2 = b2
    b3 = b3
    r1 = r1
    r2 = r2
    Worker = worker
    Batches = {b1, b2, b3}
    Requests = {r1}
    Modes = {"store"}
    Callers = {r1, worker}
    Nobody = Nobody
    Stale = Stale
    NoBatch = NoBatch
    Gap = Gap
    Tombstoned = {}
    SharesKey <- MCSharesKey
    PrincipalOf <- MCPrincipalOf
    Rows <- MCRows
    Legacy <- UpgradeLegacy
    MaxSequence = 3
    MaxPending = 2
    MaxPrincipalPending = 2
    MaxMembers = 2
    TargetRows = 2
    HardMaxRows = 2
    Retained = 1
    RetainedRejected = 1
    PruneLimit = 1
    Window = 1
    MaxFaults = 1
PROPERTIES
    PendingIsCommitted
    CallsReturn
