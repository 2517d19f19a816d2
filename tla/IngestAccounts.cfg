SPECIFICATION AccountsSpec
CONSTANTS
    b1 = b1
    b2 = b2
    b3 = b3
    token = token
    rejections = rejections
    ch1 = ch1
    NoChannel = NoChannel
    Nobody = Nobody
    Stale = Stale
    NoBatch = NoBatch
    Tombstoned = {}
    SharesKey <- NoKeysShared
    PrincipalOf <- OnePrincipal
    Rows <- OneRow
    Legacy <- NoLegacy
    MaxPending = 3
    MaxPrincipalPending = 3
    MaxMembers = 2
    TargetRows = 2
    HardMaxRows = 2
    Channel <- OneChannel
    Callers = {c1}
    PruneLimit = 1
    Batches = {b1, b2, b3}
    MaxSequence = 2
    Retained = 0
    RetainedRejected = 1
    Meters = {token, rejections}
    Policies <- Rates
    Cost <- Weights
    RejectionCost <- RejectionWeights
    Hec = {b2, b3}
    MaxRequests = 2
    MaxAcks = 1
    MaxChannels = 1
    MaxTime = 1
    MaxEpoch = 2
SYMMETRY RequestSymmetry
INVARIANTS
    BillsAreRight
    RequestFollowsReservation
    AckTellsTruth
CHECK_DEADLOCK FALSE
