SPECIFICATION AccountsSpec
CONSTANTS
    b1 = b1
    b2 = b2
    b3 = b3
    token = token
    rejections = rejections
    ch1 = ch1
    NoChannel = NoChannel
    Nobody = Nobody
    Stale = Stale
    NoBatch = NoBatch
    Tombstoned = {}
    SharesKey <- NoKeysShared
    PrincipalOf <- OnePrincipal
    Rows <- OneRow
    Legacy <- NoLegacy
    MaxPending = 3
    MaxPrincipalPending = 3
    MaxMembers = 2
    TargetRows = 2
    HardMaxRows = 2
    Channel <- OneChannel
    Callers = {c1}
    PruneLimit = 1
    Batches = {b1, b2, b3}
    MaxSequence = 3
    Retained = 0
    RetainedRejected = 1
    Meters = {}
    Policies <- Rates
    Cost <- NothingCosts
    RejectionCost <- NothingCosts
    Hec = {b1, b2, b3}
    MaxRequests = 2
    MaxAcks = 2
    MaxChannels = 1
    MaxTime = 0
    MaxEpoch = 2
INVARIANTS
    RequestFollowsReservation
    AckTellsTruth
PROPERTIES
    AckStaysTrue
CHECK_DEADLOCK FALSE
