SPECIFICATION LedgerSpec
CONSTANTS
    b1 = b1
    b2 = b2
    b3 = b3
    c1 = c1
    c2 = c2
    Batches = {b1, b2, b3}
    Callers = {c1, c2}
    Nobody = Nobody
    Stale = Stale
    NoBatch = NoBatch
    Tombstoned = {}
    SharesKey <- MCSharesKey
    PrincipalOf <- MCPrincipalOf
    Rows <- MCRows
    Legacy <- NoLegacy
    MaxSequence = 4
    MaxPending = 3
    MaxPrincipalPending = 2
    MaxMembers = 2
    TargetRows = 3
    HardMaxRows = 3
    Retained = 1
    RetainedRejected = 1
    PruneLimit = 1
INVARIANTS
    CutoffExact
    GroupAllOrNone
    OneOutcomePerIdentity
PROPERTIES
    AmbiguousIsReplayed
    OutcomeIsFinal
    RetryWindowKept
CHECK_DEADLOCK FALSE
