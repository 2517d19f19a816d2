SPECIFICATION FairSpec
CONSTANTS
    Index = {i1, i2}
    NativeWriters = {}
    HecWriters = {h1}
    Readers = {r1}
    MaxWrites = 2
    MaxFaults = 1
    MaxCrashes = 1
    None = None
INVARIANTS
    TypeOK
    RecordsAgree
    DeletedStaysEmpty
PROPERTIES
    KeepsPromise
    DeletionCompletes
    FreezeIsReleased
CHECK_DEADLOCK FALSE
