SPECIFICATION FairSpec
CONSTANTS
    Index = {i1, i2}
    NativeWriters = {n1}
    HecWriters = {h1}
    Readers = {r1}
    MaxWrites = 2
    MaxFaults = 1
    MaxCrashes = 1
    None = None
PROPERTIES
    CompletionIsProven
    RowsSurviveReaders
    DeletionCompletes
CHECK_DEADLOCK FALSE
