SPECIFICATION Spec
CONSTANTS
    Index = {i1}
    NativeWriters = {n1}
    HecWriters = {}
    Readers = {r1}
    MaxWrites = 1
    MaxFaults = 0
    MaxCrashes = 0
    None = None
INVARIANTS
    DeletedStaysEmpty
CHECK_DEADLOCK FALSE
