SPECIFICATION FairSpec
CONSTANTS
    w1 = w1
    f1 = f1
    f2 = f2
    t1 = t1
    t2 = t2
    worker = worker
    admin = admin
    Submitters = {w1}
    Reconcilers = {worker, admin}
    Worker = worker
    Freezers = {f1, f2}
    Closer = Closer
    Tasks = {t1}
    NoOne = NoOne
INVARIANTS
    FreezeExcludesWriters
    NobodyIsStranded
    MaintenanceIsSafe
    NoUseAfterClose
PROPERTIES
    FreezeEnds
    CloseCompletes
CHECK_DEADLOCK FALSE
