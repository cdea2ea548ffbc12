SPECIFICATION FairSpec
CHECK_DEADLOCK FALSE
CONSTANTS
    Hops = {"hmi", "historian", "idmz"}
    UnhealthyAfter = 2
    Depth = 2
    LastTime = 2
    MaxRuns = 2
    MaxLosses = 1
    MaxRestarts = 1
    None = None
INVARIANTS
    ChainTypeOK
    ArchiveIsOrdered
PROPERTIES
    ViewsNeverGoBack
    ViewsCatchUp
