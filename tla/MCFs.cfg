SPECIFICATION Spec
CONSTANTS
    p1 = p1  p2 = p2
    Procs = {p1, p2}
    NoProc = NoProc
    NInodes = 4
    MaxCalls = 4
    NINODE = 3
    NBlocks = 4
    NDIRECT = 1
    NINDIRECT = 1
    Names = {"a", "b"}
    Requests <- MCRequests
    Programs <- MCPrograms
INVARIANTS RefCounts CacheCoherent NamesCounted BlocksOwned FullOrOrphan
CHECK_DEADLOCK FALSE
SYMMETRY Symmetry
