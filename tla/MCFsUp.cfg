SPECIFICATION Spec
CONSTANTS
    p1 = p1
    Procs = {p1}
    NoProc = NoProc
    NInodes = 3
    MaxCalls = 6
    NINODE = 3
    NBlocks = 3
    NDIRECT = 1
    NINDIRECT = 0
    Names = {"a", "b"}
    Requests <- UpRequests
    Programs <- NoPrograms
INVARIANTS OnlyWhenFull
CHECK_DEADLOCK FALSE
