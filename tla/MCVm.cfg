SPECIFICATION Spec
CONSTANTS
    NPROC = 3
    NFrames = 16
    PGSIZE = 2
    NPTENTRIES = 2
    HEAPLIMIT = 10
    UINTMOD = 32
    NKPT = 1
    MaxCalls = 4
    Deltas <- MCDeltas
    Images <- MCImages
INVARIANTS FramesConserved SizesTrue

\* The calls run out, init then waits.
CHECK_DEADLOCK FALSE
