SPECIFICATION Spec
CONSTANTS
    p1 = p1  p2 = p2  p3 = p3
    Procs = {p1, p2, p3}
    b1 = b1  b2 = b2  b3 = b3
    Blocks = {b1, b2, b3}
    Vals = {0, 1}
    InitDisk <- ZeroDisk
    NoBlock = NoBlock
    LOGSIZE = 6
    MAXOPBLOCKS = 3
    NLOG = 6
    OpBlocks = 2
    MaxCrashes = 2
SYMMETRY Symmetry
INVARIANTS DurableWhenIdle  NoLostWakeup
PROPERTY ImplementsAtomicDisk
