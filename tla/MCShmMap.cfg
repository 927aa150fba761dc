SPECIFICATION Spec
CONSTANTS
    sh = sh  p = p  q = q
    Procs = {sh, p, q}
    Root = sh
    NoProc = NoProc
    f1 = f1 f2 = f2 f3 = f3 f4 = f4
    Frames = {f1, f2, f3, f4}
    NoFrame = NoFrame
    Keys <- KeysWithFree
    Sizes = {2, 3}
    SHMMAXSEG = 2
    PGSIZE = 2
    SHMMIN = 1
    PTSPAN = 2
    UINTMOD = 6
    MaxCreates = 2
    MaxOther = 1
    AtFlags = {0, 4}
    AtSlots = {1}
    SetBufs <- SomeBufs
    RemoveIds <- AllIds
    MaxStrays = 0
SYMMETRY FrameSymmetry
INVARIANT MapsSegmentPage
