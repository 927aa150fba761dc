SPECIFICATION Spec
CONSTANTS
    p1 = p1  p2 = p2
    Creators = {p1, p2}
    Attachers = {}
    Removers = {}
    NoProc = NoProc
    f1 = f1 f2 = f2 f3 = f3 f4 = f4
    Frames = {f1, f2, f3, f4}
    NoFrame = NoFrame
    SHMMAXSEG = 4
    Needs = {1, 2}
    Established = 0
    Private = FALSE
    MaxCalls = 1
SYMMETRY FrameSymmetry
INVARIANT SegmentsDisjoint
CHECK_DEADLOCK FALSE
