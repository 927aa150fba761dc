SPECIFICATION Spec
CONSTANTS
    p1 = p1  p2 = p2  p3 = p3
    Creators = {p3}
    Attachers = {p1, p2}
    Removers = {p3}
    NoProc = NoProc
    f1 = f1 f2 = f2 f3 = f3 f4 = f4
    Frames = {f1, f2, f3, f4}
    NoFrame = NoFrame
    SHMMAXSEG = 4
    Needs = {1, 2}
    Established = 2
    Private = TRUE
    MaxCalls = 3
INVARIANT NattchExact
PROPERTY LockReleased
CHECK_DEADLOCK FALSE
