SPECIFICATION Spec
CONSTANTS
    p1 = p1  p2 = p2
    Procs = {p1, p2}
    NoProc = NoProc
    n1 = n1  n2 = n2  n3 = n3
    Blocks = {n1, n2, n3}
    NoBlock = NoBlock
    Vals = {0, 1}
    NBUF = 2
    MaxPinned = 1
INVARIANTS OneCopy SleepersWaitForSomething
PROPERTIES ImplementsBlockStore Served
CHECK_DEADLOCK FALSE
