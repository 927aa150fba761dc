SPECIFICATION Spec
CONSTANTS
    r1 = r1  w1 = w1  w2 = w2
    Readers = {r1}
    Writers = {w1, w2}
    Killable = {r1, w1}
    NoProc = NoProc
    Bytes = {0, 1}
    PIPESIZE = 2
    UINTMOD = 4
    Lengths = {1, 3}
INVARIANTS NoLostWakeup NoUseAfterFree
PROPERTIES ImplementsFifo ReaderServed
