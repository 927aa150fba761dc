SPECIFICATION Spec
CONSTANTS
    NPROC = 4
    Killable = {1}
    Sleepers = {2}
    c1 = c1  c2 = c2
    CPUs = {c1, c2}
    NoCpu = NoCpu
    MaxPid = 4
INVARIANTS OneCpu WaitersInformed ParentsAlive KilledWasNamed
PROPERTY Scheduled
