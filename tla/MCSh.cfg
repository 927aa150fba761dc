SPECIFICATION Spec
CONSTANTS
    Words = {"cat", "echo", "dups", "x"}
    Existing = {"cat", "echo", "dups"}
    MAXARGS = 3
    NPROC = 6
    NFILE = 5
    NOFILE = 5
    NPipes = 2
    PIPESIZE = 1
    Echoed = 2
    MaxLines = 1
    MaxLength = 3
    Lines <- MCLines
INVARIANTS FilesCounted ParsedRight
PROPERTY PromptReturns

\* Nobody has to type.
CHECK_DEADLOCK FALSE
