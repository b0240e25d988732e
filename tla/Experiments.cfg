\* The models stop where the programs do: a process whose walk destroys the
\* memory, a shell that exits, a time bound that is reached.
CHECK_DEADLOCK FALSE
CONSTANTS
    Nr = 2
    u1 = u1
    u2 = u2
    init = init
    init_task = init_task
    Users <- TwoUsers
    Parent <- Parents
    NextTask <- Ring
    MaxLines = 8
    MaxDirs = 2
    Openers <- TwoUsers
    x = x
    Bytes = {x}
    SCULL_DATA_SIZE = 2
    Lines <- ShortLines
    MaxKids = 6
    Second = 2
    Ten = 2
    MaxTime = 8
    MaxFds = 9
    MaxIntr = 3
SPECIFICATION ExperimentsSpec
INVARIANTS
    LoadSound SoloReadIsRight  NobodyStuck ReportsRight
