CONSTANTS
    p1 = p1
    p2 = p2
    n1 = n1
    n2 = n2
    n3 = n3
    NULL = NULL
    Procs <- Two
    Nodes <- TwoNodes
    Numbers <- TwoNumbers
    Counts <- OneOnly
    Openers <- FirstOnly
    Closable <- FrontOrMiddle
    IdleCloses = FALSE
SPECIFICATION EventSpec
CHECK_DEADLOCK FALSE
INVARIANTS
    NobodyLeftBehind
