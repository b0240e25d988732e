CONSTANTS
    p1 = p1
    p2 = p2
    n1 = n1
    n2 = n2
    n3 = n3
    NULL = NULL
    Procs <- Two
    Nodes <- ThreeNodes
    Numbers <- ThreeNumbers
    Counts <- ZeroOrOne
    Openers <- FirstOnly
    Closable <- FrontOrMiddle
    IdleCloses = TRUE
SPECIFICATION EventSpec
CHECK_DEADLOCK FALSE
INVARIANTS
      CountsWaiters
PROPERTIES
    ListIsTable
