CONSTANTS
    p1 = p1
    p2 = p2
    p3 = p3
    p4 = p4
    p5 = p5
    Procs <- Three
    InitCount = 2
    Preempt = TRUE
    Interrupted <- Three
    Strays <- Three
SPECIFICATION SemSpec
CHECK_DEADLOCK FALSE
INVARIANTS
    SemTypeOK
