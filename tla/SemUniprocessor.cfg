CONSTANTS
    p1 = p1
    p2 = p2
    p3 = p3
    p4 = p4
    p5 = p5
    Procs <- Five
    InitCount = 2
    Preempt = FALSE
    Interrupted <- Nobody
    Strays <- Nobody
SPECIFICATION SemFairSpec
INVARIANTS
    CountAccounts Exclusion NoLostSignal
PROPERTIES
    WaitersServed
