CONSTANTS
    p1 = p1
    p2 = p2
    p3 = p3
    p4 = p4
    Procs <- Four
    Preempt = FALSE
    Interrupted <- Four
SPECIFICATION AtomFairSpec
INVARIANTS
    NoLostSignal AtomTypeOK AtomExclusion
PROPERTIES
    SomeoneServed
