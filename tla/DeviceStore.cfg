CONSTANTS
    p1 = p1
    p2 = p2
    zero = zero
    a = a
    junk = junk
    Procs <- Two
    Data <- Bytes
    Zero = zero
    Quanta <- OneOrTwo
    Qsets <- OneOrTwo
    DefQuantum = 2
    DefQset = 1
    LateTrim = FALSE
    MaxPos = 1
    MaxCount = 2
SPECIFICATION DevSpec
INVARIANTS
    ShapeSound 

    
SYMMETRY Swaps
