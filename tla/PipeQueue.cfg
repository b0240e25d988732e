CONSTANTS
    p1 = p1
    p2 = p2
    a = a
    b = b
    junk = junk
    Procs <- TwoProcs
    Bytes <- TwoBytes
    Junk = junk
    Sizes <- OneAndThree
    DefaultSize = 3
    MaxSize = 3
    MaxCount = 2
    Modes <- ReadOrWrite
    Signalled <- Nobody
    AsyncReaders <- Nobody
    Pollers <- Nobody
    LateOpen = TRUE
    LateResize = FALSE
SPECIFICATION Spec
CHECK_DEADLOCK FALSE
PROPERTIES
    PipeIsQueue

    
