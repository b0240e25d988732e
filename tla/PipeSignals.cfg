CONSTANTS
    p1 = p1
    p2 = p2
    a = a
    b = b
    junk = junk
    Procs <- TwoProcs
    Bytes <- OneByte
    Junk = junk
    Sizes <- SmallSizes
    DefaultSize = 2
    MaxSize = 2
    MaxCount = 1
    Modes <- ReadOrWrite
    Signalled <- TwoProcs
    AsyncReaders <- First
    Pollers <- TwoProcs
    LateOpen = TRUE
    LateResize = TRUE
SPECIFICATION Spec
CHECK_DEADLOCK FALSE
INVARIANTS
    SemaphoreBalanced AsyncOnlyOpen BufferLifetime
    NoLostReaderWakeup
