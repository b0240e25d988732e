CONSTANTS
    p1 = p1
    p2 = p2
    a = a
    b = b
    junk = junk
    Procs <- TwoProcs
    Bytes <- OneByte
    Junk = junk
    Sizes <- SmallSizes
    DefaultSize = 2
    MaxSize = 2
    MaxCount = 1
    Modes <- ReadOrWrite
    Signalled <- First
    AsyncReaders <- Nobody
    Pollers <- Nobody
    LateOpen = FALSE
    LateResize = TRUE
SPECIFICATION FairSpec
CHECK_DEADLOCK FALSE
PROPERTIES
    SleepersServed PromptCallsReturn
INVARIANTS
    NoLostWriterWakeup NoMutualSleep
