CONSTANTS
    p1 = p1
    p2 = p2
    p3 = p3
    p4 = p4
    root = root
    a = a
    b = b
    tty1 = tty1
    tty2 = tty2
    NoTty = NoTty
    None = None
    Procs <- Four
    Users <- AllUsers
    Root = root
    Uid <- Real
    Euid <- Effective
    Ttys <- BothTtys
    Tty <- Terminals
    Smp = TRUE
SPECIFICATION AccessSpec
INVARIANTS
    SingleOpen OneOwner NoForgottenOpener OneClonePerTerminal
