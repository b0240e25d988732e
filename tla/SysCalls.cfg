\* Threads that all wait for a dead one's lock, with no faults left.
CHECK_DEADLOCK FALSE
CONSTANTS
    Uids = {0, 1, 2}
    Gids = {5, 6}
    Root = 0
    RLIMIT_NPROC = 2
    Pids = {1, 2, 3, 4}
    t1 = t1
    t2 = t2
    Threads = {t1, t2}
    MaxFaults = 2
SPECIFICATION SysSpec
INVARIANTS
     GroupInOneSession  FaultSound
PROPERTIES
    IdsNeverGained
