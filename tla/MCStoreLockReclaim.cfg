CONSTANTS
    Procs = {p1, p2, p3}
    NoProc = NoProc
SPECIFICATION LockSpec
INVARIANTS
    Mutex
CHECK_DEADLOCK FALSE
