CONSTANTS
    Procs = {p1, p2, p3}
    NoProc = NoProc
SPECIFICATION DirSpec
INVARIANTS
    LiveOwnerKeepsLock
CHECK_DEADLOCK FALSE
