CONSTANTS
    ParentTasks = {root, child}
    Specialists = {a, b, c}
    Generations = {1}
    Results = {r1, r2}
    MaxDepth = 2
    MaxChildren = 1
    MaxTotal = 2
SPECIFICATION StoreSpec
SYMMETRY Symmetry
INVARIANTS
    StoreTypeOK
    GlobalCap
    ConcurrencyCap
    RootIsAuthentic
PROPERTIES
    TerminalIsFinal
CHECK_DEADLOCK FALSE
