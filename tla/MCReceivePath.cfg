SPECIFICATION Spec
CONSTANTS
    Epolls = {e1, e2}
    Processes = {t1, t2}
    Count = 3
    EndOf <- MCEndOf
    HeaderUnits = 2
    Levels = 2
    Priority <- MCPriority
    Cuts <- MCCuts
    NoThread = none
    NoPackage = 0
SYMMETRY MCSymmetry
INVARIANTS
    NothingLeftBehind
    PackagesAccounted
    QueuedInOrder
PROPERTIES
    UrgentTakenFirst
CHECK_DEADLOCK FALSE
