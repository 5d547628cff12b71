SPECIFICATION Spec
CONSTANTS
    t1 = t1
    t2 = t2
    Threads <- TwoThreads
    Quantity = 2
    MaxVersion = 2
    MayFail = TRUE
SYMMETRY Symmetry
INVARIANTS
    ContextsAccounted
    StaleIsFlagged
    IInv
\* Every thread idle with its whole pool lost.
CHECK_DEADLOCK FALSE
