SPECIFICATION FairSpec
CONSTANTS
    h1 = h1
    h2 = h2
    w1 = w1
    w2 = w2
    Settings <- BothSettings
    Workers = {w1}
    MaxEvents = 3
INVARIANTS
    ModuleClosedOnce
    ServingMeansUp
PROPERTIES
    CancelledStartEnds
    StopEndsRun
\* A service that nobody asks to stop waits forever, and main returns.
CHECK_DEADLOCK FALSE
