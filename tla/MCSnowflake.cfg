SPECIFICATION GeneratorFairSpec
CONSTANTS
    t1 = t1
    t2 = t2
    noThread = noThread
    Threads <- MCThreads
    NoThread <- noThread
    SequenceMask = 1
    Twepoch = 1
    StartMillis = 2
    MaxMillis = 6
    MaxIds = 7
INVARIANTS IdsStrictlyIncrease IdsNotFromTheFuture GeneratorInv
PROPERTY WaitEnds
CHECK_DEADLOCK FALSE
