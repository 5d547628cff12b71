SPECIFICATION Spec
CONSTANTS
    Scripts = {s1, s2}
    Threads = {t1, t2}
    Databases = {x, y}
    MaxId = 3
    MaxRestarts = 1
    NoDatabase = nodb
    NoScript = nobody
SYMMETRY MCSymmetry
INVARIANTS
    SessionMeansDatabase
    QueriesHitTheirDatabase
CHECK_DEADLOCK FALSE
