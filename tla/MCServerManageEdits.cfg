SPECIFICATION Spec
CONSTANTS
    w1 = w1
    w2 = w2
    w3 = w3
    c1 = c1
    c2 = c2
    Manager = manager
    NoConn = noConn
    Configs <- EditConfigs
    NoConfig = noConfig
    EmptyConfig <- Plain
    Workers = {w1, w2}
    Conns = {c1, c2}
    TemplateIds = {1, 2, 3}
    MaxReplicas = 1
    MaxEdits = 2
    Mode <- MCMode
    Targets <- MCTargets
    InitialStore <- OnePlain
INVARIANTS MemoryMatchesStore IInv
CHECK_DEADLOCK FALSE
