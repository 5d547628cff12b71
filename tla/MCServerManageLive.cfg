SPECIFICATION FairSpec
CONSTANTS
    w1 = w1
    w2 = w2
    w3 = w3
    c1 = c1
    c2 = c2
    Manager = manager
    NoConn = noConn
    Configs <- MCConfigs
    NoConfig = noConfig
    EmptyConfig <- Plain
    Workers = {w2, w3}
    Conns = {c1, c2}
    TemplateIds = {1, 2, 3}
    MaxReplicas = 1
    MaxEdits = 0
    Mode <- MCMode
    Targets <- MCTargets
    InitialStore <- OneOfEach
PROPERTIES VacancyIsFilled DeadReplicaIsReleased
CHECK_DEADLOCK FALSE
