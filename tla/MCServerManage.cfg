SPECIFICATION Spec
CONSTANTS
    w1 = w1
    w2 = w2
    w3 = w3
    c1 = c1
    c2 = c2
    Manager = manager
    NoConn = noConn
    Configs <- MCConfigs
    NoConfig = noConfig
    EmptyConfig <- Plain
    Workers = {w1, w2, w3}
    Conns = {c1, c2}
    TemplateIds = {1, 2, 3}
    MaxReplicas = 2
    MaxEdits = 0
    Mode <- MCMode
    Targets <- MCTargets
    InitialStore <- TwoData
INVARIANTS CreatedAreAccounted
PROPERTIES DeparturesAreAnnounced VacancyIsOffered
CHECK_DEADLOCK FALSE
