SPECIFICATION Spec
CONSTANTS
    Senders = {s1, s2}
    Epolls = {e1, e2}
    Packages <- MCPackages
    Priority <- MCPriority
    Units <- MCUnits
    Big = {"c"}
    Levels = 2
    HeaderUnits = 1
    BufferUnits = 4
    Grain = 2
    Incoming <- MCBoth
SYMMETRY MCSymmetry
INVARIANTS
    WireWellFramed
    PackagesAccounted
    QueuedInOrder
    IInv
PROPERTIES
    UrgentFirst
    ChannelSpec
CHECK_DEADLOCK FALSE
