SPECIFICATION FairSpec
CONSTANTS
    Callers = {"c1", "c2"}
    MaxCalls = 3
INVARIANTS
    ResponsesFindTheirCall
    OutcomeIsOwn
    IInv
PROPERTIES
    CallsReturn
CHECK_DEADLOCK FALSE
