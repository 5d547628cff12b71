SPECIFICATION FairSpec
CONSTANTS
    Nodes <- MCNodes
    Templates <- MCTemplates
    Addresses <- MCAddresses
    Functions = {"f", "g"}
    Requests = {"r1"}
    ProcessThreads = {"t1", "t2"}
    TemplateOf <- MCTemplateOf
    Addr <- MCAddr
    Provides <- MCProvides
    FunctionOf <- MCFunctionOf
    Before <- MCBefore
    Mortal = {"n1"}
    Breakable = {"a"}
    Any = "*"
    Closed = "closed"
    Unconnected = "unconnected"
INVARIANTS
    DirectoryFollowsManager
    ListedIsConnected
    RequestsAccounted
PROPERTIES
    BrokerSpec
    RequestsEnd
CHECK_DEADLOCK FALSE
