CONSTANTS
    Nodes = {1, 2}
    Net = 5
    RouterNode = 9
    DefaultProbes = 2
    OutCap = 1
    SockCap = 1
    TidMod = 2
    MaxCalls = 2
    MaxEvents = 2
    NoRange = NoRange
    NoRouter = NoRouter
SPECIFICATION MCSpec
INVARIANTS
    NodeBits
    NodesUnique
    
PROPERTIES
    CallsEnd
CHECK_DEADLOCK FALSE
