CONSTANTS
    Routers = {"e", "l"}
    CableOf <- MCCableOf
    Configs <- MCConfigs
    Tuples <- MCTuples
    Clients = {c}
    Changes <- MCChanges
    GniMaxAttempts = 2
    RoutingEvents = 2
    NoSeed = NoSeed
    NoRange = NoRange
    NoRouter = NoRouter
SPECIFICATION RoutingFairSpec
INVARIANTS
    LookupFindsRoute
    DispatchAgrees
PROPERTIES
    ZonesLearned
CHECK_DEADLOCK FALSE
