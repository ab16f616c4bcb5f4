\* Two stations acquire startup addresses, move into a range of one address and look
\* each other up; one reception may be lost.
SPECIFICATION Spec
CONSTANTS
    Nodes = {a, b}
    Startup <- StartupAddrs
    NetRange <- RangeAddrs
    MaxPicks = 2
    MaxLookups = 2
    MaxLoss = 1
SYMMETRY Stations
INVARIANTS
    UniqueInRange
    CacheIsFirstHand
CHECK_DEADLOCK FALSE
