SPECIFICATION FairSpec
CONSTANTS
    h = h
    i = i
    Clients = {h, i}
    Kinds <- MCKinds
    Families = {"color", "sw"}
    FastClock = TRUE
    BufCap = 1
    Blocks = 2
    PortCap = 2
    MaxRounds = 1
    MaxFaults = 2
    Nobody = Nobody
INVARIANTS
    PaperFreed
    
PROPERTIES
    Released
CHECK_DEADLOCK FALSE
