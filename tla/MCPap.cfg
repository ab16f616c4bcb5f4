SPECIFICATION FairSpec
CONSTANTS
    MaxConns = 2
    MaxJobs = 1
    JobLen = 2
    SocketOf <- MCSockets
    RenameConns = {2}
    MaxSeq = 3
    CacheLen = 1
    MaxOut = 1
    MaxReads = 2
    MaxFaults = 1
INVARIANTS
    HeldBounded
PROPERTIES
    
    PrintReturns
CHECK_DEADLOCK FALSE
