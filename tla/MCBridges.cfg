SPECIFICATION Spec
CONSTANTS
    Drivers = {"m", "n"}
    NoDriver = none
    Scripts <- MCScripts
    SinkKinds = {"forward", "save"}
    MaxSeq = 3
    CacheLen = 1
    MaxReads = 2
    MaxFaults = 1
    Services = {"p", "q"}
    Uris = {"u", "v"}
    Down = down
    None = nothing
    MaxSuffix = 2
    MaxEvents = 3
    Devices = {s, i}
    StyleWriters = {s}
    ImageWriters = {i}
    Jobs = {1, 2}
    MaxRounds = 1
INVARIANTS
    JobsWhole
    AnswersInOrder
    Offered
    PublishedRight
CHECK_DEADLOCK FALSE
