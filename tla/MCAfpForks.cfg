\* One name, two nodes over time, fork numbers that come round after two.
SPECIFICATION Spec
CONSTANTS
    FileNames = {x}
    MaxRef = 2
    MaxPos = 1
    MaxId = 4
    Ranges <- OneRange
    MaxOpen = 2
INVARIANTS
    
    FlushMissesNothing
    ForkTableTrue
CHECK_DEADLOCK FALSE
