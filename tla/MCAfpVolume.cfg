SPECIFICATION MCSpec
CONSTANTS
    Sessions = {s, t}
    Names = {x, y}
    Tags = {a}
    MaxDepth = 2
    MaxNodes = 3
    MaxObj = 3
    MaxNotes = 1
    Together = 2
SYMMETRY Alike
INVARIANTS
    MemoryTrue
PROPERTIES
    
    AllFollows
CHECK_DEADLOCK FALSE
