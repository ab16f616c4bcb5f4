SPECIFICATION FairSpec
CONSTANTS
    Us = us
    Peer = peer
    TxSlots = 2
    RxSlots = 2
    Wrap = 4
    StackCap = 1
    LineCap = 4
    MaxAttempts = 1
    MaxEvents = 3
    Names = {n1, n2}
    Roles = {"stylewriter", "imagewriter"}
    DefaultName = n1
    DefaultRole = "stylewriter"
INVARIANTS
    SavesHarmless
    FramesInOrder
    
PROPERTIES
    QueuesDrain
CHECK_DEADLOCK FALSE
