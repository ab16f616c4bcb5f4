SPECIFICATION FairSpec
CONSTANTS
    c1 = c1
    Clients = {c1}
    MAX_SLOTS = 2
    RETRY_INTERVAL = 1
    MAX_RETRIES = 1
    RELEASE_TIMEOUT = 3
    REPLY_CACHE_LEN = 1
    REQUEST_QUEUE_LEN = 1
    MAX_DELAY = 0
    POLL_SLACK = 0
    RESPECT_BITMAP = TRUE
    Bitmaps = {0, 1}
    Answers = {2}
    MaxTid = 2
    MaxNow = 3
INVARIANTS
    AtMostOnceUnlessEvicted
    OutcomesRight
    DroppedStaysLost
PROPERTIES
    EveryRequestResolves
CHECK_DEADLOCK FALSE
