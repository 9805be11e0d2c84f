SPECIFICATION FairSpec
CONSTANTS
    r1 = r1
    r2 = r2
    k1 = k1
    Requests = {r1, r2}
    KeyOf <- SharedKey
    NoKey = NoKey
    None = None
    WatcherFaults = TRUE
    MaxReplies = 2
    MaxStarts = 2
CHECK_DEADLOCK FALSE
PROPERTY
    EveryReplyAcked
