SPECIFICATION FairSpec
CONSTANTS
    o1 = o1
    Orders = {o1}
    N = 2
    Malformed = Malformed
    None = None
    Outside = Outside
    MaxDeliver = 2
    Batch = 2
    MaxStarts = 2
INVARIANTS
    AckedIsPersisted
    NoRetryNoReorder
    MirrorConverges
PROPERTIES
    EveryChangePublished
    StopCompletes
