SPECIFICATION FairSpec
CONSTANTS
    k1 = k1
    k2 = k2
    sA = sA
    sB = sB
    d1 = d1
    Subjects = {sA, sB}
    Callers = {k1, k2}
    Durables = {d1}
    MaxWatches = 3
    MaxBeats = 2
INVARIANTS
    CloseEndsHeartbeats
    SendsFromLoadedCache
    LeftoversTakeARace
PROPERTIES
    CloseCompletes
    PublishProgresses
