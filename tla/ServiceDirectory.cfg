SPECIFICATION FairSpec
CONSTANTS
    s1 = s1
    p1 = p1
    Services = {s1}
    Publishers = {p1}
    TTL = 3
    IndexLag = TRUE
    CaughtUp = CaughtUp
    MaxEpoch = 2
    MaxQueue = 3
INVARIANTS
    TypeOK
    CacheFollows
    StaysRegistered
PROPERTIES
    RegistrationHeals
    DeadIsForgotten
