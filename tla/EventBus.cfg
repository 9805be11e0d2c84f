SPECIFICATION FairSpec
CONSTANTS
    p1 = p1
    p2 = p2
    svc = svc
    c1 = c1
    Procs = {p1, p2}
    Publishers = {p1}
    ServiceOf <- OneService
    Consumers = {c1}
    MsgIds = {}
    NoMsgId = NoMsgId
    Nobody = Nobody
    MaxDeliver = 2
    Batch = 2
    MaxPublish = 2
    MaxEvents = 2
    MaxEpoch = 2
INVARIANTS
    TypeOK
    AckedWasHandled
    NoSilentLoss
PROPERTIES
    EverySettles
    ImplementsAtLeastOnce
