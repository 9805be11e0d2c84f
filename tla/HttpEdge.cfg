SPECIFICATION EdgeSpec
CONSTANTS
    p1 = p1
    svc = svc
    c1 = c1
    m1 = m1
    first = first
    retry = retry
    wrong = wrong
    Procs = {p1}
    Publishers = {p1}
    ServiceOf <- OneService
    Consumers = {c1}
    MsgIds = {m1}
    NoMsgId = NoMsgId
    Nobody = Nobody
    MaxDeliver = 2
    Batch = 2
    MaxPublish = 2
    MaxEvents = 2
    MaxEpoch = 2
    Requests = {first, retry, wrong}
    Valid = {first, retry}
    KeyOf <- MCKeyOf
    NoRequest = NoRequest
INVARIANTS
    AcceptedIsStored
    PostedAgainForCause
    AckedIsReported
    RetryIsOneEvent
    ReturnedIdsAreReal
