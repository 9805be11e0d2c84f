SPECIFICATION Spec
CONSTANTS
    p1 = p1
    p2 = p2
    p3 = p3
    sA = sA
    sB = sB
    Procs = {p1, p2, p3}
    ServiceOf <- TwoServices
    Nobody = Nobody
    Lifetime = 3
    MaxLate = 1
INVARIANTS
    RecentConnectIsTrusted
PROPERTY
    DecommissionedAgesOut
