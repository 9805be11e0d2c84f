SPECIFICATION FairSpec
CONSTANTS
    f1 = f1
    Paths = {f1}
    N = 1
    Workloads <- MCWorkloads
    Root = Root
    Malformed = Malformed
    Escaping = Escaping
    Absent = Absent
    Outside = Outside
    MaxDeliver = 1
    Batch = 2
    MaxOutside = 2
    MaxStarts = 2
    StableReads = 2
INVARIANT
    OwnWriteNotAnnounced
