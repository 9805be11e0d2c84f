SPECIFICATION CommandSpec
CONSTANTS
    f1 = f1
    Paths = {f1}
    N = 2
    Workloads <- MCWorkloads
    Root = Root
    Malformed = Malformed
    Escaping = Escaping
    Absent = Absent
    Outside = Outside
    MaxDeliver = 2
    Batch = 2
    MaxOutside = 1
    MaxStarts = 2
INVARIANTS
    AnswersAreTrue
    AckedLeavesWhole
    WritesInOrder
