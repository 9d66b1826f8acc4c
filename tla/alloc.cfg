SPECIFICATION Spec
CONSTANTS
    p1 = p1
    p2 = p2
    v1 = v1
    Pf = {p1, p2}
    Vf = {v1}
    Parent <- MCParent
    QBase = 0
    TotalQ = 3
    MmCmptEn = FALSE
    MaxQ = 1
CHECK_DEADLOCK FALSE
INVARIANTS
    ActiveCounts
PROPERTIES
    KeepsRanges
    FailedUpdateKeeps
