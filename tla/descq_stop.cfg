SPECIFICATION Spec
CONSTANTS
    r1 = r1
    r2 = r2
    r3 = r3
    r4 = r4
    Svc = Svc
    Stp = Stp
    Nobody = Nobody
    Req = {r1, r2, r3}
    NDesc <- MCNDesc
    RngSz = 3
    Modes = {"POLL", "INTR"}
    Sync = {}
    Timed = {}
    BatchSeq <- NoBatch
    Shared = FALSE
    MapMayFail = FALSE
    HwInTime = TRUE
    MaxStart = 2
    MaxStop = 2
CHECK_DEADLOCK FALSE
INVARIANTS
    TypeOK
    RingAccounting
    CreditAccounting
    NoEarlyCompletion
    StatusPageMapped
    WorkReqPendCounts
PROPERTIES
    AnsweredOnce
    NoDmaAfterAnswer
    StopQuiesces
