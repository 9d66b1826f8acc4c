SPECIFICATION FairSpec
CONSTANTS
    r1 = r1
    r2 = r2
    r3 = r3
    r4 = r4
    Svc = Svc
    Stp = Stp
    Nobody = Nobody
    Req = {r1, r3}
    NDesc <- MCNDesc
    RngSz = 3
    Modes = {"POLL", "INTR"}
    Sync = {r1}
    Timed = {}
    BatchSeq <- NoBatch
    Shared = FALSE
    MapMayFail = TRUE
    HwInTime = TRUE
    MaxStart = 1
    MaxStop = 1
CHECK_DEADLOCK FALSE
PROPERTIES
    EveryRequestAnswered
    StopEnds
