SPECIFICATION Spec
CONSTANTS
    r1 = r1
    r2 = r2
    r3 = r3
    r4 = r4
    Svc = Svc
    Stp = Stp
    Nobody = Nobody
    Req = {r1, r2, r3, r4}
    NDesc <- MCNDesc
    RngSz = 3
    Modes = {"POLL", "INTR"}
    Sync = {r1, r3}
    Timed = {r3}
    BatchSeq <- TwoBatch
    Shared = TRUE
    MapMayFail = FALSE
    HwInTime = TRUE
    MaxStart = 1
    MaxStop = 0
CHECK_DEADLOCK FALSE
INVARIANTS
    NoDanglingRequest
