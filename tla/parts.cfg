SPECIFICATION PartsSpec
CONSTANTS
    Handlers = {TRUE, FALSE}
    R = 6
    RC = 3
    BufSz = 2
    PktLens = {0, 3}
    ReqLens = {3, 6}
    MaxPkts = 4
    MaxReads = 2
    Budget = 2
    MayErr = TRUE
    Ring = 8
    PerPage = 2
    Span = 32
    MayFail = FALSE
    Depth = 3
    Beat <- MCBeat
    NumFlows = 2
    FifoDepth = 2
    BPB = 2
    CntMod = 8
    Sizes = {3}
    Rates = {3, 4}
    Qmax = 2
    AnyIdx = AnyIdx
    Asked = {0, 1}
    Vf = TRUE
    Faults = {"prep"}
    x = x
    y = y
    Conn = {x, y}
    Csrs <- MCCsrs
    Isn = 5
    MaxHdrs = 2
    NoPacket = NoPacket
    LastTry = 2
    Ways = 2
    Sets = 2
    Blocks = 4
    HashL <- MCHashL
    HashR <- MCHashR
    WheelSz = 8
    TickPeriod = 4
    Delay = 2
    NoEntry = NoEntry
    Entries = 3
    Qid = {0, 1}
    MaxEvents = 7
INVARIANTS
    RoundRobin
    ReadIsStream
    BuffersCovered
    WaitsForData
    WakeupNotLost
    BuffersOwn
    QueueHasOwner
    ModesAgree
    CacheConsistent
    SecondIsCrossed
    EventsPassedOn
PROPERTIES
    RetransmissionEnds
    FifoIsQueue
    PacketsWhole
    Pace
