SPECIFICATION EngineSpec
CONSTANTS
    x = x
    y = y
    z = z
    Conn = {x, y, z}
    Csrs <- MCCsrs
    Isn = 5
    MaxHdrs = 3
    NoPacket = NoPacket
    LastTry = 1
    Ways = 2
    Sets = 2
    Blocks = 5
    HashL <- MCHashL
    HashR <- MCHashR
    WheelSz = 8
    TickPeriod = 4
    Delay = 2
    NoEntry = NoEntry
INVARIANT OneBlockEach
