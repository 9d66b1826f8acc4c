SPECIFICATION NetSpec
CONSTANTS
    Skb = {s1, s2}
    NoSkb = NoSkb
    PoolSize = 2
    UIntMod = 64
INVARIANT DownKeepsNoQueue
CHECK_DEADLOCK FALSE
