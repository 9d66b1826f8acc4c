SPECIFICATION LiveSpec
CONSTANTS
    v1 = v1
    v2 = v2
    a = a
    b = b
    c = c
    VF = {v1, v2}
    PF = PF
    Snd = {a, b, c}
    VfOf <- MCVfOf
    ReqOps = {"REQ"}
    NoMsg = NoMsg
    NoVf = NoVf
    MaxRetry = 2
    MaxSend <- MCSend
    MayExpire = {c}
    OpenFirst = {{v1}}
    Skb = {s1, s2, s3, s4}
    NoSkb = NoSkb
    PoolSize = 3
    UIntMod = 64
    ThreadCnt = 1
    Queues = {1, 2}
    StopSignals = TRUE
INVARIANTS
    ContextHeldOnce
    SkbHeldOnce
    RefusedOnlyBehindBacklog
    
    AnswerIsOwn
    AnswerFindsRequest
    ParentKnowsOnline
PROPERTIES
    EverySkbFreed
    RequestAnswered
    NoWakeupLost
