SPECIFICATION TableSpec
CONSTANTS
    Qmax = 4
    AnyIdx = AnyIdx
    Asked = {AnyIdx}
    Vf = FALSE
    Faults = {}
INVARIANT QueueHasOwner
CHECK_DEADLOCK FALSE
