\* Two calls from a height-3 tree where two Removes rebalance at once.
CONSTANTS
    Keys <- MCSafetyKeys
    Vals = {v1}
    PageIds <- MCDeepPageIds
    LeafMax = 3
    InternalMax = 3
    INVALID <- MCInvalid
    ZeroKey = 0
    NULL = NULL
    NoRecord = NoRecord
    Threads = {t1, t2}
    MaxCalls = 1
    Starts <- MCDeleteStarts
    CallOps = {"GetValue", "Insert", "Remove", "Begin", "BeginAt"}

SPECIFICATION FairSpec

INVARIANTS
    RebalanceParentHeld

PROPERTIES
    CallsReturn
