CONSTANTS
    Keys <- MCDeepKeys
    Vals = {v1}
    PageIds <- MCDeepPageIds
    LeafMax = 3
    InternalMax = 3
    INVALID <- MCInvalid
    ZeroKey = 0
    NULL = NULL
    NoRecord = NoRecord
    Threads = {t1, t2}
    MaxCalls = 1
    Starts <- MCLiveStarts
    CallOps = {"GetValue", "Insert", "Remove", "Begin", "BeginAt"}


SPECIFICATION FairSpec

INVARIANTS
    IteratorYieldsKeysFrom

PROPERTIES
    CallsReturn
