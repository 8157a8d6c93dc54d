CONSTANTS
    Keys <- MCSafetyKeys
    Vals = {v1}
    PageIds <- MCDeepPageIds
    LeafMax = 3
    InternalMax = 3
    INVALID <- MCInvalid
    ZeroKey = 0
    NULL = NULL
    NoRecord = NoRecord
    Threads = {t1, t2, t3}
    MaxCalls = 1
    Starts <- MCSafetyStarts
    CallOps = {"GetValue", "Insert", "Remove"}

SPECIFICATION Spec
SYMMETRY ThreadSymmetry

INVARIANTS
    RebalanceParentHeld
    QuiescentCheck

PROPERTIES
    NoForeignWrite
    RootChangedUnderLock
