CONSTANTS
    Keys <- MCKeys
    Vals = {v1}
    PageIds <- MCPageIds
    LeafMax = 3
    InternalMax = 3
    INVALID <- MCInvalid
    ZeroKey = 0
    NULL = NULL
    NoRecord = NoRecord

SPECIFICATION Spec

INVARIANTS
    TypeOK
    TreeShape
    SearchOrder
    Occupancy
    LeafChain
    CheckPasses

VIEW TreeView

