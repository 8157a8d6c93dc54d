\* Leaves of capacity 5: an underfull leaf borrows from a full sibling.
CONSTANTS
    Keys <- MCKeys
    PageIds <- MCPageIds
    LeafMax = 5
    InternalMax = 3
    Vals = {v1}
    INVALID <- MCInvalid
    ZeroKey = 0
    NULL = NULL
    NoRecord = NoRecord
SPECIFICATION Spec
INVARIANTS SearchOrder
PROPERTIES IndexRefinement
