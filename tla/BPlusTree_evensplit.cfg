\* Leaves with an even capacity.
CONSTANTS
    Keys <- MCSplitKeys
    PageIds <- MCPageIds
    LeafMax = 4
    InternalMax = 4
    Vals = {v1}
    INVALID <- MCInvalid
    ZeroKey = 0
    NULL = NULL
    NoRecord = NoRecord
SPECIFICATION Spec
PROPERTIES IndexRefinement
