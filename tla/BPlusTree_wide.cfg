\* Calls run one at a time on height-3 trees: internal pages merge and borrow.
CONSTANTS
    Keys <- MCWideKeys
    PageIds <- MCWidePageIds
    LeafMax = 3
    InternalMax = 3
    Vals = {v1}
    INVALID <- MCInvalid
    ZeroKey = 0
    NULL = NULL
    NoRecord = NoRecord
SPECIFICATION WideSpec
VIEW TreeView
CONSTRAINT HeightThree
INVARIANTS TreeShape SearchOrder Occupancy CheckPasses
