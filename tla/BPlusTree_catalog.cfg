\* The header record of the index across an emptied and restarted tree.
CONSTANTS
    Keys <- MCKeys
    PageIds <- MCPageIds
    LeafMax = 3
    InternalMax = 3
    Vals = {v1}
    INVALID <- MCInvalid
    ZeroKey = 0
    NULL = NULL
    NoRecord = NoRecord
SPECIFICATION Spec
INVARIANTS CatalogTracksRoot
