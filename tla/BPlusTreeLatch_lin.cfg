CONSTANTS
    Keys <- MCLinKeys
    Vals = {v1}
    PageIds <- MCPageIds
    LeafMax = 3
    InternalMax = 3
    INVALID <- MCInvalid
    ZeroKey = 0
    NULL = NULL
    NoRecord = NoRecord
    Threads = {t1, t2}
    MaxCalls = 2
    Starts <- MCLinStarts
    CallOps = {"GetValue", "Insert", "Remove"}


SPECIFICATION Spec

PROPERTIES
    Linearizable
