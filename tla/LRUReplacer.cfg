CONSTANTS
    Values = {v1, v2, v3}
    HEAD = HEAD
    TAIL = TAIL
    NULL = NULL

SPECIFICATION Spec

INVARIANTS
    TypeOK
    ListWellFormed

PROPERTIES
    LRURefinement
