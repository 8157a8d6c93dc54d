CONSTANTS
    Keys <- MCKeys
    Vals = {v1, v2}
    BucketSize = 2
    NotFound = NotFound

SPECIFICATION Spec

INVARIANTS
    TypeOK
    DirectoryConsistent

PROPERTIES
    HashRefinement
