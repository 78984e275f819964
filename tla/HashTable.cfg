SPECIFICATION Spec
CONSTANTS
    Key = {0, 1, 2, 4, 8}
    Val = {v1, v2, v3, v4, v5}
    NoKey = nokey
    hash_func <- MCHash
    HASH_TABLE_INIT_CAP = 2
    CapArgs = {0, 3}
    MaxCap = 4
INVARIANTS
    TableInv
    OwnedStored
PROPERTY
    ImplementsMap
SYMMETRY ValSymmetry
