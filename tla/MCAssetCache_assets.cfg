SPECIFICATION Spec
CONSTANTS
    Kinds <- AllKinds
    Users = {u1, u2}
    Ids = {i1, i2}
    MaxOps = 4
    None = None
INVARIANT CacheIsRight
PROPERTIES NamesStay LoadEnds
CHECK_DEADLOCK FALSE
