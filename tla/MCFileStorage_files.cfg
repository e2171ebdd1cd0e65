SPECIFICATION Spec
CONSTANTS
    Handlers = {h1, h2}
    Keys = {k1, k2}
    Temps = {"t1", "t2"}
    Updates <- MCUpdates
    MaxRetries = 3
    MaxOps = 3
    None = None
INVARIANT FilesAreKept
PROPERTIES EveryOperationEnds
CHECK_DEADLOCK FALSE
