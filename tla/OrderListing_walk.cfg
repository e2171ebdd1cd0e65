SPECIFICATION WalkSpec
CONSTANTS
    N = 5
    PageSize = 2
    MaxChanges = 2
INVARIANTS OnceEach NothingSkipped
PROPERTIES WalkEnds
CHECK_DEADLOCK FALSE
