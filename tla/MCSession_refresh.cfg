SPECIFICATION Spec
CONSTANTS
    Users = {u1, u2}
    Calls = {c1, c2, c3}
    MaxTokens = 3
    None = None
    Idle = Idle
INVARIANTS SessionIsWhole RetryIsNew FlagHasOwner
PROPERTIES WaitersEnd
