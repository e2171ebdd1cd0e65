SPECIFICATION Spec
CONSTANTS
    Roles = {"dispatcher", "admin", "carrier"}
    Users = {u1, u2}
    Dates = {month, week}
    MaxOps = 5
    None = None
INVARIANT ReportIsRight
PROPERTIES ViewShows
CHECK_DEADLOCK FALSE
