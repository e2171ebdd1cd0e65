SPECIFICATION TableSpec
CONSTANTS
    TableRoles = {"dispatcher", "admin", "carrier", "driver"}
    Users = {u1, u2}
    Dates = {month, week}
    Month = month
    Week = week
    Whos = {any, mine}
    Any = any
    Sizes = {1, 2}
    DefaultSize = 1
    Count <- Orders
    LastPage = 2
    MaxOps = 4
    None = None
INVARIANT RowsAreRight
PROPERTIES FiltersAgree TimeoutMeansWaiting OverlayEnds
CHECK_DEADLOCK FALSE
