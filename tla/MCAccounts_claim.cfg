SPECIFICATION Spec
CONSTANTS
    Requests = {p1, p2, p3}
    Roles = {"Carrier", "Driver"}
    MaxDeaths = 1
    Temp = Temp
    Self = Self
    NoUser = NoUser
    NoProfile = NoProfile
    NoGroup = NoGroup
    NoRole = NoRole
    Idle = Idle
    NoOne = NoOne
    NoSession = NoSession
SYMMETRY Symmetry
INVARIANTS StoresAgree AccountHasAnOwner
