SPECIFICATION Spec
CONSTANTS
    OrderIds = {o1}
    Requests = {r1, r2}
    Admins = {a1, a2}
    Dispatchers = {d1, d2}
    Carriers = {c1, c2}
    Drivers = {v1, v2}
    Brokers = {b1}
    Dates = {t1}
    PatchFields = {"orderStatus", "adminId", "carrierId", "driverId"}
    PatchStatuses = {"Transit"}
    Absent = Absent
    Idle = Idle
SYMMETRY Symmetry
INVARIANTS TypeOK ListedIffReadable EarnedStatus
PROPERTIES HandedOverByCustodian DriverStopsAtDelivery GoneForGood ImplementsLifecycle
CHECK_DEADLOCK FALSE
