SPECIFICATION Spec
CONSTANTS
    Requests = {r1, r2}
    NewDtos <- BothDtos
    Sends <- EverySend
    DriverRecords <- OneDriver
    TruckRecords <- OneTruck
    AdminRecords <- SomeAdmins
    Idle = Idle
    Unread = Unread
SYMMETRY Symmetry
INVARIANTS TypeOK PaymentsAreOneSplit
PROPERTIES UndisturbedRecalcRepairs InputsKeepTheirWriter
