SPECIFICATION Spec
CONSTANTS
    Casts = {{"Admin", "Dispatcher"}, {"Dispatcher", "Carrier"}, {"Dispatcher", "Driver"}}
    Choices = {"ReadyToPay"}
    Typing = {"status", "rates", "notes"}
    MaxOps = 5
    None = None
INVARIANT FormsAreRight
PROPERTIES NothingIsUndone SaveEnds
CHECK_DEADLOCK FALSE
