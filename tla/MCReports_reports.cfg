SPECIFICATION ReportSpec
CONSTANTS
    N = 2
    Ids = {x, y}
    Months = {m1, m2}
    Paid <- Powers
    MaxOps = 2
    Nobody = Nobody
INVARIANT FiguresAgree
PROPERTIES HiddenAmountsStayHidden CompletedFallsOnlyThen
CHECK_DEADLOCK FALSE
