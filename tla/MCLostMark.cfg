SPECIFICATION Spec
CONSTANTS
    Worker = {w1}
    Caller = {c1}
    MaxMonth = 3
    HotMonths = 1
    MaxEdits = 2
    MaxFailures = 1
    None = None
CHECK_DEADLOCK FALSE
PROPERTIES
    MarkRemovedByItsRefresh
