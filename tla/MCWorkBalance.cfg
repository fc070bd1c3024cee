SPECIFICATION Spec
CONSTANTS
    Worker = {w1, w2}
    Caller = {c1}
    MaxMonth = 2
    HotMonths = 1
    MaxEdits = 2
    MaxFailures = 1
    None = None
CHECK_DEADLOCK FALSE
INVARIANTS
    TypeOK
    ReadModelIsItsTiers
    BalanceIsCurrent
PROPERTIES
    HotWindowNeverOlder
    ResetEndsInFullRebuild
    EveryMarkServed
