SPECIFICATION SideSpec
CONSTANTS
    Appender = {a1, a2}
    MaxTime = 3
    Clocker = {s1, s2}
    MaxCalls = 3
    MaxPeriods = 3
    Delivery = {d1, d2}
    MaxAttempts = 2
    DisableAfter = 2
    WorkerSlots = 2
    MaxDeaths = 1
    MaxSwitches = 1
    SetupEntity = {team}
    OperationalEntity = {absence}
    RowsPerEntity = 1
    ImportAdmin = {m1}
    Attempts = 2
    MaxTrouble = 1
    Joiner = {u1, u2}
    JoinCall = {j1, j2}
    Review = {v1, v2}
    MaxLimit = 2
    MaxInviteCalls = 3
    Worker = {w1, w2}
    ShiftCall = {c1, c2}
    MaxShiftCalls = 3
    Subscription = {b1, b2}
    BillingCall = {k1, k2}
    HourlyJob = hourly
    MaxSeats = 2
    MaxEvents = 3
    MaxMoves = 2
    MaxBillingTrouble = 1
CHECK_DEADLOCK FALSE
INVARIANTS
    SideTypeOK
    UndisturbedChainValidates
    OneOpenUnderLock
    ActiveHasNoEnd
    UnapprovedNeverCounts
    SettledPeriodsSound
    FailedAfterAllAttempts
    CommittedOnce
    CompletedLeavesNothing
    UsesAddUp
    SettledAgree
    AccessFollowsStripe
PROPERTIES
    DeliveriesAsPromised
    OperationalAfterSetup
    EveryQueuedDeliveryEnds
    EveryImportEnds
    SeatsSettle
