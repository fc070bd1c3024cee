SPECIFICATION ChainSpec
CONSTANTS
    Appender = {a1}
    MaxTime = 3
CHECK_DEADLOCK FALSE
INVARIANT
    ChainValidates
