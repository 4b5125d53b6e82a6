\* The exceptions whose cases end without a break.
CONSTANTS
    ULOG_MAX_SUBSCRIBERS = 3
    Vectors <- FallingVectors
    MAX_STRIKES = 1
    MAX_HANDLERS = 1
SPECIFICATION Spec
CHECK_DEADLOCK FALSE
INVARIANTS ReportsNameTheException
