\* Two exceptions may strike anywhere and the terminal may fault at every print.
CONSTANTS
    ULOG_MAX_SUBSCRIBERS = 3
    Vectors <- SomeVectors
    MAX_STRIKES = 2
    MAX_HANDLERS = 3
SPECIFICATION Spec
CHECK_DEADLOCK FALSE
INVARIANTS TypeOK OutputsComplete LinesOrdered
PROPERTIES FaultReported ComesToRest
