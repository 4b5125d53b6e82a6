\* What cpu_status_t reads as the error code.
CONSTANTS
    ULOG_MAX_SUBSCRIBERS = 3
    Vectors <- SomeVectors
    MAX_STRIKES = 1
    MAX_HANDLERS = 1
SPECIFICATION Spec
CHECK_DEADLOCK FALSE
INVARIANTS ErrorCodeReadable
