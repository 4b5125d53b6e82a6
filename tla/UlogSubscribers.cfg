\* Three functions compete for two slots, and log, subscribe and unsubscribe
\* while they are called.
CONSTANTS
    ULOG_MAX_SUBSCRIBERS = 2
    Functions = {kernel_log, serial_log, other_log}
    NULL = NULL
    Levels = {1, 2}
    Texts = {text}
    MAX_DEPTH = 2
SPECIFICATION FairSpec
INVARIANTS TypeOK NoDuplicates CalledOnce
PROPERTIES DispatchEnds ImplementsRegistry
