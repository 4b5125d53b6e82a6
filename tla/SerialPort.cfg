SPECIFICATION Spec
CONSTANTS
    Texts <- ShortTexts
    DIVISOR = 8
    UpperLatches = {0}
    FIFO_SIZE = 2
    MAX_CALLS = 5
INVARIANTS TypeOK TextKept BaudRate
PROPERTY WriteEnds
CHECK_DEADLOCK FALSE
