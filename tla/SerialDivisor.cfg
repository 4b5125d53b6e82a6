SPECIFICATION Spec
CONSTANTS
    Texts <- ShortTexts
    DIVISOR = 8
    UpperLatches = {0, 1}
    FIFO_SIZE = 2
    MAX_CALLS = 5
INVARIANT BaudRate
CHECK_DEADLOCK FALSE
