\* Numbers of 3 to 7 bits, a conversion buffer that is full with five
\* characters, a significand of eleven bits.
SPECIFICATION LibrarySpec
CONSTANTS
    NTOA_BUFFER = 5
    CHAR_BITS = 3
    SHORT_BITS = 4
    INT_BITS = 5
    LONG_BITS = 7
    POINTER_CHARS = 4
    FTOA_BUFFER = 8
    SIGNIFICAND = 11
    EXP_BIAS = 7
    MAX_FLOAT = 1000
    MAX_PRECISION = 2
    DEFAULT_PRECISION = 1
    ADAPT_LOW = 2
    ADAPT_HIGH = 2
    HIGH_POWERS = {2}
    SIZE_MAX = 12
    Calls <- MCCalls
    Bytes = {0, 1, 2, 3}
    LastAddress = 4
    Memories <- MCMemory
    Jobs <- MCJobs
    MAX_VALUE = 31
    Numbers <- MCNumbers
    Processors <- MCProcessors
    BRAND_LIMIT = 24
    OtherSignatures = {1713, 3859}
INVARIANTS
    Bounded ParsesAsWritten ConvertsAsStandard FixedReadsBack 
    MovedAsOne ComparesAndCounts ItoaReadsBack
    LeavesSupported NameInFull BrandInTable
CHECK_DEADLOCK FALSE
