\* Every machine of six pages whose pages are so small that the bitmap
\* outgrows what is reserved for it, or is not covered by the memset.
SPECIFICATION Spec
CONSTANTS
    PAGE_SIZE = 2
    BITS_PER_ROW = 2
    ROW_BYTES = 2
    LOWEST_INIT = 255
    SIZE_MOD = 1024
    UINT8_MOD = 16
    HHDM = 512
    MCPages = 6
    MemMaps <- AllMemMaps
    Clients = {c1, c2}
    PageCounts = {1, 3}
    MAX_RUN = 3
INVARIANT
    OnlyUsableHandedOut
