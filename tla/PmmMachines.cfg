\* Every machine of eight pages: the bitmap is one page; it fits unless usable
\* memory spans all eight pages.  print_memmap's counter has seven values: memory
\* maps of six entries are the longest that it gets to the end of.
SPECIFICATION Spec
CONSTANTS
    PAGE_SIZE = 8
    BITS_PER_ROW = 2
    ROW_BYTES = 2
    LOWEST_INIT = 255
    SIZE_MOD = 1024
    UINT8_MOD = 7
    HHDM = 512
    MCPages = 8
    MemMaps <- AllMemMaps
    Clients = {c1, c2}
    PageCounts = {0, 1, 2, 3}
    MAX_RUN = 3
INVARIANTS
    TypeOK
    HeldDisjoint
    PagesConserved
    AccountingExact
    OnlyHighestUnfound
    ReservedMapNeverClobbered
PROPERTIES
    BootTerminates
    ImplementsPageAllocator
