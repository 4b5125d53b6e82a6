-------------------------------- MODULE Pmm --------------------------------
(***************************************************************************)
(* The physical memory manager: pmm_initialize, which builds a bitmap of   *)
(* the machine's pages out of the boot loader's memory map, and kalloc and *)
(* kfree, which serve page runs from it.                                   *)
(*                                                                         *)
(* Addresses are byte numbers, pages are named by their (virtual) byte     *)
(* address, and the bitmap is the set of bit numbers that read as USED.    *)
(* The row a bit lies in matters only for where the bitmap itself lies in  *)
(* memory (RowAddress), because those bytes can be handed out.             *)
(***************************************************************************)
EXTENDS Integers, Sequences, FiniteSets

CONSTANTS
    PAGE_SIZE,    \* 0x1000 in pmm.h
    BITS_PER_ROW, \* 64 in pmm.h
    ROW_BYTES,    \* sizeof(uint64_t): the 8 of the memset in pmm_initialize
    LOWEST_INIT,  \* 0xffffffff: the initial lowest_address
    SIZE_MOD,     \* 2^64: size_t arithmetic wraps there
    UINT8_MOD,    \* 2^8: print_memmap's counter wraps there
    HHDM,         \* g_hhdm_offset, what the boot loader reports
    MemMaps,      \* the memory maps the boot loader may report
    Clients,      \* callers of kalloc and kfree
    PageCounts,   \* the page counts clients ask for
    MAX_RUN       \* a bound on PageCounts

NULL == 0

EntryTypes == {"usable", "other"}
Entry == [type : EntryTypes, base : Nat, length : Nat]

UsableIn(m) == {k \in DOMAIN m : m[k].type = "usable"}
EntryEnd(e) == e.base + e.length

\* What Limine promises of a usable entry (limine.h and pmm.h rely on it):
\* whole pages, none shared with another usable entry.
WellFormed(m) ==
    /\ m \in Seq(Entry)
    /\ \A k \in UsableIn(m) :
          /\ m[k].base % PAGE_SIZE = 0
          /\ m[k].length % PAGE_SIZE = 0
          /\ EntryEnd(m[k]) < SIZE_MOD
    /\ \A j, k \in UsableIn(m) :
          j # k => \/ EntryEnd(m[j]) <= m[k].base
                   \/ EntryEnd(m[k]) <= m[j].base

ASSUME GeometryAssumption ==
    /\ PAGE_SIZE \in Nat \ {0}
    /\ BITS_PER_ROW \in Nat \ {0}
    /\ ROW_BYTES \in Nat \ {0}
    /\ HHDM \in Nat \ {0}      \* hhdm_initialize has got one
ASSUME WidthAssumption ==
    /\ SIZE_MOD \in Nat \ {0}
    /\ UINT8_MOD \in Nat \ {0}
    /\ LOWEST_INIT \in 0 .. SIZE_MOD - 1
\* 0xffffffff is no page boundary, so an aligned lowest_address is the base of
\* a usable entry.
ASSUME LowestAssumption == LOWEST_INIT % PAGE_SIZE # 0
ASSUME MemMapAssumption ==
    \A m \in MemMaps :
       WellFormed(m) /\ \A k \in UsableIn(m) : m[k].length > 0
ASSUME RequestAssumption ==
    MAX_RUN \in 0 .. SIZE_MOD - 1 /\ PageCounts \subseteq 0 .. MAX_RUN

VARIABLES
    phase,           \* how far pmm_initialize has come
    i,               \* the loop counter of the current loop of pmm_initialize
    entries,         \* the memory map; pmm_initialize edits it
    lowest_address,
    highest_address,
    total_pages,
    used_pages,
    size,
    map,             \* the address of the bitmap, or NULL
    bits,            \* the bit numbers that read as USED
    held,            \* held[c]: the pages client c was given and still has
    clobbered        \* TRUE once a client's data has overwritten a bitmap row

pmm_bitmap == <<lowest_address, highest_address, total_pages, used_pages,
                size, map, bits>>
vars == <<phase, i, entries, pmm_bitmap, held, clobbered>>

-----------------------------------------------------------------------------
(***************************************************************************)
(* Arithmetic of size_t and of the macros.                                 *)
(***************************************************************************)
AddSize(a, b) == IF a + b < SIZE_MOD THEN a + b ELSE a + b - SIZE_MOD
\* Mutant: a signed difference that does not wrap.
SubSizeSigned(a, b) == a - b
SubSize(a, b) == IF a >= b THEN a - b ELSE a - b + SIZE_MOD

ALIGN_UP(a, align) == ((a + align - 1) \div align) * align

\* Mutant: bits counted from one.
PageAtOneBased(bit) == lowest_address + (bit - 1) * PAGE_SIZE + HHDM

\* BIT_TO_PAGE and PAGE_TO_BIT between a bit number and the pointer a client
\* sees.
PageAt(bit) == lowest_address + bit * PAGE_SIZE + HHDM
PageIndex(pointer) == (pointer - HHDM - lowest_address) \div PAGE_SIZE

\* The n bit numbers from index on, and the n pages from a pointer on.
BitRun(index, n) == index .. index + n - 1
PageRun(pointer, n) == {pointer + j * PAGE_SIZE : j \in 0 .. n - 1}

\* The pages between the lowest and the highest usable address, the bits
\* that the memset of pmm_initialize writes, and where the rows lie.
Span == (highest_address - lowest_address) \div PAGE_SIZE
Capacity == size * BITS_PER_ROW
RowAddress(row) == map + row * ROW_BYTES
RowBits(row) == BitRun(row * BITS_PER_ROW, BITS_PER_ROW)

\* The rows that bits 0 .. Span live in; bit Span is the sentinel that stops
\* a search that looks ahead over the end.
LiveRows == 0 .. Span \div BITS_PER_ROW

-----------------------------------------------------------------------------
(***************************************************************************)
(* pmm_initialize.                                                         *)
(***************************************************************************)
Init ==
    /\ phase = "measure"
    /\ i = 0
    /\ entries \in MemMaps
    /\ lowest_address = LOWEST_INIT
    /\ highest_address = 0
    /\ total_pages = 0
    /\ used_pages = 0
    /\ size = 0
    /\ map = NULL
    /\ bits = {}
    /\ held = [c \in Clients |-> {}]
    /\ clobbered = FALSE

\* lo is the least, hi the greatest of the bounds of the usable entries, each
\* with the initial value of its field among them.
IsLowest(lo) ==
    /\ lo \in {LOWEST_INIT} \cup {entries[k].base : k \in UsableIn(entries)}
    /\ lo <= LOWEST_INIT
    /\ \A k \in UsableIn(entries) : lo <= entries[k].base
IsHighest(hi) ==
    /\ hi \in {0} \cup {EntryEnd(entries[k]) : k \in UsableIn(entries)}
    /\ \A k \in UsableIn(entries) : EntryEnd(entries[k]) <= hi

\* Count the pages there are, and how large their bitmap must be.
Measure ==
    /\ phase = "measure"
    /\ \E lo \in {LOWEST_INIT} \cup {entries[k].base : k \in UsableIn(entries)},
          hi \in {0} \cup {EntryEnd(entries[k]) : k \in UsableIn(entries)} :
          /\ IsLowest(lo)
          /\ IsHighest(hi)
          /\ lowest_address' = lo
          /\ highest_address' = hi
    /\ total_pages' = SubSize(highest_address', lowest_address') \div PAGE_SIZE
    /\ size' = ALIGN_UP(total_pages' \div BITS_PER_ROW, PAGE_SIZE)
    /\ phase' = "place"
    /\ UNCHANGED <<i, entries, used_pages, map, bits, held, clobbered>>

Suitable(k) == k \in UsableIn(entries) /\ entries[k].length >= size

\* Mutant: the entry keeps the bytes the bitmap took; only its base moves.
EntriesSameLength(k) == [entries EXCEPT ![k].base = @ + size]
\* The memory map without the first size bytes of entry k.
EntriesWithout(k) ==
    [entries EXCEPT ![k] = [type |-> @.type,
                            base |-> @.base + size,
                            length |-> @.length - size]]

\* The bitmap goes to the start of the first entry that is long enough.  The
\* bits that the memset does not reach are whatever the memory held.
PlaceBitmap ==
    /\ phase = "place"
    /\ \E k \in DOMAIN entries :
          /\ Suitable(k)
          /\ \A j \in DOMAIN entries : Suitable(j) => k <= j
          /\ map' = entries[k].base + HHDM
          /\ entries' = EntriesWithout(k)
    /\ \E garbage \in SUBSET (Capacity .. Span + MAX_RUN) :
          bits' = BitRun(0, Capacity) \cup garbage
    /\ total_pages' = SubSize(total_pages, size \div PAGE_SIZE)
    /\ used_pages' = total_pages'
    /\ phase' = "print"
    /\ i' = 0
    /\ UNCHANGED <<lowest_address, highest_address, size, held, clobbered>>

NoRoomForBitmap ==
    /\ phase = "place"
    /\ \A k \in DOMAIN entries : ~Suitable(k)
    /\ phase' = "hcf"
    /\ UNCHANGED <<i, entries, pmm_bitmap, held, clobbered>>

\* Mutant: the counter has a bit less.
PrintCountNarrow(n) == (n + 1) % (UINT8_MOD \div 2)
\* print_memmap: its counter is a uint8_t.
PrintCount(n) == (n + 1) % UINT8_MOD

PrintEntry ==
    /\ phase = "print"
    /\ i < Len(entries)
    /\ i' = PrintCount(i)
    /\ UNCHANGED <<phase, entries, pmm_bitmap, held, clobbered>>

PrintDone ==
    /\ phase = "print"
    /\ i >= Len(entries)
    /\ i' = 0
    /\ phase' = "free"
    /\ UNCHANGED <<entries, pmm_bitmap, held, clobbered>>

\* Mutants: used_pages is forgotten; the loop runs once too often.
KfreeRunUncounted(pointer, n) ==
    /\ bits' = bits \ BitRun(PageIndex(pointer), n)
    /\ UNCHANGED used_pages
KfreeRunOneMore(pointer, n) ==
    /\ bits' = bits \ BitRun(PageIndex(pointer), n + 1)
    /\ used_pages' = SubSize(used_pages, n)
\* kfree, as the boot code and the clients call it.
KfreeRun(pointer, n) ==
    /\ bits' = bits \ BitRun(PageIndex(pointer), n)
    /\ used_pages' = SubSize(used_pages, n)

FreeEntry ==
    /\ phase = "free"
    /\ i < Len(entries)
    /\ LET e == entries[i + 1] IN
          IF e.type = "usable"
          THEN KfreeRun(e.base + HHDM, e.length \div PAGE_SIZE)
          ELSE UNCHANGED <<bits, used_pages>>
    /\ i' = i + 1
    /\ UNCHANGED <<phase, entries, lowest_address, highest_address,
                   total_pages, size, map, held, clobbered>>

\* Bit 0 is set so that a search never answers with the null pointer.
\* used_pages does not change.
ReservePage0 ==
    /\ phase = "free"
    /\ i >= Len(entries)
    /\ bits' = bits \cup {0}
    /\ phase' = "ready"
    /\ UNCHANGED <<i, entries, lowest_address, highest_address, total_pages,
                   used_pages, size, map, held, clobbered>>

Halted == phase = "hcf" /\ UNCHANGED vars

Boot == \/ Measure \/ PlaceBitmap \/ NoRoomForBitmap
        \/ PrintEntry \/ PrintDone \/ FreeEntry \/ ReservePage0

-----------------------------------------------------------------------------
(***************************************************************************)
(* kalloc and kfree.                                                       *)
(***************************************************************************)
\* Mutant: the look-ahead stops one page early.
FreeRunAtShort(bit, n) ==
    /\ bit \in 0 .. total_pages - 1
    /\ n > 0
    /\ BitRun(bit, n - 1) \cap bits = {}

\* find_first_free_page_range looks only for runs that start below
\* total_pages, but looks ahead as far as the run reaches.
FreeRunAt(bit, n) ==
    /\ bit \in 0 .. total_pages - 1
    /\ n > 0
    /\ BitRun(bit, n) \cap bits = {}

find_first_free_page_range(bit, n) ==
    /\ FreeRunAt(bit, n)
    /\ \A b \in 0 .. bit - 1 : ~FreeRunAt(b, n)

\* Mutant: the last page that can be counted is refused.
RefusedEarly(n) ==
    \/ used_pages + 1 >= total_pages
    \/ \A bit \in 0 .. total_pages - 1 :
          find_first_free_page_range(bit, n) => bit * PAGE_SIZE = NULL
\* A request of n pages is refused: out of memory, no run, or a run whose
\* offset is the null pointer.
Refused(n) ==
    \/ used_pages >= total_pages
    \/ \A bit \in 0 .. total_pages - 1 :
          find_first_free_page_range(bit, n) => bit * PAGE_SIZE = NULL

\* A client gets its run.
kalloc(c) ==
    /\ phase = "ready"
    /\ \E n \in PageCounts :
          /\ ~Refused(n)
          /\ \E bit \in 0 .. total_pages - 1 :
                /\ find_first_free_page_range(bit, n)
                /\ bits' = bits \cup BitRun(bit, n)
                /\ held' = [held EXCEPT ![c] = @ \cup PageRun(PageAt(bit), n)]
          /\ used_pages' = AddSize(used_pages, n)
    /\ UNCHANGED <<phase, i, entries, lowest_address, highest_address,
                   total_pages, size, map, clobbered>>

kallocFails ==
    /\ phase = "ready"
    /\ \E n \in PageCounts : Refused(n)
    /\ UNCHANGED vars

\* A client gives back a run of pages that it holds.
kfree(c) ==
    /\ phase = "ready"
    /\ \E pointer \in held[c], n \in PageCounts \ {0} :
          /\ PageRun(pointer, n) \subseteq held[c]
          /\ KfreeRun(pointer, n)
          /\ held' = [held EXCEPT ![c] = @ \ PageRun(pointer, n)]
    /\ UNCHANGED <<phase, i, entries, lowest_address, highest_address,
                   total_pages, size, map, clobbered>>

\* A client stores into a page it holds.  When a live row of the bitmap lies
\* in that page, the row's bits become what the client wrote.
ClientOverwritesRow(c) ==
    /\ phase = "ready"
    /\ \E pointer \in held[c], row \in LiveRows :
          /\ RowAddress(row) \in pointer .. pointer + PAGE_SIZE - 1
          /\ \E written \in SUBSET RowBits(row) :
                bits' = (bits \ RowBits(row)) \cup written
    /\ clobbered' = TRUE
    /\ UNCHANGED <<phase, i, entries, lowest_address, highest_address,
                   total_pages, used_pages, size, map, held>>

Next == \/ Boot
        \/ Halted
        \/ kallocFails
        \/ \E c \in Clients : kalloc(c) \/ kfree(c) \/ ClientOverwritesRow(c)

\* pmm_initialize runs on the only CPU with nothing else runnable: each of its
\* steps that can happen does happen.
Spec == Init /\ [][Next]_vars /\ WF_vars(Boot)

-----------------------------------------------------------------------------
(***************************************************************************)
(* Properties.                                                             *)
(***************************************************************************)
Phases == {"measure", "place", "print", "free", "ready", "hcf"}

\* Every variable of the memory manager has its type; size_t fields stay
\* below SIZE_MOD (used_pages wraps instead of turning negative).
TypeOK ==
    /\ phase \in Phases
    /\ i \in Nat
    /\ entries \in Seq(Entry)
    /\ {lowest_address, highest_address, total_pages, used_pages}
         \subseteq 0 .. SIZE_MOD - 1
    /\ size \in Nat
    /\ map \in Nat
    /\ bits \subseteq Nat
    /\ held \in [Clients -> SUBSET Nat]
    /\ clobbered \in BOOLEAN

\* The bitmap has an initialised bit for every page and for the sentinel, and
\* bit 0 stands for a page boundary.
MapCoversSpan ==
    /\ Span < Capacity
    /\ lowest_address % PAGE_SIZE = 0

\* The bytes pmm_initialize takes out of the memory map hold every live row.
MapReserved == (Span \div BITS_PER_ROW + 1) * ROW_BYTES <= size

\* The bitmap can be believed.
Sound == phase = "ready" /\ MapCoversSpan /\ ~clobbered

\* Pages the (edited) memory map calls usable, less page 0.
UsablePages ==
    UNION {PageRun(entries[k].base + HHDM, entries[k].length \div PAGE_SIZE)
             : k \in UsableIn(entries)}
ManagedPages == UsablePages \ {PageAt(0)}

FreeBits == {bit \in 0 .. Span - 1 : bit \notin bits}
FreePages == {PageAt(bit) : bit \in FreeBits}

\* No page is given to two clients at once (kalloc's bitmap_use of the whole
\* run against the search's look-ahead).
HeldDisjoint ==
    Sound => \A c, d \in Clients : c # d => held[c] \cap held[d] = {}

\* From the end of pmm_initialize on every usable page but page 0 is either
\* free or held, none is both, and no other page ever is either: kalloc hands
\* out no byte of the bitmap's reservation, of a hole or of a reserved entry,
\* and kfree loses nothing.
PagesConserved ==
    Sound => LET heldPages == UNION {held[c] : c \in Clients} IN
             /\ FreePages \cap heldPages = {}
             /\ FreePages \cup heldPages = ManagedPages

\* used_pages is off by the page that bitmap_use(&pmm_bitmap, 0) takes without
\* counting it, unless the bitmap itself already lies there.
UncountedPages == IF map = lowest_address + HHDM THEN 0 ELSE 1

\* The counters that guard kalloc tell exactly how many pages are free:
\* total_pages - used_pages, less the one uncounted page.  "Out of Memory" is
\* therefore never reported while a page is free.
AccountingExact ==
    Sound => total_pages - used_pages = Cardinality(FreeBits) + UncountedPages

\* One page is refused only when none is free but among the highest, as many as
\* the bitmap takes up: total_pages is less by them and yet bounds the search
\* (kalloc, find_first_free_page_range).
OnlyHighestUnfound ==
    Sound /\ Refused(1) => FreeBits \subseteq Span - size \div PAGE_SIZE .. Span - 1

\* On a machine whose bitmap fits into the bytes that are taken out of the
\* memory map, no client is ever given memory that holds a row of the bitmap,
\* whatever it writes.
ReservedMapNeverClobbered == MapCoversSpan /\ MapReserved => ~clobbered

\* print_memmap's counter can leave its loop: it reaches the number of entries
\* before it wraps around.
PrintEnds == Len(entries) < UINT8_MOD

\* pmm_initialize comes to its end, or stops the machine because there is no
\* room for the bitmap, on every machine whose memory map has fewer entries
\* than print_memmap's counter has values.  On all the others that have room
\* for the bitmap print_memmap starts again with the first entry for ever, and
\* no page is ever freed.
BootTerminates ==
    /\ PrintEnds => <>(phase \in {"ready", "hcf"})
    /\ ~ PrintEnds => <>(phase = "hcf") \/ []<>(phase = "print" /\ i = 0)

\* pmm.c:70 "Readjust the Limine memmap entry to show that it's used": the
\* memory that holds the bitmap belongs to the bitmap.
BitmapNeverClobbered == ~clobbered

\* pmm.c:87 "Go through memmap entries again, only free usable pages": a client
\* is never given a page outside the usable memory.
OnlyUsableHandedOut ==
    ~clobbered => \A c \in Clients : held[c] \subseteq ManagedPages

\* Where the bitmap is covered and has its memory, pmm_initialize, kalloc and
\* kfree implement the page allocator.
Trusted == phase = "ready" /\ MapCoversSpan /\ MapReserved
Abstract == INSTANCE PageAllocator WITH
    up <- Trusted,
    free <- IF Trusted THEN FreePages ELSE {},
    owned <- [c \in Clients |-> IF Trusted THEN held[c] ELSE {}]
ImplementsPageAllocator == Abstract!ASpec
=============================================================================
