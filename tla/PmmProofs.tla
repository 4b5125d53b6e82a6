----------------------------- MODULE PmmProofs -----------------------------
(***************************************************************************)
(* Proofs about the physical memory manager, for every memory map, page    *)
(* size and set of clients: its variables keep their types, no page has    *)
(* two holders, no page is lost or invented, and a bitmap that fits into   *)
(* its reservation is never overwritten.                                   *)
(***************************************************************************)
EXTENDS Pmm, FiniteSetTheorems, WellFoundedInduction, TLAPS

-----------------------------------------------------------------------------
(***************************************************************************)
(* Pages and multiples of the page size.                                   *)
(***************************************************************************)

\* PAGE_TO_BIT undoes BIT_TO_PAGE.
LEMMA DivOfMultiple ==
    ASSUME NEW P \in Nat \ {0}, NEW k \in Int
    PROVE  (k * P) \div P = k
BY Z3

\* An aligned address is a whole number of pages.
LEMMA AlignedIsMultiple ==
    ASSUME NEW P \in Nat \ {0}, NEW a \in Nat, a % P = 0
    PROVE  /\ a \div P \in Nat
           /\ a = (a \div P) * P
BY Z3

LEMMA MultipleIsAligned ==
    ASSUME NEW P \in Nat \ {0}, NEW k \in Int
    PROVE  (k * P) % P = 0
BY Z3

\* Sums and differences of aligned addresses are aligned.
LEMMA AlignedSum ==
    ASSUME NEW P \in Nat \ {0}, NEW a \in Nat, NEW b \in Nat,
           a % P = 0, b % P = 0
    PROVE  (a + b) % P = 0
<1>1. a = (a \div P) * P /\ a \div P \in Nat
  BY AlignedIsMultiple
<1>2. b = (b \div P) * P /\ b \div P \in Nat
  BY AlignedIsMultiple
<1>3. \A x, y \in Int : x * P + y * P = (x + y) * P
  BY Z3
<1>4. a + b = (a \div P + b \div P) * P
  BY <1>1, <1>2, <1>3
<1>5. ((a \div P + b \div P) * P) % P = 0
  BY <1>1, <1>2, MultipleIsAligned
<1> QED BY <1>4, <1>5

LEMMA AlignedDifference ==
    ASSUME NEW P \in Nat \ {0}, NEW a \in Nat, NEW b \in Nat,
           a % P = 0, b % P = 0
    PROVE  (a - b) % P = 0 /\ (a - b) = (a \div P - b \div P) * P
<1>1. a = (a \div P) * P /\ a \div P \in Nat
  BY AlignedIsMultiple
<1>2. b = (b \div P) * P /\ b \div P \in Nat
  BY AlignedIsMultiple
<1>3. \A x, y \in Int : x * P - y * P = (x - y) * P
  BY Z3
<1>4. a - b = (a \div P - b \div P) * P
  BY <1>1, <1>2, <1>3
<1>5. ((a \div P - b \div P) * P) % P = 0
  BY <1>1, <1>2, MultipleIsAligned
<1> QED BY <1>4, <1>5

\* ALIGN_UP gives a whole number of pages.
LEMMA AlignUpAligned ==
    ASSUME NEW P \in Nat \ {0}, NEW a \in Nat
    PROVE  ALIGN_UP(a, P) \in Nat /\ ALIGN_UP(a, P) % P = 0
<1> DEFINE q == (a + P - 1) \div P
<1>1. q \in Nat
  BY Z3
<1>2. q * P \in Nat
  BY <1>1, Z3
<1>3. (q * P) % P = 0
  BY <1>1, MultipleIsAligned
<1> QED BY <1>2, <1>3 DEF ALIGN_UP

\* A quotient of naturals is a natural no greater than what is divided.
LEMMA DivBound ==
    ASSUME NEW P \in Nat \ {0}, NEW a \in Nat
    PROVE  a \div P \in Nat /\ a \div P <= a
BY Z3

\* size_t arithmetic stays in range.
LEMMA SizeRange ==
    ASSUME NEW a \in 0 .. SIZE_MOD - 1, NEW b \in 0 .. SIZE_MOD - 1
    PROVE  /\ AddSize(a, b) \in 0 .. SIZE_MOD - 1
           /\ SubSize(a, b) \in 0 .. SIZE_MOD - 1
BY WidthAssumption DEF AddSize, SubSize

\* The bits that kfree clears for an aligned entry are those whose pages lie
\* in the entry.
LEMMA EntryBits ==
    ASSUME NEW P \in Nat \ {0}, NEW lo \in Nat, NEW base \in Nat,
           NEW length \in Nat, NEW bit \in Nat,
           lo % P = 0, base % P = 0, length % P = 0, lo <= base
    PROVE  bit \in BitRun((base - lo) \div P, length \div P)
             <=> base <= lo + bit * P /\ lo + bit * P < base + length
<1> DEFINE x == base \div P - lo \div P
           n == length \div P
<1>1. base - lo = x * P /\ x \in Int
  <2>1. base \div P \in Nat /\ lo \div P \in Nat
    BY AlignedIsMultiple
  <2> QED BY <2>1, AlignedDifference
<1>2. length = n * P /\ n \in Nat
  BY AlignedIsMultiple
<1>3. (base - lo) \div P = x
  BY <1>1, DivOfMultiple
<1> HIDE DEF x, n
<1>4. x <= bit <=> x * P <= bit * P
  BY <1>1, Z3
<1>5. bit < x + n <=> bit * P < (x + n) * P
  BY <1>1, <1>2, Z3
<1>6. (x + n) * P = x * P + n * P
  BY <1>1, <1>2, Z3
<1>7. bit \in BitRun(x, n) <=> x <= bit /\ bit < x + n
  BY <1>1, <1>2 DEF BitRun
<1>8. bit * P \in Int /\ x * P \in Int /\ n * P \in Int
  BY <1>1, <1>2
<1> QED
  <2>1. x <= bit <=> base - lo <= bit * P
    BY <1>4, <1>1
  <2>2. bit < x + n <=> bit * P < base - lo + length
    BY <1>5, <1>6, <1>1, <1>2
  <2> QED BY <2>1, <2>2, <1>7, <1>3, <1>8 DEF n

-----------------------------------------------------------------------------
(***************************************************************************)
(* The inductive invariant.                                                *)
(***************************************************************************)
Placed == phase \in {"print", "free", "ready"}

\* The page of a bit, as a physical address, lies in entry k; in some usable
\* entry.
InEntry(k, bit) ==
    /\ entries[k].base <= lowest_address + bit * PAGE_SIZE
    /\ lowest_address + bit * PAGE_SIZE < EntryEnd(entries[k])
BitUsable(bit) == \E k \in UsableIn(entries) : InEntry(k, bit)

\* The bounds that were measured enclose every usable entry.
Measured ==
    /\ \A k \in UsableIn(entries) :
          /\ lowest_address <= entries[k].base
          /\ EntryEnd(entries[k]) <= highest_address
    /\ highest_address % PAGE_SIZE = 0

\* Where things are: the edited memory map is as well formed as the reported
\* one, and the bitmap's reservation is in none of its usable entries.
LayoutOK ==
    /\ WellFormed(entries)
    /\ size % PAGE_SIZE = 0
    /\ phase = "place" =>
          /\ Measured
          /\ lowest_address <= highest_address => total_pages = Span
    /\ Placed =>
          /\ Measured
          /\ lowest_address <= highest_address
          /\ total_pages <= Span
          /\ \A k \in UsableIn(entries) :
                \/ EntryEnd(entries[k]) + HHDM <= map
                \/ map + size <= entries[k].base + HHDM
    /\ phase # "ready" => held = [c \in Clients |-> {}] /\ clobbered = FALSE

\* The entries whose pages pmm_initialize has already freed.
FreedUpTo == IF phase = "free" THEN i ELSE 0

BootBits ==
    \A bit \in 0 .. Span :
       bit \notin bits <=>
          \E k \in UsableIn(entries) : k <= FreedUpTo /\ InEntry(k, bit)

\* A clear bit is a usable page other than page 0 that nobody holds.
ReadyBits ==
    \A bit \in 0 .. Span :
       bit \notin bits <=> /\ bit # 0
                           /\ BitUsable(bit)
                           /\ \A c \in Clients : PageAt(bit) \notin held[c]

HeldPages ==
    \A c \in Clients : \A page \in held[c] :
       \E bit \in 1 .. Span - 1 : page = PageAt(bit) /\ BitUsable(bit)

NobodyShares ==
    \A c, d \in Clients : c # d => held[c] \cap held[d] = {}

BitsOK ==
    MapCoversSpan /\ ~clobbered =>
       /\ phase \in {"print", "free"} => BootBits
       /\ phase = "ready" => ReadyBits /\ HeldPages /\ NobodyShares

IInv == TypeOK /\ LayoutOK /\ BitsOK /\ ReservedMapNeverClobbered

-----------------------------------------------------------------------------
(***************************************************************************)
(* The invariant holds initially and every step preserves it.              *)
(***************************************************************************)
LEMMA InitInv == Init => IInv
<1> SUFFICES ASSUME Init PROVE IInv
  OBVIOUS
<1>1. WellFormed(entries)
  BY MemMapAssumption DEF Init
<1>2. TypeOK
  <2>1. entries \in Seq(Entry)
    BY <1>1 DEF WellFormed
  <2>2. held \in [Clients -> SUBSET Nat] /\ bits \subseteq Nat
    BY DEF Init
  <2>3. {lowest_address, highest_address, total_pages, used_pages}
           \subseteq 0 .. SIZE_MOD - 1
    BY WidthAssumption DEF Init
  <2>4. /\ phase \in Phases /\ clobbered \in BOOLEAN
        /\ i \in Nat /\ size \in Nat /\ map \in Nat
    BY DEF Init, Phases, NULL
  <2> QED BY <2>1, <2>2, <2>3, <2>4 DEF TypeOK
<1>3. LayoutOK
  <2>1. 0 % PAGE_SIZE = 0
    BY GeometryAssumption, Z3
  <2> QED BY <1>1, <2>1 DEF Init, LayoutOK, Placed
<1>4. BitsOK
  BY DEF Init, BitsOK
<1>5. ReservedMapNeverClobbered
  BY DEF Init, ReservedMapNeverClobbered
<1> QED BY <1>2, <1>3, <1>4, <1>5 DEF IInv

\* The types of what the memory map holds.
LEMMA EntryTypesOK ==
    ASSUME NEW m, WellFormed(m), NEW k \in UsableIn(m)
    PROVE  /\ k \in 1 .. Len(m)
           /\ Len(m) \in Nat
           /\ m[k] \in Entry
           /\ m[k].base \in 0 .. SIZE_MOD - 1
           /\ m[k].length \in 0 .. SIZE_MOD - 1
           /\ EntryEnd(m[k]) = m[k].base + m[k].length
           /\ EntryEnd(m[k]) \in 0 .. SIZE_MOD - 1
           /\ EntryEnd(m[k]) % PAGE_SIZE = 0
<1>1. m \in Seq(Entry) /\ k \in DOMAIN m
  BY DEF WellFormed, UsableIn
<1>2. m[k] \in Entry /\ k \in 1 .. Len(m) /\ Len(m) \in Nat
  BY <1>1
<1>3. m[k].base \in Nat /\ m[k].length \in Nat
  BY <1>2 DEF Entry
<1>4. /\ m[k].base % PAGE_SIZE = 0
      /\ m[k].length % PAGE_SIZE = 0
      /\ EntryEnd(m[k]) < SIZE_MOD
  BY DEF WellFormed
<1>5. EntryEnd(m[k]) % PAGE_SIZE = 0
  BY <1>3, <1>4, AlignedSum, GeometryAssumption DEF EntryEnd
<1> QED BY <1>2, <1>3, <1>4, <1>5, WidthAssumption DEF EntryEnd

LEMMA MeasureInv == IInv /\ Measure => IInv'
<1> SUFFICES ASSUME IInv, Measure PROVE IInv'
  OBVIOUS
<1> USE GeometryAssumption, WidthAssumption
<1>1. WellFormed(entries) /\ entries' = entries /\ UsableIn(entries)' = UsableIn(entries)
  BY DEF IInv, LayoutOK, Measure, UsableIn
<1>2. /\ lowest_address' \in {LOWEST_INIT} \cup {entries[k].base : k \in UsableIn(entries)}
      /\ highest_address' \in {0} \cup {EntryEnd(entries[k]) : k \in UsableIn(entries)}
      /\ \A k \in UsableIn(entries) :
            /\ lowest_address' <= entries[k].base
            /\ EntryEnd(entries[k]) <= highest_address'
  BY DEF Measure, IsLowest, IsHighest
<1>3. lowest_address' \in 0 .. SIZE_MOD - 1
  BY <1>1, <1>2, EntryTypesOK
<1>4. highest_address' \in 0 .. SIZE_MOD - 1
  BY <1>1, <1>2, EntryTypesOK
<1>5. highest_address' % PAGE_SIZE = 0
  <2>1. 0 % PAGE_SIZE = 0
    BY Z3
  <2> QED BY <1>1, <1>2, <2>1, EntryTypesOK
<1>6. /\ total_pages' = SubSize(highest_address', lowest_address') \div PAGE_SIZE
      /\ total_pages' \in 0 .. SIZE_MOD - 1
  <2>1. SubSize(highest_address', lowest_address') \in 0 .. SIZE_MOD - 1
    BY <1>3, <1>4, SizeRange
  <2> QED BY <2>1, DivBound DEF Measure
<1>7. size' \in Nat /\ size' % PAGE_SIZE = 0
  <2>1. total_pages' \div BITS_PER_ROW \in Nat
    BY <1>6, DivBound
  <2> QED BY <2>1, AlignUpAligned DEF Measure
<1>8. phase' = "place" /\ UNCHANGED <<i, used_pages, map, bits, held, clobbered>>
  BY DEF Measure
<1>9. held = [c \in Clients |-> {}] /\ clobbered = FALSE
  BY DEF IInv, LayoutOK, Measure
<1>10. TypeOK'
  BY <1>1, <1>3, <1>4, <1>6, <1>7, <1>8 DEF IInv, TypeOK, Phases
<1>11. LayoutOK'
  <2>1. Measured'
    BY <1>1, <1>2, <1>5 DEF Measured
  <2>2. lowest_address' <= highest_address' => total_pages' = Span'
    BY <1>3, <1>4, <1>6 DEF Span, SubSize
  <2> QED BY <1>1, <1>7, <1>8, <1>9, <2>1, <2>2 DEF LayoutOK, Placed
<1>12. BitsOK' /\ ReservedMapNeverClobbered'
  BY <1>8, <1>9 DEF BitsOK, ReservedMapNeverClobbered
<1> QED BY <1>10, <1>11, <1>12 DEF IInv

LEMMA DivMonotone ==
    ASSUME NEW P \in Nat \ {0}, NEW a \in Nat, NEW b \in Nat, a <= b
    PROVE  a \div P <= b \div P
BY Z3

\* What pmm_initialize changes in the memory map when it takes the bitmap's
\* bytes from the start of entry k.
LEMMA EntriesWithoutOK ==
    ASSUME WellFormed(entries), size \in Nat, size % PAGE_SIZE = 0,
           NEW k \in UsableIn(entries), entries[k].length >= size,
           NEW m, m = EntriesWithout(k)
    PROVE  /\ WellFormed(m)
           /\ UsableIn(m) = UsableIn(entries)
           /\ m[k].base = entries[k].base + size
           /\ \A j \in UsableIn(entries) :
                 /\ m[j].base >= entries[j].base
                 /\ EntryEnd(m[j]) = EntryEnd(entries[j])
                 /\ j # k => m[j] = entries[j]
<1> USE GeometryAssumption
<1>1. entries \in Seq(Entry)
  BY DEF WellFormed
<1>2. DOMAIN entries = 1 .. Len(entries) /\ k \in DOMAIN entries
  BY <1>1 DEF UsableIn
<1>4. /\ entries[k].base \in Nat
      /\ entries[k].length \in Nat
      /\ entries[k].type = "usable"
  BY EntryTypesOK DEF UsableIn
<1> DEFINE e == [type |-> entries[k].type, base |-> entries[k].base + size,
                 length |-> entries[k].length - size]
<1>5. m = [entries EXCEPT ![k] = e]
  BY DEF EntriesWithout
<1>6. e \in Entry
  BY <1>4 DEF Entry, EntryTypes
<1>7. /\ m \in Seq(Entry)
      /\ DOMAIN m = DOMAIN entries
      /\ m[k] = e
      /\ \A j \in DOMAIN entries : j # k => m[j] = entries[j]
  BY <1>1, <1>2, <1>5, <1>6
<1>8. UsableIn(m) = UsableIn(entries)
  BY <1>7, <1>4 DEF UsableIn
<1>9. /\ m[k].base = entries[k].base + size
      /\ m[k].length = entries[k].length - size
      /\ EntryEnd(m[k]) = EntryEnd(entries[k])
  BY <1>4, <1>7 DEF EntryEnd
<1>10. \A j \in UsableIn(entries) :
          /\ entries[j].base \in Nat
          /\ m[j].base >= entries[j].base
          /\ EntryEnd(m[j]) = EntryEnd(entries[j])
          /\ j # k => m[j] = entries[j]
  <2> SUFFICES ASSUME NEW j \in UsableIn(entries)
               PROVE  /\ entries[j].base \in Nat
                      /\ m[j].base >= entries[j].base
                      /\ EntryEnd(m[j]) = EntryEnd(entries[j])
                      /\ j # k => m[j] = entries[j]
    OBVIOUS
  <2>1. entries[j].base \in Nat /\ j \in DOMAIN entries
    BY EntryTypesOK DEF UsableIn
  <2>2. CASE j = k
    BY <2>1, <2>2, <1>9
  <2>3. CASE j # k
    BY <2>1, <2>3, <1>7
  <2> QED BY <2>2, <2>3
<1>11. \A j \in UsableIn(entries) :
          /\ m[j].base % PAGE_SIZE = 0
          /\ m[j].length % PAGE_SIZE = 0
          /\ EntryEnd(m[j]) < SIZE_MOD
  <2> SUFFICES ASSUME NEW j \in UsableIn(entries)
               PROVE  /\ m[j].base % PAGE_SIZE = 0
                      /\ m[j].length % PAGE_SIZE = 0
                      /\ EntryEnd(m[j]) < SIZE_MOD
    OBVIOUS
  <2>1. /\ entries[j].base % PAGE_SIZE = 0
        /\ entries[j].length % PAGE_SIZE = 0
        /\ EntryEnd(entries[j]) < SIZE_MOD
    BY DEF WellFormed
  <2>2. CASE j = k
    <3>1. (entries[k].base + size) % PAGE_SIZE = 0
      BY <2>1, <2>2, <1>4, AlignedSum
    <3>2. (entries[k].length - size) % PAGE_SIZE = 0
      BY <2>1, <2>2, <1>4, AlignedDifference
    <3> QED BY <3>1, <3>2, <2>1, <2>2, <1>9
  <2>3. CASE j # k
    BY <2>1, <2>3, <1>10
  <2> QED BY <2>2, <2>3
<1>12. \A j, l \in UsableIn(entries) :
          j # l => \/ EntryEnd(m[j]) <= m[l].base
                   \/ EntryEnd(m[l]) <= m[j].base
  <2> SUFFICES ASSUME NEW j \in UsableIn(entries), NEW l \in UsableIn(entries),
                      j # l
               PROVE  \/ EntryEnd(m[j]) <= m[l].base
                      \/ EntryEnd(m[l]) <= m[j].base
    OBVIOUS
  <2>1. \/ EntryEnd(entries[j]) <= entries[l].base
        \/ EntryEnd(entries[l]) <= entries[j].base
    BY DEF WellFormed
  <2>2. /\ EntryEnd(entries[j]) \in Int /\ EntryEnd(entries[l]) \in Int
        /\ entries[j].base \in Int /\ entries[l].base \in Int
    BY EntryTypesOK
  <2>3. m[j].base \in Int /\ m[l].base \in Int
    BY <2>2, <1>4, <1>9, <1>10
  <2> QED BY <2>1, <2>2, <2>3, <1>10
<1>13. WellFormed(m)
  BY <1>7, <1>8, <1>11, <1>12 DEF WellFormed
<1> QED BY <1>8, <1>9, <1>10, <1>13

LEMMA PlaceBitmapInv == IInv /\ PlaceBitmap => IInv'
<1> SUFFICES ASSUME IInv, PlaceBitmap PROVE IInv'
  OBVIOUS
<1> USE GeometryAssumption, WidthAssumption
<1>1. PICK k \in DOMAIN entries : /\ Suitable(k)
                                  /\ map' = entries[k].base + HHDM
                                  /\ entries' = EntriesWithout(k)
  BY DEF PlaceBitmap
<1>2. /\ WellFormed(entries)
      /\ size \in Nat
      /\ size % PAGE_SIZE = 0
      /\ Measured
      /\ lowest_address <= highest_address => total_pages = Span
      /\ lowest_address \in 0 .. SIZE_MOD - 1
      /\ highest_address \in 0 .. SIZE_MOD - 1
      /\ held = [c \in Clients |-> {}] /\ clobbered = FALSE
  BY DEF IInv, TypeOK, LayoutOK, PlaceBitmap
<1>3. /\ phase' = "print" /\ i' = 0
      /\ total_pages' = SubSize(total_pages, size \div PAGE_SIZE)
      /\ used_pages' = total_pages'
      /\ UNCHANGED <<lowest_address, highest_address, size, held, clobbered>>
  BY DEF PlaceBitmap
<1>4. k \in UsableIn(entries) /\ entries[k].length >= size
  BY <1>1 DEF Suitable
<1>5. /\ WellFormed(entries')
      /\ UsableIn(entries)' = UsableIn(entries)
      /\ entries'[k].base = entries[k].base + size
      /\ \A j \in UsableIn(entries) :
            /\ entries'[j].base >= entries[j].base
            /\ EntryEnd(entries'[j]) = EntryEnd(entries[j])
            /\ j # k => entries'[j] = entries[j]
  <2>1. UsableIn(entries)' = UsableIn(entries')
    BY DEF UsableIn
  <2> QED BY <1>1, <1>2, <1>4, <2>1, EntriesWithoutOK
<1>6. \A j \in UsableIn(entries) :
         /\ entries[j].base \in Nat /\ EntryEnd(entries[j]) \in Nat
         /\ entries[j].length \in Nat /\ entries'[j].base \in Nat
         /\ EntryEnd(entries[j]) = entries[j].base + entries[j].length
         /\ lowest_address <= entries[j].base
         /\ EntryEnd(entries[j]) <= highest_address
  <2>1. \A j \in UsableIn(entries') : entries'[j].base \in Nat
    BY <1>5, EntryTypesOK
  <2>2. UsableIn(entries') = UsableIn(entries)
    BY <1>5 DEF UsableIn
  <2> QED BY <1>2, <2>1, <2>2, EntryTypesOK DEF Measured
<1>7. lowest_address <= highest_address /\ size <= highest_address - lowest_address
  BY <1>2, <1>4, <1>6
<1>8. /\ Span \in 0 .. SIZE_MOD - 1
      /\ size \div PAGE_SIZE \in Nat
      /\ size \div PAGE_SIZE <= Span
      /\ total_pages' = Span - size \div PAGE_SIZE
  <2>1. highest_address - lowest_address \in 0 .. SIZE_MOD - 1
    BY <1>2, <1>7
  <2>2. Span \in 0 .. SIZE_MOD - 1
    BY <2>1, DivBound DEF Span
  <2>3. size \div PAGE_SIZE \in Nat
    BY <1>2, DivBound
  <2>4. size \div PAGE_SIZE <= Span
    BY <1>2, <1>7, <2>1, DivMonotone DEF Span
  <2> QED BY <1>2, <1>3, <1>7, <2>2, <2>3, <2>4 DEF SubSize
<1>9. total_pages' \in 0 .. SIZE_MOD - 1 /\ total_pages' <= Span
  BY <1>8
<1>10. Span' = Span /\ Capacity' = Capacity
  BY <1>3 DEF Span, Capacity
<1>11. bits' \subseteq Nat /\ BitRun(0, Capacity) \subseteq bits'
  <2>1. PICK garbage \in SUBSET (Capacity .. Span + MAX_RUN) :
           bits' = BitRun(0, Capacity) \cup garbage
    BY DEF PlaceBitmap
  <2>2. Capacity \in Nat
    BY <1>2 DEF Capacity
  <2>3. garbage \subseteq Nat /\ BitRun(0, Capacity) \subseteq Nat
    BY <2>2 DEF BitRun
  <2> QED BY <2>1, <2>3
<1>12. TypeOK'
  <2>1. entries' \in Seq(Entry)
    BY <1>5 DEF WellFormed
  <2>2. map' \in Nat
    BY <1>1, <1>4, <1>6
  <2> QED BY <1>2, <1>3, <1>9, <1>11, <2>1, <2>2 DEF TypeOK, Phases, IInv
<1>13. LayoutOK'
  <2>1. Measured'
    <3>1. \A j \in UsableIn(entries) :
             /\ lowest_address <= entries'[j].base
             /\ EntryEnd(entries'[j]) <= highest_address
      BY <1>2, <1>5, <1>6
    <3> QED BY <3>1, <1>2, <1>3, <1>5 DEF Measured, EntryEnd
  <2>2. \A j \in UsableIn(entries) :
           \/ EntryEnd(entries'[j]) + HHDM <= map'
           \/ map' + size <= entries'[j].base + HHDM
    <3> SUFFICES ASSUME NEW j \in UsableIn(entries)
                 PROVE  \/ EntryEnd(entries'[j]) + HHDM <= map'
                        \/ map' + size <= entries'[j].base + HHDM
      OBVIOUS
    <3>1. CASE j = k
      BY <3>1, <1>1, <1>2, <1>4, <1>5, <1>6
    <3>2. CASE j # k
      <4>1. \/ EntryEnd(entries[j]) <= entries[k].base
            \/ EntryEnd(entries[k]) <= entries[j].base
        BY <1>2, <1>4, <3>2 DEF WellFormed
      <4>2. entries'[j] = entries[j]
        BY <1>5, <3>2
      <4> QED BY <4>1, <4>2, <1>1, <1>2, <1>4, <1>6
    <3> QED BY <3>1, <3>2
  <2>3. /\ WellFormed(entries') /\ size' % PAGE_SIZE = 0
        /\ lowest_address' <= highest_address'
        /\ total_pages' <= Span'
        /\ held' = [c \in Clients |-> {}] /\ clobbered' = FALSE
        /\ \A j \in UsableIn(entries)' :
             \/ EntryEnd(entries'[j]) + HHDM <= map'
             \/ map' + size' <= entries'[j].base + HHDM
    BY <1>2, <1>3, <1>5, <1>7, <1>9, <1>10, <2>2
  <2> QED BY <1>3, <2>1, <2>3 DEF LayoutOK, Placed, EntryEnd, WellFormed
<1>14. BitsOK'
  <2> SUFFICES ASSUME MapCoversSpan' PROVE BootBits'
    BY <1>3 DEF BitsOK
  <2>1. Span < Capacity /\ Capacity \in Nat /\ Span \in Nat
    BY <1>2, <1>8, <1>10 DEF MapCoversSpan, Capacity
  <2>2. \A bit \in 0 .. Span : bit \in bits'
    BY <2>1, <1>11 DEF BitRun
  <2>3. \A j \in UsableIn(entries)' : ~(j <= FreedUpTo')
    BY <1>2, <1>3, <1>5, EntryTypesOK DEF FreedUpTo
  <2> QED BY <2>2, <2>3, <1>10 DEF BootBits
<1>15. ReservedMapNeverClobbered'
  BY <1>2, <1>3 DEF ReservedMapNeverClobbered
<1> QED BY <1>12, <1>13, <1>14, <1>15 DEF IInv

\* Once the bitmap is placed, neither the memory map nor the fields that say
\* where pages and bitmap lie change any more.
Frame == UNCHANGED <<entries, lowest_address, highest_address, total_pages,
                     size, map>>

LEMMA FrameFacts ==
    ASSUME Frame
    PROVE  /\ UsableIn(entries)' = UsableIn(entries)
           /\ Span' = Span
           /\ Capacity' = Capacity
           /\ MapCoversSpan' = MapCoversSpan
           /\ MapReserved' = MapReserved
           /\ Measured' = Measured
           /\ \A bit : /\ PageAt(bit)' = PageAt(bit)
                       /\ BitUsable(bit)' = BitUsable(bit)
                       /\ \A k : InEntry(k, bit)' = InEntry(k, bit)
BY DEF Frame, UsableIn, Span, Capacity, MapCoversSpan, MapReserved, Measured,
       PageAt, BitUsable, InEntry, EntryEnd

LEMMA FrameLayout ==
    ASSUME IInv, Placed, Frame, phase' \in {"print", "free", "ready"},
           phase' # "ready" => held' = [c \in Clients |-> {}] /\ clobbered' = FALSE
    PROVE  LayoutOK'
<1>1. /\ WellFormed(entries') /\ size' % PAGE_SIZE = 0
      /\ lowest_address' <= highest_address'
      /\ total_pages' <= Span'
      /\ Measured'
  BY FrameFacts DEF IInv, LayoutOK, Frame
<1>2. \A k \in UsableIn(entries)' :
         \/ EntryEnd(entries'[k]) + HHDM <= map'
         \/ map' + size' <= entries'[k].base + HHDM
  BY FrameFacts DEF IInv, LayoutOK, Frame
<1> QED BY <1>1, <1>2 DEF LayoutOK, Placed, EntryEnd, WellFormed

\* What is known of the numbers once the bitmap is placed.
LEMMA PlacedFacts ==
    ASSUME IInv, Placed
    PROVE  /\ lowest_address \in Nat /\ highest_address \in Nat
           /\ used_pages \in 0 .. SIZE_MOD - 1
           /\ total_pages \in Nat /\ total_pages <= Span /\ Span \in Nat
           /\ Len(entries) \in Nat
           /\ \A k \in UsableIn(entries) :
                 /\ k \in 1 .. Len(entries)
                 /\ entries[k].base \in 0 .. SIZE_MOD - 1
                 /\ entries[k].length \in 0 .. SIZE_MOD - 1
                 /\ EntryEnd(entries[k]) = entries[k].base + entries[k].length
                 /\ EntryEnd(entries[k]) \in Nat
                 /\ entries[k].base % PAGE_SIZE = 0
                 /\ entries[k].length % PAGE_SIZE = 0
                 /\ EntryEnd(entries[k]) % PAGE_SIZE = 0
                 /\ lowest_address <= entries[k].base
                 /\ EntryEnd(entries[k]) <= highest_address
<1>1. WellFormed(entries) /\ Measured /\ lowest_address <= highest_address
      /\ total_pages <= Span
  BY DEF IInv, LayoutOK
<1>2. /\ lowest_address \in Nat /\ highest_address \in Nat
      /\ used_pages \in 0 .. SIZE_MOD - 1
      /\ total_pages \in Nat
  BY WidthAssumption DEF IInv, TypeOK
<1>3. Span \in Nat
  BY <1>1, <1>2, DivBound, GeometryAssumption DEF Span
<1>4. Len(entries) \in Nat
  BY DEF IInv, TypeOK
<1> QED BY <1>1, <1>2, <1>3, <1>4, EntryTypesOK DEF Measured, WellFormed

LEMMA NoRoomInv == IInv /\ NoRoomForBitmap => IInv'
<1> SUFFICES ASSUME IInv, NoRoomForBitmap PROVE IInv'
  OBVIOUS
<1>1. TypeOK'
  BY DEF NoRoomForBitmap, pmm_bitmap, IInv, TypeOK, Phases
<1>2. LayoutOK'
  BY DEF NoRoomForBitmap, pmm_bitmap, IInv, LayoutOK, Placed, WellFormed, UsableIn, EntryEnd
<1>3. BitsOK'
  BY DEF NoRoomForBitmap, BitsOK
<1>4. ReservedMapNeverClobbered'
  BY DEF NoRoomForBitmap, IInv, LayoutOK, ReservedMapNeverClobbered
<1> QED BY <1>1, <1>2, <1>3, <1>4 DEF IInv

LEMMA PrintInv == IInv /\ (PrintEntry \/ PrintDone) => IInv'
<1> SUFFICES ASSUME IInv, PrintEntry \/ PrintDone PROVE IInv'
  OBVIOUS
<1>1. /\ phase = "print" /\ phase' \in {"print", "free"}
      /\ phase' = "free" => i' = 0
      /\ Frame /\ UNCHANGED <<used_pages, bits, held, clobbered>>
  BY DEF PrintEntry, PrintDone, pmm_bitmap, Frame
<1>2. i' \in Nat
  <2>1. i \in Nat
    BY DEF IInv, TypeOK
  <2>2. PrintCount(i) \in Nat
    BY <2>1, WidthAssumption, Z3 DEF PrintCount
  <2> QED BY <2>2 DEF PrintEntry, PrintDone
<1>3. TypeOK'
  BY <1>1, <1>2 DEF Frame, IInv, TypeOK, Phases
<1>4. held = [c \in Clients |-> {}] /\ clobbered = FALSE
  BY <1>1 DEF IInv, LayoutOK
<1>5. LayoutOK'
  BY <1>1, <1>4, FrameLayout DEF Placed
<1>6. BitsOK'
  <2> SUFFICES ASSUME MapCoversSpan' PROVE BootBits'
    BY <1>1 DEF BitsOK
  <2>1. BootBits
    BY <1>1, <1>4, FrameFacts DEF IInv, BitsOK
  <2>2. FreedUpTo' = 0 /\ FreedUpTo = 0
    BY <1>1 DEF FreedUpTo
  <2> QED BY <1>1, <2>1, <2>2, FrameFacts DEF BootBits
<1>7. ReservedMapNeverClobbered'
  BY <1>1, <1>4 DEF ReservedMapNeverClobbered
<1> QED BY <1>3, <1>5, <1>6, <1>7 DEF IInv

LEMMA FreeEntryInv == IInv /\ FreeEntry => IInv'
<1> SUFFICES ASSUME IInv, FreeEntry PROVE IInv'
  OBVIOUS
<1> USE GeometryAssumption, WidthAssumption
<1> DEFINE e == entries[i + 1]
           n == e.length \div PAGE_SIZE
<1>1. /\ phase = "free" /\ phase' = "free" /\ Placed
      /\ i < Len(entries) /\ i' = i + 1 /\ i \in Nat
      /\ Frame /\ UNCHANGED <<held, clobbered>>
      /\ held = [c \in Clients |-> {}] /\ clobbered = FALSE
  BY DEF FreeEntry, Frame, Placed, IInv, LayoutOK, TypeOK
<1>2. Len(entries) \in Nat /\ i + 1 \in DOMAIN entries
  <2>1. entries \in Seq(Entry)
    BY DEF IInv, TypeOK
  <2> QED BY <1>1, <2>1
<1>3. i + 1 \in UsableIn(entries) <=> e.type = "usable"
  BY <1>2 DEF UsableIn
<1>4. ASSUME e.type = "usable"
      PROVE  /\ bits' = bits \ BitRun((e.base - lowest_address) \div PAGE_SIZE, n)
             /\ used_pages' = SubSize(used_pages, n)
  <2>1. e.base \in Nat /\ lowest_address \in Nat
    BY <1>1, <1>3, <1>4, PlacedFacts
  <2>2. PageIndex(e.base + HHDM) = (e.base - lowest_address) \div PAGE_SIZE
    <3> HIDE DEF e
    <3> QED BY <2>1, SMT DEF PageIndex
  <2>3. KfreeRun(e.base + HHDM, n)
    BY <1>4 DEF FreeEntry
  <2> QED BY <2>2, <2>3 DEF KfreeRun
<1>5. e.type # "usable" => UNCHANGED <<bits, used_pages>>
  BY DEF FreeEntry
<1>6. bits' \subseteq Nat /\ used_pages' \in 0 .. SIZE_MOD - 1
  <2>1. bits \subseteq Nat /\ used_pages \in 0 .. SIZE_MOD - 1
    BY DEF IInv, TypeOK
  <2>2. CASE e.type = "usable"
    <3>1. e.length \in 0 .. SIZE_MOD - 1
      BY <1>1, <1>3, <2>2, PlacedFacts
    <3>2. n \in 0 .. SIZE_MOD - 1
      BY <3>1, DivBound
    <3> QED BY <1>4, <2>1, <2>2, <3>2, SizeRange
  <2> QED BY <1>5, <2>1, <2>2
<1>7. TypeOK'
  BY <1>1, <1>6 DEF Frame, IInv, TypeOK, Phases
<1>8. LayoutOK'
  BY <1>1, FrameLayout
<1>9. BitsOK'
  <2> SUFFICES ASSUME MapCoversSpan' PROVE BootBits'
    BY <1>1 DEF BitsOK
  <2>1. MapCoversSpan /\ lowest_address % PAGE_SIZE = 0
    BY <1>1, FrameFacts DEF MapCoversSpan
  <2>2. BootBits /\ FreedUpTo = i /\ FreedUpTo' = i + 1
    BY <1>1, <2>1 DEF IInv, BitsOK, FreedUpTo
  <2>3. ASSUME e.type = "usable", NEW bit \in Nat
        PROVE  bit \in BitRun((e.base - lowest_address) \div PAGE_SIZE, n)
                 <=> InEntry(i + 1, bit)
    <3>1. /\ lowest_address \in Nat /\ e.base \in Nat /\ e.length \in Nat
          /\ e.base % PAGE_SIZE = 0 /\ e.length % PAGE_SIZE = 0
          /\ lowest_address <= e.base /\ EntryEnd(e) = e.base + e.length
      BY <1>1, <1>3, <2>3, PlacedFacts
    <3>2. bit \in BitRun((e.base - lowest_address) \div PAGE_SIZE, n) <=>
            /\ e.base <= lowest_address + bit * PAGE_SIZE
            /\ lowest_address + bit * PAGE_SIZE < e.base + e.length
      BY <2>1, <3>1, EntryBits
    <3> QED BY <3>1, <3>2 DEF InEntry
  <2>4. ASSUME NEW bit \in 0 .. Span
        PROVE  bit \notin bits' <=>
                 \E k \in UsableIn(entries) : k <= i + 1 /\ InEntry(k, bit)
    <3>1. bit \in Nat
      BY <1>1, PlacedFacts
    <3>2. bit \notin bits <=>
            \E k \in UsableIn(entries) : k <= i /\ InEntry(k, bit)
      BY <2>2 DEF BootBits
    <3>3. bit \notin bits' <=>
            bit \notin bits \/ (e.type = "usable" /\ InEntry(i + 1, bit))
      BY <1>4, <1>5, <2>3, <3>1
    <3>4. \A k \in UsableIn(entries) : k <= i + 1 <=> k <= i \/ k = i + 1
      BY <1>1, PlacedFacts
    <3> QED BY <1>3, <3>2, <3>3, <3>4
  <2> QED BY <1>1, <2>2, <2>4, FrameFacts DEF BootBits
<1>10. ReservedMapNeverClobbered'
  BY <1>1 DEF ReservedMapNeverClobbered
<1> QED BY <1>7, <1>8, <1>9, <1>10 DEF IInv

LEMMA ReservePage0Inv == IInv /\ ReservePage0 => IInv'
<1> SUFFICES ASSUME IInv, ReservePage0 PROVE IInv'
  OBVIOUS
<1>1. /\ phase = "free" /\ phase' = "ready" /\ Placed
      /\ i >= Len(entries) /\ i \in Nat /\ bits' = bits \cup {0}
      /\ Frame /\ UNCHANGED <<i, used_pages, held, clobbered>>
      /\ held = [c \in Clients |-> {}] /\ clobbered = FALSE
  BY DEF ReservePage0, Frame, Placed, IInv, LayoutOK, TypeOK
<1>2. TypeOK'
  BY <1>1 DEF Frame, IInv, TypeOK, Phases
<1>3. LayoutOK'
  BY <1>1, FrameLayout
<1>4. BitsOK'
  <2> SUFFICES ASSUME MapCoversSpan'
               PROVE  ReadyBits' /\ HeldPages' /\ NobodyShares'
    BY <1>1 DEF BitsOK
  <2>1. BootBits /\ FreedUpTo = i
    BY <1>1, FrameFacts DEF IInv, BitsOK, FreedUpTo
  <2>2. \A k \in UsableIn(entries) : k <= i
    BY <1>1, PlacedFacts
  <2>3. \A bit \in 0 .. Span : bit \notin bits <=> BitUsable(bit)
    BY <2>1, <2>2 DEF BootBits, BitUsable
  <2>4. \A c \in Clients : held'[c] = {}
    BY <1>1
  <2>5. ReadyBits'
    BY <1>1, <2>3, <2>4, FrameFacts DEF ReadyBits
  <2> QED BY <2>4, <2>5 DEF HeldPages, NobodyShares
<1>5. ReservedMapNeverClobbered'
  BY <1>1 DEF ReservedMapNeverClobbered
<1> QED BY <1>2, <1>3, <1>4, <1>5 DEF IInv

\* The bits of a page run.
LEMMA PageRunBits ==
    ASSUME NEW bit \in Nat, NEW n \in Nat, lowest_address \in Nat
    PROVE  \A page : page \in PageRun(PageAt(bit), n) <=>
                        \E b \in BitRun(bit, n) : page = PageAt(b)
<1>1. \A j \in 0 .. n - 1 : PageAt(bit) + j * PAGE_SIZE = PageAt(bit + j)
  <2> SUFFICES ASSUME NEW j \in Nat
               PROVE  PageAt(bit) + j * PAGE_SIZE = PageAt(bit + j)
    OBVIOUS
  <2>1. (bit + j) * PAGE_SIZE = bit * PAGE_SIZE + j * PAGE_SIZE
    BY GeometryAssumption, Z3
  <2>2. bit * PAGE_SIZE \in Int /\ j * PAGE_SIZE \in Int
    BY GeometryAssumption
  <2> QED BY <2>1, <2>2, GeometryAssumption DEF PageAt
<1>2. \A b \in BitRun(bit, n) : b - bit \in 0 .. n - 1 /\ bit + (b - bit) = b
  BY DEF BitRun
<1>3. \A j \in 0 .. n - 1 : bit + j \in BitRun(bit, n)
  BY DEF BitRun
<1> QED
  <2> TAKE page
  <2>1. ASSUME page \in PageRun(PageAt(bit), n)
        PROVE  \E b \in BitRun(bit, n) : page = PageAt(b)
    <3>1. PICK j \in 0 .. n - 1 : page = PageAt(bit) + j * PAGE_SIZE
      BY <2>1 DEF PageRun
    <3> QED BY <3>1, <1>1, <1>3
  <2>2. ASSUME NEW b \in BitRun(bit, n), page = PageAt(b)
        PROVE  page \in PageRun(PageAt(bit), n)
    <3> DEFINE j == b - bit
    <3>1. j \in 0 .. n - 1 /\ page = PageAt(bit) + j * PAGE_SIZE
      BY <1>1, <1>2, <2>2
    <3> HIDE DEF j
    <3> QED BY <3>1 DEF PageRun
  <2> QED BY <2>1, <2>2

\* Different bits are different pages, and a page's index is its bit.
LEMMA PageAtInjective ==
    ASSUME NEW a \in Nat, NEW b \in Nat, lowest_address \in Nat
    PROVE  /\ PageAt(a) \in Nat
           /\ PageAt(a) = PageAt(b) => a = b
           /\ PageIndex(PageAt(a)) = a
<1>1. a * PAGE_SIZE \in Nat /\ b * PAGE_SIZE \in Nat
  BY GeometryAssumption
<1>2. a * PAGE_SIZE = b * PAGE_SIZE => a = b
  BY GeometryAssumption, Z3
<1>3. PageAt(a) - HHDM - lowest_address = a * PAGE_SIZE
  BY <1>1, GeometryAssumption DEF PageAt
<1>4. (a * PAGE_SIZE) \div PAGE_SIZE = a
  BY GeometryAssumption, DivOfMultiple
<1> QED BY <1>1, <1>2, <1>3, <1>4, GeometryAssumption DEF PageAt, PageIndex

LEMMA AlignedGap ==
    ASSUME NEW P \in Nat \ {0}, NEW a \in Nat, NEW b \in Nat,
           a % P = 0, b % P = 0, a < b
    PROVE  a + P <= b
<1>1. a = (a \div P) * P /\ a \div P \in Nat
  BY AlignedIsMultiple
<1>2. b = (b \div P) * P /\ b \div P \in Nat
  BY AlignedIsMultiple
<1>3. \A x, y \in Nat : x * P < y * P => x * P + P <= y * P
  BY Z3
<1> QED BY <1>1, <1>2, <1>3

\* With aligned bounds, Span counts exactly the pages between them.
LEMMA EndOfSpan ==
    ASSUME IInv, Placed, lowest_address % PAGE_SIZE = 0
    PROVE  lowest_address + Span * PAGE_SIZE = highest_address
<1> USE GeometryAssumption
<1>1. /\ lowest_address \in Nat /\ highest_address \in Nat
      /\ lowest_address <= highest_address
      /\ highest_address % PAGE_SIZE = 0
  BY PlacedFacts DEF IInv, LayoutOK, Measured
<1> DEFINE d == highest_address - lowest_address
<1>2. d \in Nat /\ d % PAGE_SIZE = 0
  <2>1. (highest_address - lowest_address) % PAGE_SIZE = 0
    BY <1>1, AlignedDifference
  <2> QED BY <1>1, <2>1
<1>3. d = Span * PAGE_SIZE
  <2>1. Span = d \div PAGE_SIZE
    BY DEF Span
  <2> HIDE DEF d
  <2> QED BY <1>2, <2>1, AlignedIsMultiple
<1> QED BY <1>1, <1>3

\* The sentinel's page begins at the highest address, outside every entry.
LEMMA SentinelUnusable ==
    ASSUME IInv, Placed, lowest_address % PAGE_SIZE = 0
    PROVE  ~BitUsable(Span)
BY EndOfSpan, PlacedFacts, GeometryAssumption DEF BitUsable, InEntry

\* A run that the search finds lies between page 0 and the end of memory.
LEMMA FoundRun ==
    ASSUME IInv, phase = "ready", MapCoversSpan, ~clobbered,
           NEW n \in Nat, NEW bit \in 1 .. total_pages - 1, FreeRunAt(bit, n)
    PROVE  \A b \in BitRun(bit, n) :
              /\ b \in 1 .. Span - 1
              /\ b \notin bits
              /\ BitUsable(b)
              /\ \A c \in Clients : PageAt(b) \notin held[c]
<1>1. /\ Placed /\ lowest_address % PAGE_SIZE = 0
      /\ total_pages \in Nat /\ total_pages <= Span /\ Span \in Nat
  BY PlacedFacts DEF Placed, MapCoversSpan
<1>2. ReadyBits
  BY DEF IInv, BitsOK
<1>3. Span \in bits
  BY <1>1, <1>2, SentinelUnusable DEF ReadyBits
<1> SUFFICES ASSUME NEW b \in BitRun(bit, n)
             PROVE  b \in 1 .. Span - 1 /\ b \notin bits
  BY <1>1, <1>2 DEF ReadyBits
<1>4. b \notin bits /\ b \in Int /\ bit <= b /\ b < bit + n
  BY <1>1 DEF FreeRunAt, BitRun
<1>5. Span \notin BitRun(bit, n)
  BY <1>3 DEF FreeRunAt
<1>6. b < Span
  BY <1>1, <1>4, <1>5 DEF BitRun
<1> QED BY <1>1, <1>4, <1>6

LEMMA kallocInv ==
    ASSUME IInv, NEW c \in Clients, kalloc(c)
    PROVE  IInv'
<1> USE GeometryAssumption, WidthAssumption
<1>1. PICK n \in PageCounts, bit \in 0 .. total_pages - 1 :
         /\ ~Refused(n)
         /\ find_first_free_page_range(bit, n)
         /\ bits' = bits \cup BitRun(bit, n)
         /\ held' = [held EXCEPT ![c] = @ \cup PageRun(PageAt(bit), n)]
         /\ used_pages' = AddSize(used_pages, n)
  BY DEF kalloc
<1>2. /\ phase = "ready" /\ phase' = "ready" /\ Placed
      /\ Frame /\ UNCHANGED <<i, clobbered>>
  BY DEF kalloc, Frame, Placed
<1>3. /\ total_pages \in Nat /\ total_pages <= Span /\ Span \in Nat
      /\ lowest_address \in Nat /\ used_pages \in 0 .. SIZE_MOD - 1
      /\ held \in [Clients -> SUBSET Nat] /\ bits \subseteq Nat
  BY <1>2, PlacedFacts DEF IInv, TypeOK
<1>4. n \in 0 .. SIZE_MOD - 1 /\ n \in Nat /\ bit \in Nat
  BY <1>3, RequestAssumption
<1>5. FreeRunAt(bit, n) /\ bit # 0
  <2>1. PICK first \in 0 .. total_pages - 1 :
           find_first_free_page_range(first, n) /\ first * PAGE_SIZE # NULL
    BY <1>1 DEF Refused
  <2>2. first = bit
    BY <1>1, <1>3, <2>1 DEF find_first_free_page_range
  <2>3. 0 * PAGE_SIZE = NULL
    BY DEF NULL
  <2> QED BY <1>1, <2>1, <2>2, <2>3 DEF find_first_free_page_range
<1>6. \A page : page \in PageRun(PageAt(bit), n) <=>
                   \E b \in BitRun(bit, n) : page = PageAt(b)
  BY <1>3, <1>4, PageRunBits
<1>7. BitRun(bit, n) \subseteq Nat
  BY <1>4 DEF BitRun
<1>8. /\ held' \in [Clients -> SUBSET Nat]
      /\ held'[c] = held[c] \cup PageRun(PageAt(bit), n)
      /\ \A d \in Clients : d # c => held'[d] = held[d]
  <2>1. PageRun(PageAt(bit), n) \subseteq Nat
    BY <1>3, <1>6, <1>7, PageAtInjective
  <2> QED BY <1>1, <1>3, <2>1
<1>9. TypeOK'
  <2>1. used_pages' \in 0 .. SIZE_MOD - 1
    BY <1>1, <1>3, <1>4, SizeRange
  <2>2. bits' \subseteq Nat
    BY <1>1, <1>3, <1>7
  <2> QED BY <1>2, <1>8, <2>1, <2>2 DEF Frame, IInv, TypeOK
<1>10. LayoutOK'
  BY <1>2, FrameLayout
<1>11. BitsOK'
  <2> SUFFICES ASSUME MapCoversSpan', ~clobbered'
               PROVE  ReadyBits' /\ HeldPages' /\ NobodyShares'
    BY <1>2 DEF BitsOK
  <2>1. MapCoversSpan /\ ~clobbered /\ ReadyBits /\ HeldPages /\ NobodyShares
    BY <1>2, FrameFacts DEF IInv, BitsOK
  <2>2. \A b \in BitRun(bit, n) :
           /\ b \in 1 .. Span - 1
           /\ b \notin bits
           /\ BitUsable(b)
           /\ \A d \in Clients : PageAt(b) \notin held[d]
    BY <1>2, <1>3, <1>4, <1>5, <2>1, FoundRun
  <2>3. ReadyBits'
    <3> SUFFICES ASSUME NEW b \in 0 .. Span
                 PROVE  b \notin bits' <=>
                          /\ b # 0
                          /\ BitUsable(b)
                          /\ \A d \in Clients : PageAt(b) \notin held'[d]
      BY <1>2, FrameFacts DEF ReadyBits
    <3>1. b \in Nat
      BY <1>3
    <3>2. PageAt(b) \in PageRun(PageAt(bit), n) <=> b \in BitRun(bit, n)
      BY <1>3, <1>6, <1>7, <3>1, PageAtInjective
    <3>3. b \notin bits' <=> b \notin bits /\ b \notin BitRun(bit, n)
      BY <1>1
    <3>4. (\A d \in Clients : PageAt(b) \notin held'[d]) <=>
            /\ \A d \in Clients : PageAt(b) \notin held[d]
            /\ b \notin BitRun(bit, n)
      BY <1>8, <3>2
    <3> QED BY <2>1, <3>3, <3>4 DEF ReadyBits
  <2>4. HeldPages'
    <3> SUFFICES ASSUME NEW d \in Clients, NEW page \in held'[d]
                 PROVE  \E b \in 1 .. Span - 1 : page = PageAt(b) /\ BitUsable(b)
      BY <1>2, FrameFacts DEF HeldPages
    <3>1. CASE page \in held[d]
      BY <2>1, <3>1 DEF HeldPages
    <3>2. CASE page \in PageRun(PageAt(bit), n)
      BY <1>6, <2>2, <3>2
    <3> QED BY <1>8, <3>1, <3>2
  <2>5. NobodyShares'
    <3>1. \A d \in Clients : held[d] \cap PageRun(PageAt(bit), n) = {}
      BY <1>6, <2>2
    <3> QED BY <1>8, <2>1, <3>1 DEF NobodyShares
  <2> QED BY <2>3, <2>4, <2>5
<1>12. ReservedMapNeverClobbered'
  BY <1>2, FrameFacts DEF IInv, ReservedMapNeverClobbered
<1> QED BY <1>9, <1>10, <1>11, <1>12 DEF IInv

LEMMA kfreeInv ==
    ASSUME IInv, NEW c \in Clients, kfree(c)
    PROVE  IInv'
<1> USE GeometryAssumption, WidthAssumption
<1>1. PICK pointer \in held[c], n \in PageCounts \ {0} :
         /\ PageRun(pointer, n) \subseteq held[c]
         /\ KfreeRun(pointer, n)
         /\ held' = [held EXCEPT ![c] = @ \ PageRun(pointer, n)]
  BY DEF kfree
<1>2. /\ phase = "ready" /\ phase' = "ready" /\ Placed
      /\ Frame /\ UNCHANGED <<i, clobbered>>
  BY DEF kfree, Frame, Placed
<1>3. /\ Span \in Nat /\ lowest_address \in Nat
      /\ used_pages \in 0 .. SIZE_MOD - 1
      /\ held \in [Clients -> SUBSET Nat] /\ bits \subseteq Nat
  BY <1>2, PlacedFacts DEF IInv, TypeOK
<1>4. n \in 0 .. SIZE_MOD - 1 /\ n \in Nat
  BY RequestAssumption
<1>5. /\ held' \in [Clients -> SUBSET Nat]
      /\ held'[c] = held[c] \ PageRun(pointer, n)
      /\ \A d \in Clients : d # c => held'[d] = held[d]
  BY <1>1, <1>3
<1>6. TypeOK'
  <2>1. used_pages' \in 0 .. SIZE_MOD - 1
    BY <1>1, <1>3, <1>4, SizeRange DEF KfreeRun
  <2>2. bits' \subseteq Nat
    BY <1>1, <1>3 DEF KfreeRun
  <2> QED BY <1>2, <1>5, <2>1, <2>2 DEF Frame, IInv, TypeOK
<1>7. LayoutOK'
  BY <1>2, FrameLayout
<1>8. BitsOK'
  <2> SUFFICES ASSUME MapCoversSpan', ~clobbered'
               PROVE  ReadyBits' /\ HeldPages' /\ NobodyShares'
    BY <1>2 DEF BitsOK
  <2>1. MapCoversSpan /\ ~clobbered /\ ReadyBits /\ HeldPages /\ NobodyShares
    BY <1>2, FrameFacts DEF IInv, BitsOK
  <2>2. PICK first \in 1 .. Span - 1 : pointer = PageAt(first)
    BY <2>1 DEF HeldPages
  <2>3. first \in Nat /\ PageIndex(pointer) = first
    BY <1>3, <2>2, PageAtInjective
  <2>4. bits' = bits \ BitRun(first, n)
    BY <1>1, <2>3 DEF KfreeRun
  <2>5. \A page : page \in PageRun(pointer, n) <=>
                     \E b \in BitRun(first, n) : page = PageAt(b)
    BY <1>3, <1>4, <2>2, <2>3, PageRunBits
  <2>6. BitRun(first, n) \subseteq Nat
    BY <1>4, <2>3 DEF BitRun
  <2>7. \A b \in BitRun(first, n) : /\ PageAt(b) \in held[c]
                                    /\ b # 0 /\ BitUsable(b)
    <3> SUFFICES ASSUME NEW b \in BitRun(first, n)
                 PROVE  PageAt(b) \in held[c] /\ b # 0 /\ BitUsable(b)
      OBVIOUS
    <3>1. PageAt(b) \in held[c]
      BY <1>1, <2>5
    <3>2. PICK x \in 1 .. Span - 1 : PageAt(b) = PageAt(x) /\ BitUsable(x)
      BY <2>1, <3>1 DEF HeldPages
    <3>3. b = x
      BY <1>3, <2>6, <3>2, PageAtInjective
    <3> QED BY <3>1, <3>2, <3>3
  <2>8. ReadyBits'
    <3> SUFFICES ASSUME NEW b \in 0 .. Span
                 PROVE  b \notin bits' <=>
                          /\ b # 0
                          /\ BitUsable(b)
                          /\ \A d \in Clients : PageAt(b) \notin held'[d]
      BY <1>2, FrameFacts DEF ReadyBits
    <3>1. b \in Nat
      BY <1>3
    <3>2. PageAt(b) \in PageRun(pointer, n) <=> b \in BitRun(first, n)
      BY <1>3, <2>5, <2>6, <3>1, PageAtInjective
    <3>3. CASE b \in BitRun(first, n)
      <4>1. \A d \in Clients : d # c => PageAt(b) \notin held[d]
        BY <2>1, <2>7, <3>3 DEF NobodyShares
      <4> QED BY <1>5, <2>4, <2>7, <3>2, <3>3, <4>1
    <3>4. CASE b \notin BitRun(first, n)
      <4>1. \A d \in Clients : PageAt(b) \in held'[d] <=> PageAt(b) \in held[d]
        BY <1>5, <3>2, <3>4
      <4> QED BY <2>1, <2>4, <3>4, <4>1 DEF ReadyBits
    <3> QED BY <3>3, <3>4
  <2>9. HeldPages' /\ NobodyShares'
    <3>1. \A d \in Clients : held'[d] \subseteq held[d]
      BY <1>5
    <3>2. HeldPages'
      BY <1>2, <2>1, <3>1, FrameFacts DEF HeldPages
    <3> QED BY <2>1, <3>1, <3>2 DEF NobodyShares
  <2> QED BY <2>8, <2>9
<1>9. ReservedMapNeverClobbered'
  BY <1>2, FrameFacts DEF IInv, ReservedMapNeverClobbered
<1> QED BY <1>6, <1>7, <1>8, <1>9 DEF IInv

LEMMA ClientOverwritesRowInv ==
    ASSUME IInv, NEW c \in Clients, ClientOverwritesRow(c)
    PROVE  IInv'
<1> USE GeometryAssumption, WidthAssumption
<1>1. PICK pointer \in held[c], row \in LiveRows :
         /\ RowAddress(row) \in pointer .. pointer + PAGE_SIZE - 1
         /\ \E written \in SUBSET RowBits(row) :
               bits' = (bits \ RowBits(row)) \cup written
  BY DEF ClientOverwritesRow
<1>2. /\ phase = "ready" /\ phase' = "ready" /\ Placed /\ clobbered' = TRUE
      /\ Frame /\ UNCHANGED <<i, used_pages, held>>
  BY DEF ClientOverwritesRow, Frame, Placed
<1>3. /\ Span \in Nat /\ lowest_address \in Nat
      /\ size \in Nat /\ map \in Nat /\ bits \subseteq Nat
      /\ Span \div BITS_PER_ROW \in Nat
  BY <1>2, PlacedFacts, DivBound DEF IInv, TypeOK
<1>4. row \in Nat /\ row <= Span \div BITS_PER_ROW
  BY <1>1, <1>3 DEF LiveRows
<1>5. TypeOK'
  <2>1. RowBits(row) \subseteq Nat
    <3>1. row * BITS_PER_ROW \in Nat
      BY <1>4
    <3> QED BY <3>1 DEF RowBits, BitRun
  <2>2. bits' \subseteq Nat
    BY <1>1, <1>3, <2>1
  <2> QED BY <1>2, <2>2 DEF Frame, IInv, TypeOK
<1>6. LayoutOK'
  BY <1>2, FrameLayout
<1>7. BitsOK'
  BY <1>2 DEF BitsOK
<1>8. ReservedMapNeverClobbered'
  <2> SUFFICES ASSUME MapCoversSpan, MapReserved PROVE FALSE
    BY <1>2, FrameFacts DEF ReservedMapNeverClobbered
  <2>1. HeldPages /\ lowest_address % PAGE_SIZE = 0
    BY <1>2 DEF IInv, BitsOK, ReservedMapNeverClobbered, MapCoversSpan
  <2>2. PICK bit \in 1 .. Span - 1, k \in UsableIn(entries) :
           pointer = PageAt(bit) /\ InEntry(k, bit)
    BY <2>1 DEF HeldPages, BitUsable
  <2> DEFINE at == lowest_address + bit * PAGE_SIZE
             end == EntryEnd(entries[k])
  <2>3. /\ entries[k].base \in Nat /\ end \in Nat /\ end % PAGE_SIZE = 0
        /\ \/ end + HHDM <= map
           \/ map + size <= entries[k].base + HHDM
    BY <1>2, PlacedFacts DEF IInv, LayoutOK
  <2>4. entries[k].base <= at /\ at + PAGE_SIZE <= end /\ pointer = at + HHDM
        /\ at \in Nat
    <3>1. bit \in Nat /\ bit * PAGE_SIZE \in Nat
      BY <1>3
    <3>2. at \in Nat /\ at % PAGE_SIZE = 0
      <4>1. (bit * PAGE_SIZE) % PAGE_SIZE = 0
        BY <3>1, MultipleIsAligned
      <4>2. (lowest_address + bit * PAGE_SIZE) % PAGE_SIZE = 0
        BY <1>3, <2>1, <3>1, <4>1, AlignedSum
      <4> QED BY <1>3, <3>1, <4>2
    <3>3. entries[k].base <= at /\ at < end
      BY <2>2 DEF InEntry
    <3>4. at + PAGE_SIZE <= end
      <4> HIDE DEF at, end
      <4> QED BY <2>3, <3>2, <3>3, AlignedGap
    <3> QED BY <2>2, <3>2, <3>3, <3>4 DEF PageAt
  <2>5. row * ROW_BYTES \in Nat /\ row * ROW_BYTES < size
    <3> DEFINE q == Span \div BITS_PER_ROW
    <3>1. (q + 1) * ROW_BYTES <= size
      BY DEF MapReserved
    <3>2. row * ROW_BYTES < (q + 1) * ROW_BYTES
      <4>1. \A x, y \in Nat, z \in Nat \ {0} : x <= y => x * z < (y + 1) * z
        BY Z3
      <4> QED BY <1>3, <1>4, <4>1
    <3>3. row * ROW_BYTES \in Nat /\ (q + 1) * ROW_BYTES \in Nat
      BY <1>3, <1>4
    <3> QED BY <1>3, <3>1, <3>2, <3>3
  <2>6. /\ map + row * ROW_BYTES >= pointer
        /\ map + row * ROW_BYTES < pointer + PAGE_SIZE
    BY <1>1, <1>3, <2>4, <2>5 DEF RowAddress
  <2> HIDE DEF at, end
  <2> QED BY <1>3, <2>3, <2>4, <2>5, <2>6
<1> QED BY <1>5, <1>6, <1>7, <1>8 DEF IInv

LEMMA StutterInv == IInv /\ UNCHANGED vars => IInv'
<1> SUFFICES ASSUME IInv, UNCHANGED vars PROVE IInv'
  OBVIOUS
<1>1. Frame /\ UNCHANGED <<phase, i, used_pages, bits, held, clobbered>>
  BY DEF vars, pmm_bitmap, Frame
<1>2. TypeOK'
  BY <1>1 DEF Frame, IInv, TypeOK
<1>3. LayoutOK'
  BY <1>1, FrameFacts DEF Frame, IInv, LayoutOK, Placed, WellFormed, EntryEnd
<1>4. BitsOK'
  <2>1. FreedUpTo' = FreedUpTo
    BY <1>1 DEF FreedUpTo
  <2>2. BootBits' <=> BootBits
    BY <1>1, <2>1, FrameFacts DEF BootBits
  <2>3. ReadyBits' <=> ReadyBits
    BY <1>1, FrameFacts DEF ReadyBits
  <2>4. HeldPages' <=> HeldPages
    BY <1>1, FrameFacts DEF HeldPages
  <2>5. NobodyShares' <=> NobodyShares
    BY <1>1 DEF NobodyShares
  <2> QED BY <1>1, <2>2, <2>3, <2>4, <2>5, FrameFacts DEF IInv, BitsOK
<1>5. ReservedMapNeverClobbered'
  BY <1>1, FrameFacts DEF IInv, ReservedMapNeverClobbered
<1> QED BY <1>2, <1>3, <1>4, <1>5 DEF IInv

\* Every step of the memory manager and its clients keeps the invariant.
THEOREM InductiveInvariant == Spec => []IInv
<1>1. Init => IInv
  BY InitInv
<1>2. IInv /\ [Next]_vars => IInv'
  <2> SUFFICES ASSUME IInv, [Next]_vars PROVE IInv'
    OBVIOUS
  <2>1. CASE Measure
    BY <2>1, MeasureInv
  <2>2. CASE PlaceBitmap
    BY <2>2, PlaceBitmapInv
  <2>3. CASE NoRoomForBitmap
    BY <2>3, NoRoomInv
  <2>4. CASE PrintEntry \/ PrintDone
    BY <2>4, PrintInv
  <2>5. CASE FreeEntry
    BY <2>5, FreeEntryInv
  <2>6. CASE ReservePage0
    BY <2>6, ReservePage0Inv
  <2>7. ASSUME NEW c \in Clients, kalloc(c) PROVE IInv'
    BY <2>7, kallocInv
  <2>8. ASSUME NEW c \in Clients, kfree(c) PROVE IInv'
    BY <2>8, kfreeInv
  <2>9. ASSUME NEW c \in Clients, ClientOverwritesRow(c) PROVE IInv'
    BY <2>9, ClientOverwritesRowInv
  <2>10. CASE UNCHANGED vars
    BY <2>10, StutterInv
  <2> QED
    BY <2>1, <2>2, <2>3, <2>4, <2>5, <2>6, <2>7, <2>8, <2>9, <2>10
    DEF Next, Boot, Halted, kallocFails
<1> QED BY <1>1, <1>2, PTL DEF Spec

-----------------------------------------------------------------------------
(***************************************************************************)
(* What the invariant gives.                                               *)
(***************************************************************************)
\* The memory manager's fields keep their types; used_pages never leaves the
\* range of size_t.
THEOREM TypeCorrect == Spec => []TypeOK
<1>1. IInv => TypeOK
  BY DEF IInv
<1> QED BY <1>1, InductiveInvariant, PTL

\* kalloc never gives one page to two clients, for every memory map, page
\* size, number of clients and size of request.
THEOREM PagesNotShared == Spec => []HeldDisjoint
<1>1. IInv => HeldDisjoint
  BY DEF IInv, BitsOK, NobodyShares, HeldDisjoint, Sound
<1> QED BY <1>1, InductiveInvariant, PTL

\* A bitmap that fits into the bytes taken out of the memory map is never
\* handed out to a client, so no client can overwrite it.
THEOREM ReservationSuffices == Spec => []ReservedMapNeverClobbered
<1>1. IInv => ReservedMapNeverClobbered
  BY DEF IInv
<1> QED BY <1>1, InductiveInvariant, PTL

\* The usable pages are the pages of the usable bits.
LEMMA UsablePageBits ==
    ASSUME IInv, Placed, lowest_address % PAGE_SIZE = 0
    PROVE  \A page : page \in UsablePages <=>
              \E bit \in 0 .. Span - 1 : page = PageAt(bit) /\ BitUsable(bit)
<1> USE GeometryAssumption
<1>1. /\ lowest_address \in Nat /\ highest_address \in Nat /\ Span \in Nat
      /\ lowest_address + Span * PAGE_SIZE = highest_address
  BY PlacedFacts, EndOfSpan
<1>2. ASSUME NEW k \in UsableIn(entries), NEW bit \in Nat, InEntry(k, bit)
      PROVE  bit \in 0 .. Span - 1
  <2>1. bit * PAGE_SIZE \in Nat /\ Span * PAGE_SIZE \in Nat
    BY <1>1
  <2>2. bit * PAGE_SIZE < Span * PAGE_SIZE
    <3>1. lowest_address + bit * PAGE_SIZE < EntryEnd(entries[k])
      BY <1>2 DEF InEntry
    <3>2. EntryEnd(entries[k]) <= highest_address /\ EntryEnd(entries[k]) \in Nat
      BY PlacedFacts
    <3> QED BY <1>1, <2>1, <3>1, <3>2
  <2>3. \A x, y \in Nat, z \in Nat \ {0} : x * z < y * z => x < y
    BY Z3
  <2>4. bit < Span
    BY <1>1, <2>2, <2>3
  <2> QED BY <1>1, <2>4
<1>3. ASSUME NEW k \in UsableIn(entries)
      PROVE  \A page :
               page \in PageRun(entries[k].base + HHDM,
                                entries[k].length \div PAGE_SIZE) <=>
                  \E bit \in Nat : page = PageAt(bit) /\ InEntry(k, bit)
  <2> DEFINE base == entries[k].base
             x == (base - lowest_address) \div PAGE_SIZE
             n == entries[k].length \div PAGE_SIZE
  <2>1. /\ base \in Nat /\ entries[k].length \in Nat
        /\ base % PAGE_SIZE = 0 /\ entries[k].length % PAGE_SIZE = 0
        /\ lowest_address <= base
        /\ EntryEnd(entries[k]) = base + entries[k].length
    BY PlacedFacts
  <2>2. x \in Nat /\ n \in Nat /\ base + HHDM = PageAt(x)
    <3> DEFINE d == base - lowest_address
    <3>1. d \in Nat /\ d % PAGE_SIZE = 0
      <4>1. (base - lowest_address) % PAGE_SIZE = 0
        BY <1>1, <2>1, AlignedDifference
      <4> QED BY <1>1, <2>1, <4>1
    <3>2. d \div PAGE_SIZE \in Nat /\ d = (d \div PAGE_SIZE) * PAGE_SIZE
      <4> HIDE DEF d
      <4> QED BY <3>1, AlignedIsMultiple
    <3>3. n \in Nat
      BY <2>1, DivBound
    <3>4. base = lowest_address + x * PAGE_SIZE
      <4> HIDE DEF base
      <4> QED BY <1>1, <2>1, <3>2
    <3> QED BY <3>2, <3>3, <3>4 DEF PageAt
  <2>3. \A bit \in Nat : bit \in BitRun(x, n) <=> InEntry(k, bit)
    <3> SUFFICES ASSUME NEW bit \in Nat
                 PROVE  bit \in BitRun(x, n) <=> InEntry(k, bit)
      OBVIOUS
    <3>1. bit \in BitRun(x, n) <=>
            /\ base <= lowest_address + bit * PAGE_SIZE
            /\ lowest_address + bit * PAGE_SIZE < base + entries[k].length
      BY <1>1, <2>1, EntryBits
    <3> QED BY <2>1, <3>1 DEF InEntry
  <2>4. BitRun(x, n) \subseteq Nat
    BY <2>2 DEF BitRun
  <2>5. \A page : page \in PageRun(PageAt(x), n) <=>
                    \E bit \in BitRun(x, n) : page = PageAt(bit)
    <3> HIDE DEF x, n
    <3> QED BY <1>1, <2>2, PageRunBits
  <2> QED
    <3>1. \A page : page \in PageRun(PageAt(x), n) <=>
                      \E bit \in Nat : page = PageAt(bit) /\ InEntry(k, bit)
      <4> HIDE DEF x, n
      <4> QED BY <2>3, <2>4, <2>5
    <3> QED BY <2>2, <3>1
<1> QED
  <2> TAKE page
  <2>1. page \in UsablePages <=>
          \E k \in UsableIn(entries), bit \in Nat :
             page = PageAt(bit) /\ InEntry(k, bit)
    <3>1. page \in UsablePages <=>
            \E k \in UsableIn(entries) :
               page \in PageRun(entries[k].base + HHDM,
                                entries[k].length \div PAGE_SIZE)
      BY DEF UsablePages
    <3> QED BY <1>3, <3>1
  <2> QED BY <1>1, <1>2, <2>1 DEF BitUsable

\* kalloc and kfree neither lose a page nor invent one: after boot, free and
\* held pages together are always exactly the usable pages but page 0.
THEOREM NoPageLost == Spec => []PagesConserved
<1>1. ASSUME IInv, Sound PROVE PagesConserved
  <2> DEFINE heldPages == UNION {held[c] : c \in Clients}
  <2>1. /\ Placed /\ lowest_address % PAGE_SIZE = 0
        /\ ReadyBits /\ HeldPages
    BY <1>1 DEF IInv, BitsOK, Sound, MapCoversSpan, Placed
  <2>2. lowest_address \in Nat /\ Span \in Nat
    BY <1>1, <2>1, PlacedFacts
  <2>3. \A page : page \in ManagedPages <=>
           \E bit \in 1 .. Span - 1 : page = PageAt(bit) /\ BitUsable(bit)
    <3>1. \A bit \in 0 .. Span - 1 : PageAt(bit) = PageAt(0) <=> bit = 0
      BY <2>2, PageAtInjective
    <3>2. \A bit \in 0 .. Span - 1 : bit # 0 <=> bit \in 1 .. Span - 1
      BY <2>2
    <3>3. \A page : page \in ManagedPages <=>
             \E bit \in 0 .. Span - 1 :
                page = PageAt(bit) /\ BitUsable(bit) /\ bit # 0
      BY <1>1, <2>1, <3>1, UsablePageBits DEF ManagedPages
    <3> QED BY <2>2, <3>2, <3>3
  <2>4. \A page : page \in FreePages <=>
           \E bit \in 1 .. Span - 1 :
              /\ page = PageAt(bit) /\ BitUsable(bit)
              /\ \A c \in Clients : PageAt(bit) \notin held[c]
    <3>1. \A bit \in 0 .. Span - 1 : bit \in FreeBits <=>
             /\ bit \in 1 .. Span - 1 /\ BitUsable(bit)
             /\ \A c \in Clients : PageAt(bit) \notin held[c]
      BY <2>1, <2>2 DEF ReadyBits, FreeBits
    <3>2. FreeBits \subseteq 0 .. Span - 1
      BY DEF FreeBits
    <3>3. 1 .. Span - 1 \subseteq 0 .. Span - 1
      BY <2>2
    <3> QED BY <3>1, <3>2, <3>3 DEF FreePages
  <2>5. \A page : page \in heldPages <=>
           \E c \in Clients : page \in held[c]
    OBVIOUS
  <2>6. FreePages \cap heldPages = {}
    BY <2>4
  <2>7. \A page \in heldPages : page \in ManagedPages
    BY <2>1, <2>3 DEF HeldPages
  <2>8. FreePages \cup heldPages = ManagedPages
    BY <2>3, <2>4, <2>5, <2>7
  <2> QED BY <2>6, <2>8 DEF PagesConserved
<1>2. IInv => PagesConserved
  BY <1>1 DEF PagesConserved
<1> QED BY <1>2, InductiveInvariant, PTL

-----------------------------------------------------------------------------
(***************************************************************************)
(* Two more facts about the physical memory manager, for every memory map,  *)
(* page size, request and set of clients: its counters tell exactly how many *)
(* pages are free, and it implements the page allocator of PageAllocator.   *)
(*                                                                         *)
(* The counters are kept with additions and subtractions of size_t.  That    *)
(* none of them wraps rests on where the bitmap lies: its pages are in the   *)
(* span and never free, so there are never more free pages than             *)
(* total_pages, which the bitmap's pages have been taken off.              *)
(***************************************************************************)

\* The reported usable entries are not empty.
SomeLength == \A k \in UsableIn(entries) : entries[k].length # 0

\* An aligned lowest_address is where an entry begins.
LowestIsBase ==
    lowest_address % PAGE_SIZE = 0 =>
       \E k \in UsableIn(entries) : entries[k].base = lowest_address

\* The bitmap's bytes, as the physical address they begin at.
MapBase == map - HHDM
MapPages == size \div PAGE_SIZE
ReservationInside ==
    /\ lowest_address <= MapBase
    /\ MapBase % PAGE_SIZE = 0
    /\ MapBase + size <= highest_address
    /\ total_pages = Span - MapPages

\* Page 0 is the bitmap's first or a usable one.
Page0 == lowest_address % PAGE_SIZE = 0 => BitUsable(0) \/ MapBase = lowest_address

Counted(pages) == total_pages - used_pages = Cardinality(FreeBits) + pages

AInv ==
    /\ phase \in {"measure", "place"} => SomeLength
    /\ phase = "measure" => entries \in MemMaps
    /\ phase = "place" => LowestIsBase
    /\ Placed => ReservationInside /\ Page0
    /\ MapCoversSpan /\ ~clobbered =>
          /\ phase \in {"print", "free"} => Counted(0)
          /\ phase = "ready" => Counted(UncountedPages)

-----------------------------------------------------------------------------
(***************************************************************************)
(* Counting.                                                               *)
(***************************************************************************)
LEMMA RunCard ==
    ASSUME NEW bit \in Nat, NEW n \in Nat
    PROVE  IsFiniteSet(BitRun(bit, n)) /\ Cardinality(BitRun(bit, n)) = n
<1>1. IsFiniteSet(bit .. bit + n - 1)
      /\ Cardinality(bit .. bit + n - 1)
           = IF bit > bit + n - 1 THEN 0 ELSE bit + n - 1 - bit + 1
  BY FS_Interval
<1> QED
  BY <1>1 DEF BitRun

\* Sets of bits are finite, and a run makes them larger or smaller by its length.
LEMMA AddRun ==
    ASSUME NEW S, IsFiniteSet(S), NEW bit \in Nat, NEW n \in Nat,
           S \cap BitRun(bit, n) = {}
    PROVE  Cardinality(S \cup BitRun(bit, n)) = Cardinality(S) + n
<1> DEFINE run == BitRun(bit, n)
<1>1. IsFiniteSet(run) /\ Cardinality(run) = n
  BY RunCard
<1>2. Cardinality(S \cup run) = Cardinality(S) + Cardinality(run) - Cardinality(S \cap run)
  BY <1>1, FS_Union
<1>3. Cardinality(S \cap run) = 0
  BY FS_EmptySet
<1>4. Cardinality(S) \in Nat
  BY FS_CardinalityType
<1> HIDE DEF run
<1> QED
  BY <1>1, <1>2, <1>3, <1>4 DEF run

LEMMA TakeRun ==
    ASSUME NEW S, IsFiniteSet(S), NEW bit \in Nat, NEW n \in Nat,
           BitRun(bit, n) \subseteq S
    PROVE  /\ IsFiniteSet(S \ BitRun(bit, n))
           /\ Cardinality(S \ BitRun(bit, n)) = Cardinality(S) - n
<1> DEFINE run == BitRun(bit, n)
<1>1. Cardinality(run) = n
  BY RunCard
<1>2. IsFiniteSet(S \ run) /\ Cardinality(S \ run) = Cardinality(S) - Cardinality(S \cap run)
  BY FS_Difference
<1>3. S \cap run = run
  OBVIOUS
<1> QED
  BY <1>1, <1>2, <1>3

LEMMA SpanSets ==
    ASSUME Span \in Nat, NEW S \in SUBSET (0 .. Span - 1)
    PROVE  IsFiniteSet(S) /\ Cardinality(S) \in Nat /\ Cardinality(S) <= Span
<1>1. IsFiniteSet(0 .. Span - 1)
      /\ Cardinality(0 .. Span - 1) = IF 0 > Span - 1 THEN 0 ELSE Span - 1 - 0 + 1
  BY FS_Interval
<1>2. IsFiniteSet(S) /\ Cardinality(S) <= Cardinality(0 .. Span - 1)
  BY <1>1, FS_Subset
<1>3. Cardinality(S) \in Nat
  BY <1>2, FS_CardinalityType
<1> QED
  BY <1>1, <1>2, <1>3

\* The bits of the bitmap's own pages.
MapBits == BitRun((MapBase - lowest_address) \div PAGE_SIZE, MapPages)

LEMMA MapBitsInside ==
    ASSUME IInv, Placed, ReservationInside, lowest_address % PAGE_SIZE = 0
    PROVE  /\ MapBits \subseteq 0 .. Span - 1
           /\ Cardinality(MapBits) = MapPages
           /\ MapPages \in Nat
           /\ \A bit \in MapBits : ~BitUsable(bit)
<1> USE GeometryAssumption
<1>1. /\ lowest_address \in Nat /\ highest_address \in Nat /\ Span \in Nat
      /\ lowest_address + Span * PAGE_SIZE = highest_address
      /\ size \in Nat /\ size % PAGE_SIZE = 0
      /\ MapBase \in Nat /\ lowest_address <= MapBase
      /\ MapBase % PAGE_SIZE = 0 /\ MapBase + size <= highest_address
  <2>1. /\ lowest_address \in Nat /\ highest_address \in Nat /\ Span \in Nat
        /\ lowest_address + Span * PAGE_SIZE = highest_address
    BY PlacedFacts, EndOfSpan
  <2>2. size \in Nat /\ size % PAGE_SIZE = 0 /\ map \in Nat
    BY DEF IInv, TypeOK, LayoutOK
  <2>3. /\ lowest_address <= MapBase
        /\ MapBase % PAGE_SIZE = 0 /\ MapBase + size <= highest_address
    BY DEF ReservationInside
  <2>4. MapBase \in Int
    BY <2>2 DEF MapBase
  <2> QED
    BY <2>1, <2>2, <2>3, <2>4
<1> DEFINE first == (MapBase - lowest_address) \div PAGE_SIZE
<1>2. first \in Nat /\ MapPages \in Nat
  <2> DEFINE d == MapBase - lowest_address
  <2>1. d \in Nat
    BY <1>1
  <2>2. d \div PAGE_SIZE \in Nat
    <3> HIDE DEF d
    <3> QED BY <2>1, DivBound
  <2> QED
    BY <2>2, <1>1, DivBound DEF MapPages
<1>3. Cardinality(MapBits) = MapPages
  <2> HIDE DEF first
  <2> QED BY <1>2, RunCard DEF MapBits, first
<1>4. MapBits \subseteq Nat
  <2> HIDE DEF first
  <2>1. BitRun(first, MapPages) \subseteq Nat
    BY <1>2 DEF BitRun
  <2> QED BY <2>1 DEF MapBits, first
<1>5. ASSUME NEW bit \in MapBits
      PROVE  /\ MapBase <= lowest_address + bit * PAGE_SIZE
             /\ lowest_address + bit * PAGE_SIZE < MapBase + size
             /\ bit \in Nat
  <2>1. bit \in Nat
    BY <1>4
  <2> QED
    BY <1>1, <2>1, <1>5, EntryBits DEF MapBits, MapPages
<1>6. ASSUME NEW bit \in MapBits
      PROVE  bit \in 0 .. Span - 1
  <2>1. bit * PAGE_SIZE \in Nat /\ Span * PAGE_SIZE \in Nat /\ bit \in Nat
    BY <1>1, <1>5
  <2>2. bit * PAGE_SIZE < Span * PAGE_SIZE
    BY <1>1, <1>5, <2>1
  <2>3. \A x, y \in Nat, z \in Nat \ {0} : x * z < y * z => x < y
    BY Z3
  <2> QED
    BY <1>1, <2>1, <2>2, <2>3
<1>7. ASSUME NEW bit \in MapBits
      PROVE  ~BitUsable(bit)
  <2> SUFFICES ASSUME NEW k \in UsableIn(entries), InEntry(k, bit)
               PROVE  FALSE
    BY DEF BitUsable
  <2>1. \/ EntryEnd(entries[k]) + HHDM <= map
        \/ map + size <= entries[k].base + HHDM
    BY DEF IInv, LayoutOK
  <2>2. /\ entries[k].base \in Nat /\ EntryEnd(entries[k]) \in Nat
        /\ map \in Nat /\ bit * PAGE_SIZE \in Nat
    BY PlacedFacts, <1>5 DEF IInv, TypeOK
  <2> QED
    BY <1>1, <1>5, <2>1, <2>2 DEF InEntry, MapBase
<1> QED
  BY <1>2, <1>3, <1>6, <1>7

\* There are no more usable pages than total_pages.
LEMMA UsableAtMostTotal ==
    ASSUME IInv, Placed, ReservationInside, lowest_address % PAGE_SIZE = 0,
           NEW S \in SUBSET (0 .. Span - 1), \A bit \in S : BitUsable(bit)
    PROVE  Cardinality(S) <= total_pages /\ Cardinality(S) \in Nat
<1>1. Span \in Nat /\ total_pages = Span - MapPages
  BY PlacedFacts DEF ReservationInside
<1>2. /\ MapBits \subseteq 0 .. Span - 1 /\ Cardinality(MapBits) = MapPages
      /\ MapPages \in Nat
  BY MapBitsInside
<1>3. S \cap MapBits = {}
  BY MapBitsInside
<1>4. IsFiniteSet(S) /\ IsFiniteSet(MapBits) /\ Cardinality(S) \in Nat
  BY <1>1, <1>2, SpanSets
<1>5. Cardinality(S \cup MapBits)
        = Cardinality(S) + Cardinality(MapBits) - Cardinality(S \cap MapBits)
  BY <1>4, FS_Union
<1>6. Cardinality(S \cap MapBits) = 0
  BY <1>3, FS_EmptySet
<1>7. Cardinality(S \cup MapBits) <= Span
  <2>1. S \cup MapBits \in SUBSET (0 .. Span - 1)
    BY <1>2
  <2> QED BY <1>1, <2>1, SpanSets
<1> QED
  BY <1>1, <1>2, <1>4, <1>5, <1>6, <1>7

-----------------------------------------------------------------------------
(***************************************************************************)
(* The counters, step by step.                                             *)
(***************************************************************************)
\* Until the bitmap is placed there is nothing to count.
LEMMA InitA == Init => AInv
<1> SUFFICES ASSUME Init PROVE AInv
  OBVIOUS
<1>1. phase = "measure" /\ entries \in MemMaps
  BY DEF Init
<1>2. WellFormed(entries) /\ \A k \in UsableIn(entries) : entries[k].length > 0
  BY <1>1, MemMapAssumption
<1>3. SomeLength
  BY <1>2, EntryTypesOK DEF SomeLength
<1> QED
  BY <1>1, <1>3 DEF AInv, Placed

LEMMA MeasureA == IInv /\ AInv /\ Measure => AInv'
<1> SUFFICES ASSUME IInv, AInv, Measure PROVE AInv'
  OBVIOUS
<1>1. phase = "measure" /\ phase' = "place" /\ entries' = entries
      /\ UsableIn(entries)' = UsableIn(entries)
  BY DEF Measure, UsableIn
<1>2. SomeLength'
  BY <1>1 DEF AInv, SomeLength
<1>3. lowest_address' \in {LOWEST_INIT} \cup {entries[k].base : k \in UsableIn(entries)}
  BY DEF Measure
<1>4. LowestIsBase'
  <2> SUFFICES ASSUME lowest_address' % PAGE_SIZE = 0
               PROVE  \E k \in UsableIn(entries) : entries[k].base = lowest_address'
    BY <1>1 DEF LowestIsBase
  <2>1. lowest_address' # LOWEST_INIT
    BY LowestAssumption
  <2> QED
    BY <1>3, <2>1
<1> QED
  BY <1>1, <1>2, <1>4 DEF AInv, Placed

\* The bitmap is placed with every bit set, and total_pages and used_pages
\* are equal.
LEMMA PlaceBitmapA == IInv /\ IInv' /\ AInv /\ PlaceBitmap => AInv'
<1> SUFFICES ASSUME IInv, IInv', AInv, PlaceBitmap PROVE AInv'
  OBVIOUS
<1> USE GeometryAssumption, WidthAssumption
<1>1. PICK k \in DOMAIN entries : /\ Suitable(k)
                                  /\ map' = entries[k].base + HHDM
                                  /\ entries' = EntriesWithout(k)
  BY DEF PlaceBitmap
<1>2. /\ phase = "place" /\ phase' = "print"
      /\ total_pages' = SubSize(total_pages, MapPages)
      /\ used_pages' = total_pages'
      /\ UNCHANGED <<lowest_address, highest_address, size, held, clobbered>>
  BY DEF PlaceBitmap, MapPages
<1>3. /\ WellFormed(entries) /\ Measured
      /\ size \in Nat /\ size % PAGE_SIZE = 0
      /\ lowest_address <= highest_address => total_pages = Span
      /\ lowest_address \in Nat /\ highest_address \in Nat
      /\ total_pages \in Nat
  BY <1>2 DEF IInv, TypeOK, LayoutOK
<1>4. k \in UsableIn(entries) /\ entries[k].length >= size
  BY <1>1 DEF Suitable
<1>5. /\ UsableIn(entries)' = UsableIn(entries)
      /\ \A j \in UsableIn(entries) : j # k => entries'[j] = entries[j]
  <2>1. UsableIn(entries)' = UsableIn(entries')
    BY DEF UsableIn
  <2> QED BY <1>1, <1>3, <1>4, <2>1, EntriesWithoutOK
<1>6. /\ entries[k].base \in Nat /\ entries[k].length \in Nat
      /\ entries[k].base % PAGE_SIZE = 0
      /\ EntryEnd(entries[k]) = entries[k].base + entries[k].length
      /\ lowest_address <= entries[k].base
      /\ EntryEnd(entries[k]) <= highest_address
  BY <1>3, <1>4, EntryTypesOK DEF Measured, WellFormed
<1>7. lowest_address <= highest_address /\ size <= highest_address - lowest_address
  BY <1>3, <1>4, <1>6
<1>8. Span' = Span /\ MapPages' = MapPages /\ MapBase' = entries[k].base
  BY <1>1, <1>2, <1>6 DEF Span, MapPages, MapBase
<1>9. total_pages' = Span - MapPages /\ Span \in Nat
  <2>1. highest_address - lowest_address \in Nat
    BY <1>3, <1>7
  <2>2. Span \in Nat
    BY <2>1, DivBound DEF Span
  <2>3. MapPages \in Nat /\ MapPages <= Span
    BY <1>3, <1>7, <2>1, DivBound, DivMonotone DEF Span, MapPages
  <2> QED
    BY <1>2, <1>3, <1>7, <2>2, <2>3 DEF SubSize
<1>10. ReservationInside'
  BY <1>2, <1>3, <1>4, <1>6, <1>8, <1>9 DEF ReservationInside
<1>11. Page0'
  <2> SUFFICES ASSUME lowest_address % PAGE_SIZE = 0, entries[k].base # lowest_address
               PROVE  BitUsable(0)'
    BY <1>2, <1>8 DEF Page0
  <2>1. PICK j \in UsableIn(entries) : entries[j].base = lowest_address
    BY <1>2 DEF AInv, LowestIsBase
  <2>2. entries'[j] = entries[j]
    BY <2>1, <1>5
  <2>3. entries[j].length # 0
    BY <1>2, <2>1 DEF AInv, SomeLength
  <2>4. entries[j].length \in Nat /\ EntryEnd(entries[j]) = entries[j].base + entries[j].length
    BY <1>3, <2>1, EntryTypesOK
  <2>5. lowest_address < EntryEnd(entries[j])
    BY <1>3, <2>1, <2>3, <2>4
  <2>6. lowest_address + 0 * PAGE_SIZE = lowest_address
    BY <1>3
  <2>7. EntryEnd(entries[j])' = EntryEnd(entries[j])
    BY <2>2 DEF EntryEnd
  <2>8. InEntry(j, 0)'
    BY <1>2, <1>3, <2>1, <2>2, <2>5, <2>6, <2>7 DEF InEntry
  <2> QED
    BY <1>5, <2>1, <2>8 DEF BitUsable
<1>12. ASSUME MapCoversSpan' PROVE Counted(0)'
  <2>1. Span < Capacity /\ Capacity' = Capacity
    BY <1>2, <1>8, <1>12 DEF MapCoversSpan, Capacity
  <2>2. BitRun(0, Capacity) \subseteq bits'
    BY DEF PlaceBitmap
  <2>3. Capacity \in Nat
    BY <1>3 DEF Capacity
  <2>4. FreeBits' = {}
    <3>1. \A bit \in 0 .. Span - 1 : bit \in BitRun(0, Capacity)
      BY <1>9, <2>1, <2>3 DEF BitRun
    <3> QED
      BY <1>8, <2>2, <3>1 DEF FreeBits
  <2>5. Cardinality(FreeBits') = 0
    BY <2>4, FS_EmptySet
  <2>6. total_pages' \in Int
    BY <1>9, <1>3, DivBound DEF MapPages
  <2>7. Cardinality(FreeBits)' = 0
    BY <2>5
  <2> QED
    BY <1>2, <2>6, <2>7 DEF Counted
<1> QED
  BY <1>2, <1>10, <1>11, <1>12 DEF AInv, Placed

\* A usable page lies in the span, and in one entry only.
LEMMA UsableInSpan ==
    ASSUME IInv, Placed, lowest_address % PAGE_SIZE = 0,
           NEW k \in UsableIn(entries), NEW bit \in Nat, InEntry(k, bit)
    PROVE  bit \in 0 .. Span - 1
<1> USE GeometryAssumption
<1>1. /\ lowest_address \in Nat /\ highest_address \in Nat /\ Span \in Nat
      /\ lowest_address + Span * PAGE_SIZE = highest_address
      /\ EntryEnd(entries[k]) <= highest_address /\ EntryEnd(entries[k]) \in Nat
  BY PlacedFacts, EndOfSpan
<1>2. bit * PAGE_SIZE \in Nat /\ Span * PAGE_SIZE \in Nat
  BY <1>1
<1>3. bit * PAGE_SIZE < Span * PAGE_SIZE
  BY <1>1, <1>2 DEF InEntry
<1>4. \A x, y \in Nat, z \in Nat \ {0} : x * z < y * z => x < y
  BY Z3
<1> QED
  BY <1>1, <1>3, <1>4

LEMMA OneEntry ==
    ASSUME IInv, Placed, NEW j \in UsableIn(entries), NEW k \in UsableIn(entries),
           j # k, NEW bit \in Nat, InEntry(j, bit), InEntry(k, bit)
    PROVE  FALSE
<1>1. /\ lowest_address \in Nat
      /\ entries[j].base \in Nat /\ entries[k].base \in Nat
      /\ EntryEnd(entries[j]) \in Nat /\ EntryEnd(entries[k]) \in Nat
  BY PlacedFacts
<1>2. bit * PAGE_SIZE \in Nat
  BY GeometryAssumption
<1>3. \/ EntryEnd(entries[j]) <= entries[k].base
      \/ EntryEnd(entries[k]) <= entries[j].base
  BY DEF IInv, LayoutOK, WellFormed
<1> QED
  BY <1>1, <1>2, <1>3 DEF InEntry

\* What a step that keeps the layout keeps of it.
LEMMA FrameA ==
    ASSUME AInv, Placed, Frame
    PROVE  ReservationInside' /\ Page0' /\ MapPages' = MapPages
           /\ UncountedPages' = UncountedPages
<1>1. ReservationInside /\ Page0
  BY DEF AInv
<1>2. MapBase' = MapBase /\ MapPages' = MapPages /\ UncountedPages' = UncountedPages
  BY DEF Frame, MapBase, MapPages, UncountedPages
<1>3. Span' = Span /\ BitUsable(0)' = BitUsable(0)
  BY FrameFacts
<1> QED
  BY <1>1, <1>2, <1>3 DEF Frame, ReservationInside, Page0

LEMMA PrintA == IInv /\ AInv /\ (PrintEntry \/ PrintDone) => AInv'
<1> SUFFICES ASSUME IInv, AInv, PrintEntry \/ PrintDone PROVE AInv'
  OBVIOUS
<1>1. /\ phase = "print" /\ phase' \in {"print", "free"} /\ Placed
      /\ Frame /\ UNCHANGED <<used_pages, bits, held, clobbered>>
  BY DEF PrintEntry, PrintDone, pmm_bitmap, Frame, Placed
<1>2. FreeBits' = FreeBits /\ MapCoversSpan' = MapCoversSpan
  BY <1>1, FrameFacts DEF FreeBits
<1>3. Counted(0) => Counted(0)'
  BY <1>1, <1>2 DEF Frame, Counted
<1> QED
  BY <1>1, <1>2, <1>3, FrameA DEF AInv

\* Pages that were in no free run before are added to the free ones, and
\* used_pages goes down by as many without falling below zero.
LEMMA FreedRun ==
    ASSUME NEW S, IsFiniteSet(S), NEW b \in Nat, NEW m \in Nat, NEW u \in Nat,
           NEW pages \in Nat, NEW total \in Nat,
           S \cap BitRun(b, m) = {},
           total - u = Cardinality(S) + pages,
           Cardinality(S \cup BitRun(b, m)) + pages <= total
    PROVE  total - SubSize(u, m) = Cardinality(S \cup BitRun(b, m)) + pages
<1>1. Cardinality(S \cup BitRun(b, m)) = Cardinality(S) + m
  BY AddRun
<1>2. Cardinality(S) \in Nat
  BY FS_CardinalityType
<1>3. u >= m
  BY <1>1, <1>2
<1> QED
  BY <1>1, <1>2, <1>3 DEF SubSize

LEMMA FreeEntryA == IInv /\ IInv' /\ AInv /\ FreeEntry => AInv'
<1> SUFFICES ASSUME IInv, IInv', AInv, FreeEntry PROVE AInv'
  OBVIOUS
<1> USE GeometryAssumption, WidthAssumption
<1> DEFINE e == entries[i + 1]
           n == e.length \div PAGE_SIZE
           first == (e.base - lowest_address) \div PAGE_SIZE
<1>1. /\ phase = "free" /\ phase' = "free" /\ Placed /\ Placed'
      /\ i < Len(entries) /\ i' = i + 1 /\ i \in Nat
      /\ Frame /\ UNCHANGED <<held, clobbered>>
      /\ clobbered = FALSE
  BY DEF FreeEntry, Frame, Placed, IInv, LayoutOK, TypeOK
<1>2. ReservationInside' /\ Page0' /\ ReservationInside
  BY <1>1, FrameA DEF AInv
<1> SUFFICES ASSUME MapCoversSpan' PROVE Counted(0)'
  BY <1>1, <1>2 DEF AInv
<1>3. MapCoversSpan /\ lowest_address % PAGE_SIZE = 0 /\ Counted(0)
  BY <1>1, FrameFacts DEF MapCoversSpan, AInv
<1>4. Len(entries) \in Nat /\ i + 1 \in DOMAIN entries
  <2>1. entries \in Seq(Entry)
    BY DEF IInv, TypeOK
  <2> QED BY <1>1, <2>1
<1>5. i + 1 \in UsableIn(entries) <=> e.type = "usable"
  BY <1>4 DEF UsableIn
<1>6. CASE e.type # "usable"
  <2>1. UNCHANGED <<bits, used_pages>>
    BY <1>6 DEF FreeEntry
  <2>2. FreeBits' = FreeBits
    BY <1>1, <2>1, FrameFacts DEF FreeBits
  <2> QED
    BY <1>1, <1>3, <2>1, <2>2 DEF Counted, Frame
<1>7. CASE e.type = "usable"
  <2>1. /\ e.base \in Nat /\ e.length \in Nat /\ lowest_address \in Nat
        /\ e.base % PAGE_SIZE = 0 /\ e.length % PAGE_SIZE = 0
        /\ lowest_address <= e.base /\ EntryEnd(e) = e.base + e.length
        /\ used_pages \in Nat /\ total_pages \in Nat /\ Span \in Nat
    BY <1>1, <1>5, <1>7, PlacedFacts
  <2>2. PageIndex(e.base + HHDM) = first
    <3> HIDE DEF e
    <3> QED BY <2>1, SMT DEF PageIndex
  <2>3. KfreeRun(e.base + HHDM, n)
    BY <1>7 DEF FreeEntry
  <2>4. bits' = bits \ BitRun(first, n) /\ used_pages' = SubSize(used_pages, n)
    BY <2>2, <2>3 DEF KfreeRun
  <2>5. first \in Nat /\ n \in Nat
    <3> DEFINE d == e.base - lowest_address
    <3>1. d \in Nat
      BY <2>1
    <3>2. d \div PAGE_SIZE \in Nat
      <4> HIDE DEF d
      <4> QED BY <3>1, DivBound
    <3> QED
      BY <2>1, <3>2, DivBound
  <2>6. BitRun(first, n) \subseteq Nat
    <3> HIDE DEF first, n
    <3> QED BY <2>5 DEF BitRun
  <2>7. ASSUME NEW bit \in Nat
        PROVE  bit \in BitRun(first, n) <=> InEntry(i + 1, bit)
    <3>1. bit \in BitRun(first, n) <=>
            /\ e.base <= lowest_address + bit * PAGE_SIZE
            /\ lowest_address + bit * PAGE_SIZE < e.base + e.length
      BY <1>3, <2>1, EntryBits
    <3> QED BY <2>1, <3>1 DEF InEntry
  <2>8. BitRun(first, n) \subseteq 0 .. Span - 1
    <3> SUFFICES ASSUME NEW bit \in BitRun(first, n)
                 PROVE  bit \in 0 .. Span - 1
      OBVIOUS
    <3>1. InEntry(i + 1, bit) /\ bit \in Nat
      BY <2>6, <2>7
    <3> QED
      BY <1>1, <1>3, <1>5, <1>7, <3>1, UsableInSpan
  <2>9. FreeBits \cap BitRun(first, n) = {}
    <3> SUFFICES ASSUME NEW bit \in BitRun(first, n), bit \in FreeBits
                 PROVE  FALSE
      OBVIOUS
    <3>1. bit \in 0 .. Span /\ bit \notin bits /\ bit \in Nat
      BY <2>1 DEF FreeBits
    <3>2. BootBits /\ FreedUpTo = i
      BY <1>1, <1>3 DEF IInv, BitsOK, FreedUpTo
    <3>3. PICK k \in UsableIn(entries) : k <= i /\ InEntry(k, bit)
      BY <3>1, <3>2 DEF BootBits
    <3>4. InEntry(i + 1, bit)
      BY <2>7, <3>1
    <3>5. k # i + 1
      BY <1>1, <3>3, PlacedFacts
    <3> QED
      BY <1>1, <1>5, <1>7, <3>1, <3>3, <3>4, <3>5, OneEntry
  <2>10. FreeBits' = FreeBits \cup BitRun(first, n)
    <3>1. Span' = Span
      BY <1>1, FrameFacts
    <3> QED
      BY <2>4, <2>8, <3>1 DEF FreeBits
  <2>11. IsFiniteSet(FreeBits)
    BY <2>1, SpanSets DEF FreeBits
  <2>12. Cardinality(FreeBits') <= total_pages
    <3>1. FreeBits' \subseteq 0 .. Span - 1
      BY <2>8, <2>10 DEF FreeBits
    <3>2. \A bit \in FreeBits' : BitUsable(bit)
      <4> SUFFICES ASSUME NEW bit \in FreeBits' PROVE BitUsable(bit)
        OBVIOUS
      <4>1. bit \in 0 .. Span /\ bit \notin bits'
        BY <2>1, <3>1, <1>1, FrameFacts DEF FreeBits
      <4>2. BootBits' /\ Span' = Span
        BY <1>1, FrameFacts DEF IInv, BitsOK
      <4>3. PICK k \in UsableIn(entries)' : InEntry(k, bit)'
        BY <4>1, <4>2 DEF BootBits
      <4> QED
        BY <1>1, <4>3, FrameFacts DEF BitUsable
    <3> QED
      BY <1>1, <1>2, <1>3, <3>1, <3>2, UsableAtMostTotal
  <2>13. total_pages - SubSize(used_pages, n) = Cardinality(FreeBits \cup BitRun(first, n)) + 0
    <3> DEFINE run == BitRun(first, n)
    <3>1. Cardinality(FreeBits \cup run) \in Nat
      <4>1. FreeBits \cup run \in SUBSET (0 .. Span - 1)
        BY <2>8 DEF FreeBits
      <4> QED BY <2>1, <4>1, SpanSets
    <3>2. Cardinality(FreeBits \cup run) + 0 <= total_pages
      BY <2>10, <2>12, <3>1
    <3>3. total_pages - used_pages = Cardinality(FreeBits) + 0
      BY <1>3 DEF Counted
    <3>4. 0 \in Nat /\ used_pages \in Nat /\ total_pages \in Nat
      BY <2>1
    <3>5. \A pages \in Nat :
             /\ total_pages - used_pages = Cardinality(FreeBits) + pages
             /\ Cardinality(FreeBits \cup run) + pages <= total_pages
             => total_pages - SubSize(used_pages, n) = Cardinality(FreeBits \cup run) + pages
      <4> HIDE DEF e, first, n
      <4> QED BY <2>5, <2>9, <2>11, <3>4, FreedRun
    <3> QED
      BY <3>2, <3>3, <3>5
  <2>14. Cardinality(FreeBits)' = Cardinality(FreeBits \cup BitRun(first, n))
    BY <2>10
  <2> QED
    BY <1>1, <2>4, <2>13, <2>14 DEF Counted, Frame
<1> QED
  BY <1>6, <1>7

\* Page 0 is usable exactly if it is not the bitmap's.
LEMMA Page0Usable ==
    ASSUME IInv, AInv, Placed, MapCoversSpan
    PROVE  /\ BitUsable(0) => 0 \in 0 .. Span - 1 /\ UncountedPages = 1
           /\ ~BitUsable(0) => UncountedPages = 0
<1> USE GeometryAssumption
<1>1. /\ lowest_address % PAGE_SIZE = 0 /\ Page0 /\ ReservationInside
      /\ lowest_address \in Nat /\ map \in Nat /\ size \in Nat /\ Span \in Nat
  BY PlacedFacts DEF AInv, MapCoversSpan, IInv, TypeOK
<1>2. size # 0
  <2>1. Span < size * BITS_PER_ROW
    BY DEF MapCoversSpan, Capacity
  <2>2. 0 * BITS_PER_ROW = 0
    OBVIOUS
  <2> QED
    BY <1>1, <2>1, <2>2
<1>3. UncountedPages = IF MapBase = lowest_address THEN 0 ELSE 1
  BY <1>1 DEF UncountedPages, MapBase
<1>4. ASSUME BitUsable(0) PROVE 0 \in 0 .. Span - 1 /\ MapBase # lowest_address
  <2>1. PICK k \in UsableIn(entries) : InEntry(k, 0)
    BY <1>4 DEF BitUsable
  <2>2. 0 \in 0 .. Span - 1
    BY <1>1, <2>1, UsableInSpan
  <2>3. lowest_address + 0 * PAGE_SIZE = lowest_address
    BY <1>1
  <2>4. /\ entries[k].base \in Nat /\ EntryEnd(entries[k]) \in Nat
        /\ lowest_address <= entries[k].base
    BY PlacedFacts
  <2>5. entries[k].base = lowest_address /\ lowest_address < EntryEnd(entries[k])
    BY <1>1, <2>1, <2>3, <2>4 DEF InEntry
  <2>6. \/ EntryEnd(entries[k]) + HHDM <= map
        \/ map + size <= entries[k].base + HHDM
    BY DEF IInv, LayoutOK
  <2>7. MapBase # lowest_address
    BY <1>1, <1>2, <2>4, <2>5, <2>6 DEF MapBase
  <2> QED
    BY <2>2, <2>7
<1>5. ~BitUsable(0) => MapBase = lowest_address
  BY <1>1 DEF Page0
<1> QED
  BY <1>3, <1>4, <1>5

\* Page 0 is taken without being counted, unless it was not there to take.
LEMMA ReservePage0A == IInv /\ IInv' /\ AInv /\ ReservePage0 => AInv'
<1> SUFFICES ASSUME IInv, IInv', AInv, ReservePage0 PROVE AInv'
  OBVIOUS
<1>1. /\ phase = "free" /\ phase' = "ready" /\ Placed /\ Placed'
      /\ i >= Len(entries) /\ i \in Nat /\ bits' = bits \cup {0}
      /\ Frame /\ UNCHANGED <<used_pages, clobbered>> /\ clobbered = FALSE
  BY DEF ReservePage0, Frame, Placed, IInv, LayoutOK, TypeOK
<1>2. ReservationInside' /\ Page0' /\ UncountedPages' = UncountedPages
  BY <1>1, FrameA
<1> SUFFICES ASSUME MapCoversSpan' PROVE Counted(UncountedPages)'
  BY <1>1, <1>2 DEF AInv
<1>3. MapCoversSpan /\ lowest_address % PAGE_SIZE = 0 /\ Counted(0)
  BY <1>1, FrameFacts DEF MapCoversSpan, AInv
<1>4. \A bit \in 0 .. Span : bit \notin bits <=> BitUsable(bit)
  <2>1. BootBits /\ FreedUpTo = i
    BY <1>1, <1>3 DEF IInv, BitsOK, FreedUpTo
  <2>2. \A k \in UsableIn(entries) : k <= i
    BY <1>1, PlacedFacts
  <2> QED
    BY <2>1, <2>2 DEF BootBits, BitUsable
<1>5. /\ Span \in Nat /\ total_pages \in Nat /\ used_pages \in Nat
      /\ IsFiniteSet(FreeBits) /\ Cardinality(FreeBits) \in Nat
  BY <1>1, PlacedFacts, SpanSets DEF FreeBits
<1>6. FreeBits' = FreeBits \ {0}
  BY <1>1, FrameFacts DEF FreeBits
<1>7. Cardinality(FreeBits \ {0})
        = IF 0 \in FreeBits THEN Cardinality(FreeBits) - 1 ELSE Cardinality(FreeBits)
  BY <1>5, FS_RemoveElement
<1>8. 0 \in FreeBits <=> BitUsable(0)
  <2>1. 0 \in 0 .. Span
    BY <1>5
  <2> QED
    BY <1>1, <1>3, <1>4, <2>1, Page0Usable DEF FreeBits
<1>9. Cardinality(FreeBits)' = Cardinality(FreeBits \ {0})
  BY <1>6
<1>10. total_pages - used_pages = Cardinality(FreeBits)
  BY <1>3, <1>5 DEF Counted
<1>11. total_pages - used_pages = Cardinality(FreeBits)' + UncountedPages
  <2>1. CASE BitUsable(0)
    <3>1. UncountedPages = 1
      BY <1>1, <1>3, <2>1, Page0Usable
    <3> QED
      BY <1>5, <1>7, <1>8, <1>9, <1>10, <2>1, <3>1
  <2>2. CASE ~BitUsable(0)
    <3>1. UncountedPages = 0
      BY <1>1, <1>3, <2>2, Page0Usable
    <3> QED
      BY <1>5, <1>7, <1>8, <1>9, <1>10, <2>2, <3>1
  <2> QED
    BY <2>1, <2>2
<1> QED
  BY <1>1, <1>2, <1>11 DEF Counted, Frame

-----------------------------------------------------------------------------
(***************************************************************************)
(* What kalloc and kfree do to the free bits.                              *)
(***************************************************************************)
LEMMA kallocBits ==
    ASSUME IInv, Sound, NEW c \in Clients, kalloc(c)
    PROVE  \E n \in PageCounts \ {0}, bit \in 1 .. Span - 1 :
              /\ BitRun(bit, n) \subseteq FreeBits
              /\ FreeBits' = FreeBits \ BitRun(bit, n)
              /\ held' = [held EXCEPT ![c] = @ \cup PageRun(PageAt(bit), n)]
              /\ used_pages' = AddSize(used_pages, n)
<1> USE GeometryAssumption, WidthAssumption
<1>1. PICK n \in PageCounts, bit \in 0 .. total_pages - 1 :
         /\ ~Refused(n)
         /\ find_first_free_page_range(bit, n)
         /\ bits' = bits \cup BitRun(bit, n)
         /\ held' = [held EXCEPT ![c] = @ \cup PageRun(PageAt(bit), n)]
         /\ used_pages' = AddSize(used_pages, n)
  BY DEF kalloc
<1>2. phase = "ready" /\ MapCoversSpan /\ ~clobbered /\ Placed /\ Frame
  BY DEF Sound, Placed, kalloc, Frame
<1>3. total_pages \in Nat /\ total_pages <= Span /\ Span \in Nat
  BY <1>2, PlacedFacts
<1>4. n \in Nat /\ n > 0
  BY <1>1, <1>3, RequestAssumption DEF find_first_free_page_range, FreeRunAt
<1>5. FreeRunAt(bit, n) /\ bit # 0
  <2>1. PICK first \in 0 .. total_pages - 1 :
           find_first_free_page_range(first, n) /\ first * PAGE_SIZE # NULL
    BY <1>1 DEF Refused
  <2>2. first = bit
    BY <1>1, <1>3, <2>1 DEF find_first_free_page_range
  <2>3. 0 * PAGE_SIZE = NULL
    BY DEF NULL
  <2> QED BY <1>1, <2>1, <2>2, <2>3 DEF find_first_free_page_range
<1>6. bit \in 1 .. total_pages - 1 /\ bit \in 1 .. Span - 1
  BY <1>3, <1>5
<1>7. \A b \in BitRun(bit, n) : b \in 1 .. Span - 1 /\ b \notin bits
  BY <1>2, <1>4, <1>5, <1>6, FoundRun
<1>8. BitRun(bit, n) \subseteq FreeBits
  BY <1>3, <1>7 DEF FreeBits
<1>9. FreeBits' = FreeBits \ BitRun(bit, n)
  BY <1>1, <1>2, FrameFacts DEF FreeBits
<1>10. n \in PageCounts \ {0}
  BY <1>4
<1>11. /\ BitRun(bit, n) \subseteq FreeBits
       /\ FreeBits' = FreeBits \ BitRun(bit, n)
       /\ held' = [held EXCEPT ![c] = @ \cup PageRun(PageAt(bit), n)]
       /\ used_pages' = AddSize(used_pages, n)
  BY <1>1, <1>8, <1>9
<1> QED
  BY <1>6, <1>10, <1>11

LEMMA kfreeBits ==
    ASSUME IInv, Sound, NEW c \in Clients, kfree(c)
    PROVE  \E n \in PageCounts \ {0}, first \in 1 .. Span - 1 :
              /\ PageAt(first) \in held[c]
              /\ PageRun(PageAt(first), n) \subseteq held[c]
              /\ held' = [held EXCEPT ![c] = @ \ PageRun(PageAt(first), n)]
              /\ BitRun(first, n) \subseteq 1 .. Span - 1
              /\ FreeBits \cap BitRun(first, n) = {}
              /\ FreeBits' = FreeBits \cup BitRun(first, n)
              /\ used_pages' = SubSize(used_pages, n)
<1> USE GeometryAssumption, WidthAssumption
<1>1. PICK pointer \in held[c], n \in PageCounts \ {0} :
         /\ PageRun(pointer, n) \subseteq held[c]
         /\ KfreeRun(pointer, n)
         /\ held' = [held EXCEPT ![c] = @ \ PageRun(pointer, n)]
  BY DEF kfree
<1>2. /\ phase = "ready" /\ MapCoversSpan /\ ~clobbered /\ Placed /\ Frame
      /\ ReadyBits /\ HeldPages
  BY DEF Sound, Placed, kfree, Frame, IInv, BitsOK
<1>3. Span \in Nat /\ lowest_address \in Nat /\ n \in Nat
  BY <1>2, PlacedFacts, RequestAssumption
<1>4. PICK first \in 1 .. Span - 1 : pointer = PageAt(first)
  BY <1>2 DEF HeldPages
<1>5. first \in Nat /\ PageIndex(pointer) = first
  BY <1>3, <1>4, PageAtInjective
<1>6. bits' = bits \ BitRun(first, n) /\ used_pages' = SubSize(used_pages, n)
  BY <1>1, <1>5 DEF KfreeRun
<1>7. BitRun(first, n) \subseteq Nat
  BY <1>3, <1>5 DEF BitRun
<1>8. ASSUME NEW b \in BitRun(first, n)
      PROVE  b \in 1 .. Span - 1 /\ b \notin FreeBits
  <2>1. PageAt(b) \in PageRun(pointer, n)
    BY <1>3, <1>4, <1>5, PageRunBits
  <2>2. PageAt(b) \in held[c]
    BY <1>1, <2>1
  <2>3. PICK x \in 1 .. Span - 1 : PageAt(b) = PageAt(x)
    BY <1>2, <2>2 DEF HeldPages
  <2>4. b = x
    BY <1>3, <1>7, <2>3, PageAtInjective
  <2> QED
    BY <1>2, <1>3, <2>2, <2>3, <2>4 DEF ReadyBits, FreeBits
<1>9. FreeBits' = FreeBits \cup BitRun(first, n)
  <2>1. Span' = Span
    BY <1>2, FrameFacts
  <2>2. \A b \in BitRun(first, n) : b \in 0 .. Span - 1
    BY <1>3, <1>8
  <2> QED
    BY <1>6, <2>1, <2>2 DEF FreeBits
<1>10. /\ BitRun(first, n) \subseteq 1 .. Span - 1
       /\ FreeBits \cap BitRun(first, n) = {}
  BY <1>8
<1>11. /\ PageAt(first) \in held[c]
       /\ PageRun(PageAt(first), n) \subseteq held[c]
       /\ held' = [held EXCEPT ![c] = @ \ PageRun(PageAt(first), n)]
  BY <1>1, <1>4
<1> QED
  BY <1>4, <1>6, <1>9, <1>10, <1>11

LEMMA kallocA ==
    ASSUME IInv, AInv, NEW c \in Clients, kalloc(c)
    PROVE  AInv'
<1>1. /\ phase = "ready" /\ phase' = "ready" /\ Placed
      /\ Frame /\ UNCHANGED clobbered
  BY DEF kalloc, Frame, Placed
<1>2. ReservationInside' /\ Page0' /\ UncountedPages' = UncountedPages
  BY <1>1, FrameA
<1> SUFFICES ASSUME MapCoversSpan', ~clobbered' PROVE Counted(UncountedPages)'
  BY <1>1, <1>2 DEF AInv
<1>3. Sound /\ Counted(UncountedPages)
  BY <1>1, FrameFacts DEF Sound, AInv
<1>4. PICK n \in PageCounts \ {0}, bit \in 1 .. Span - 1 :
         /\ BitRun(bit, n) \subseteq FreeBits
         /\ FreeBits' = FreeBits \ BitRun(bit, n)
         /\ used_pages' = AddSize(used_pages, n)
  BY <1>3, kallocBits
<1>5. /\ Span \in Nat /\ total_pages \in 0 .. SIZE_MOD - 1 /\ used_pages \in Nat
      /\ n \in Nat /\ bit \in Nat /\ UncountedPages \in Nat
  BY <1>1, PlacedFacts, RequestAssumption DEF IInv, TypeOK, UncountedPages
<1>6. IsFiniteSet(FreeBits)
  BY <1>5, SpanSets DEF FreeBits
<1>7. /\ Cardinality(FreeBits \ BitRun(bit, n)) = Cardinality(FreeBits) - n
      /\ IsFiniteSet(FreeBits \ BitRun(bit, n))
  BY <1>4, <1>5, <1>6, TakeRun
<1>8. Cardinality(FreeBits) \in Nat /\ Cardinality(FreeBits \ BitRun(bit, n)) \in Nat
  BY <1>6, <1>7, FS_CardinalityType
<1>9. Cardinality(FreeBits)' = Cardinality(FreeBits) - n
  BY <1>4, <1>7
<1>10. total_pages - used_pages = Cardinality(FreeBits) + UncountedPages
  BY <1>3 DEF Counted
<1>11. n <= Cardinality(FreeBits)
  BY <1>5, <1>7, <1>8
<1>12. used_pages + n < SIZE_MOD
  BY <1>5, <1>8, <1>10, <1>11, WidthAssumption
<1>13. used_pages' = used_pages + n
  BY <1>4, <1>12 DEF AddSize
<1>14. total_pages - used_pages' = Cardinality(FreeBits)' + UncountedPages
  BY <1>5, <1>8, <1>9, <1>10, <1>13
<1> QED
  BY <1>1, <1>2, <1>14 DEF Counted, Frame

LEMMA kfreeA ==
    ASSUME IInv, IInv', AInv, NEW c \in Clients, kfree(c)
    PROVE  AInv'
<1>1. /\ phase = "ready" /\ phase' = "ready" /\ Placed
      /\ Frame /\ UNCHANGED clobbered
  BY DEF kfree, Frame, Placed
<1>2. ReservationInside' /\ Page0' /\ UncountedPages' = UncountedPages /\ ReservationInside
  BY <1>1, FrameA DEF AInv
<1> SUFFICES ASSUME MapCoversSpan', ~clobbered' PROVE Counted(UncountedPages)'
  BY <1>1, <1>2 DEF AInv
<1>3. Sound /\ Counted(UncountedPages) /\ MapCoversSpan /\ lowest_address % PAGE_SIZE = 0
  BY <1>1, FrameFacts DEF Sound, AInv, MapCoversSpan
<1>4. PICK n \in PageCounts \ {0}, first \in 1 .. Span - 1 :
         /\ BitRun(first, n) \subseteq 1 .. Span - 1
         /\ FreeBits \cap BitRun(first, n) = {}
         /\ FreeBits' = FreeBits \cup BitRun(first, n)
         /\ used_pages' = SubSize(used_pages, n)
  BY <1>3, kfreeBits
<1>5. /\ Span \in Nat /\ total_pages \in Nat /\ used_pages \in Nat
      /\ n \in Nat /\ first \in Nat /\ UncountedPages \in {0, 1}
  BY <1>1, PlacedFacts, RequestAssumption DEF UncountedPages
<1>6. IsFiniteSet(FreeBits) /\ FreeBits' \subseteq 0 .. Span - 1
  BY <1>4, <1>5, SpanSets DEF FreeBits
<1>7. \A bit \in FreeBits' : BitUsable(bit) /\ bit # 0
  <2>1. ReadyBits' /\ Span' = Span
    BY <1>1, FrameFacts DEF IInv, BitsOK
  <2>2. \A bit \in FreeBits' : bit \in 0 .. Span /\ bit \notin bits'
    BY <1>5, <1>6, <2>1 DEF FreeBits
  <2> QED
    BY <2>1, <2>2, FrameFacts, <1>1 DEF ReadyBits
<1>8. Cardinality(FreeBits') + UncountedPages <= total_pages
  <2>1. /\ Cardinality(FreeBits') <= total_pages /\ Cardinality(FreeBits') \in Nat
        /\ IsFiniteSet(FreeBits')
    BY <1>1, <1>2, <1>3, <1>5, <1>6, <1>7, UsableAtMostTotal, SpanSets
  <2>2. CASE UncountedPages = 0
    BY <1>5, <2>1, <2>2
  <2>3. CASE UncountedPages = 1
    <3>1. BitUsable(0) /\ 0 \in 0 .. Span - 1
      BY <1>1, <1>3, <2>3, Page0Usable
    <3>2. /\ FreeBits' \cup {0} \in SUBSET (0 .. Span - 1)
          /\ \A bit \in FreeBits' \cup {0} : BitUsable(bit)
      BY <1>6, <1>7, <3>1
    <3>3. Cardinality(FreeBits' \cup {0}) <= total_pages
      BY <1>1, <1>2, <1>3, <3>2, UsableAtMostTotal
    <3>4. Cardinality(FreeBits' \cup {0}) = Cardinality(FreeBits') + 1
      BY <1>7, <2>1, FS_AddElement
    <3> QED
      BY <2>3, <3>3, <3>4
  <2> QED
    BY <1>5, <2>2, <2>3
<1>9. total_pages - SubSize(used_pages, n)
        = Cardinality(FreeBits \cup BitRun(first, n)) + UncountedPages
  <2>1. total_pages - used_pages = Cardinality(FreeBits) + UncountedPages
    BY <1>3 DEF Counted
  <2>2. Cardinality(FreeBits \cup BitRun(first, n)) + UncountedPages <= total_pages
    BY <1>4, <1>8
  <2>3. UncountedPages \in Nat
    BY <1>5
  <2>4. \A pages \in Nat :
           /\ total_pages - used_pages = Cardinality(FreeBits) + pages
           /\ Cardinality(FreeBits \cup BitRun(first, n)) + pages <= total_pages
           => total_pages - SubSize(used_pages, n)
                = Cardinality(FreeBits \cup BitRun(first, n)) + pages
    <3>1. FreeBits \cap BitRun(first, n) = {} /\ IsFiniteSet(FreeBits)
      BY <1>4, <1>6
    <3>2. first \in Nat /\ n \in Nat /\ used_pages \in Nat /\ total_pages \in Nat
      BY <1>5
    <3> QED
      BY <3>1, <3>2, FreedRun
  <2> QED
    BY <2>1, <2>2, <2>3, <2>4
<1>10. Cardinality(FreeBits)' = Cardinality(FreeBits \cup BitRun(first, n))
  BY <1>4
<1> QED
  BY <1>1, <1>2, <1>4, <1>9, <1>10 DEF Counted, Frame

\* The other steps do not count.
LEMMA OtherA ==
    IInv /\ AInv /\ (NoRoomForBitmap \/ UNCHANGED vars
                     \/ \E c \in Clients : ClientOverwritesRow(c)) => AInv'
<1> SUFFICES ASSUME IInv, AInv,
                    NoRoomForBitmap \/ UNCHANGED vars
                       \/ \E c \in Clients : ClientOverwritesRow(c)
             PROVE  AInv'
  OBVIOUS
<1>1. CASE NoRoomForBitmap
  <2>1. phase' = "hcf"
    BY <1>1 DEF NoRoomForBitmap
  <2> QED
    BY <2>1 DEF AInv, Placed
<1>2. CASE UNCHANGED vars
  <2>1. Frame /\ UNCHANGED <<phase, i, used_pages, bits, held, clobbered>>
    BY <1>2 DEF vars, pmm_bitmap, Frame
  <2>2. UNCHANGED <<FreeBits, UncountedPages, MapCoversSpan, Placed>>
    BY <2>1, FrameFacts DEF Frame, FreeBits, UncountedPages, Placed
  <2>3. Counted(0)' = Counted(0) /\ Counted(UncountedPages)' = Counted(UncountedPages)
    BY <2>1, <2>2 DEF Frame, Counted
  <2>4. Placed => ReservationInside' /\ Page0'
    BY <2>1, FrameA
  <2>5. SomeLength' = SomeLength /\ LowestIsBase' = LowestIsBase
    BY <2>1 DEF Frame, SomeLength, LowestIsBase, UsableIn
  <2> QED
    BY <2>1, <2>2, <2>3, <2>4, <2>5 DEF Frame, AInv
<1>3. ASSUME NEW c \in Clients, ClientOverwritesRow(c) PROVE AInv'
  <2>1. Placed /\ Frame /\ phase' = "ready" /\ clobbered' = TRUE
    BY <1>3 DEF ClientOverwritesRow, Placed, Frame
  <2>2. ReservationInside' /\ Page0'
    BY <2>1, FrameA
  <2> QED
    BY <2>1, <2>2 DEF AInv
<1> QED
  BY <1>1, <1>2, <1>3

LEMMA NextA == IInv /\ IInv' /\ AInv /\ [Next]_vars => AInv'
<1> SUFFICES ASSUME IInv, IInv', AInv, [Next]_vars PROVE AInv'
  OBVIOUS
<1>1. CASE Measure
  BY <1>1, MeasureA
<1>2. CASE PlaceBitmap
  BY <1>2, PlaceBitmapA
<1>3. CASE PrintEntry \/ PrintDone
  BY <1>3, PrintA
<1>4. CASE FreeEntry
  BY <1>4, FreeEntryA
<1>5. CASE ReservePage0
  BY <1>5, ReservePage0A
<1>6. ASSUME NEW c \in Clients, kalloc(c) PROVE AInv'
  BY <1>6, kallocA
<1>7. ASSUME NEW c \in Clients, kfree(c) PROVE AInv'
  BY <1>7, kfreeA
<1>8. CASE NoRoomForBitmap \/ UNCHANGED vars
             \/ \E c \in Clients : ClientOverwritesRow(c)
  BY <1>8, OtherA
<1> QED
  BY <1>1, <1>2, <1>3, <1>4, <1>5, <1>6, <1>7, <1>8
  DEF Next, Boot, Halted, kallocFails

(***************************************************************************)
(* total_pages - used_pages is the number of free pages, and one more if     *)
(* page 0 was usable: kalloc's "Out of Memory" is never reported while a page *)
(* is free, and neither kalloc's addition nor kfree's subtraction wraps.     *)
(***************************************************************************)
THEOREM CountersExact == Spec => []AccountingExact
<1>1. Init => AInv
  BY InitA
<1>2. IInv /\ IInv' /\ AInv /\ [Next]_vars => AInv'
  BY NextA
<1>3. AInv => AccountingExact
  BY DEF AInv, AccountingExact, Sound, Counted
<1> QED
  BY <1>1, <1>2, <1>3, InductiveInvariant, PTL DEF Spec

\* The smallest number of a set.
LEMMA LeastElement ==
    ASSUME NEW S \in SUBSET Nat, S # {}
    PROVE  \E k \in S : \A j \in S : k <= j
<1> DEFINE Less == {p \in Nat \X Nat : p[1] < p[2]}
<1>1. IsWellFoundedOn(Less, Nat)
  <2>1. Less = OpToRel(<, Nat)
    BY DEF OpToRel
  <2> HIDE DEF Less
  <2> QED BY <2>1, NatLessThanWellFounded, Zenon
<1> HIDE DEF Less
<1>2. PICK k \in S : \A j \in S : ~ (<<j, k>> \in Less)
  BY <1>1, WFMin
<1>3. ASSUME NEW j \in S
      PROVE  k <= j
  <2>1. j \in Nat /\ k \in Nat
    OBVIOUS
  <2>2. ~ (<<j, k>> \in {p \in Nat \X Nat : p[1] < p[2]})
    BY <1>2 DEF Less
  <2> QED BY <2>1, <2>2
<1> QED BY <1>3

\* A search for one page finds the first free bit below total_pages, which is
\* not bit 0.
LEMMA OnePageFound ==
    ASSUME IInv, Sound, NEW bit \in FreeBits, bit < total_pages, used_pages < total_pages
    PROVE  ~ Refused(1)
<1>1. Placed /\ Span \in Nat /\ total_pages \in Nat /\ used_pages \in Nat
  BY PlacedFacts DEF Sound, Placed
<1> DEFINE S == {b \in 0 .. total_pages - 1 : b \notin bits}
<1>2. bit \in S /\ S \in SUBSET Nat
  BY <1>1 DEF FreeBits
<1>3. PICK b \in S : \A j \in S : b <= j
  <2> HIDE DEF S
  <2> QED BY <1>2, LeastElement
<1>4. /\ b \in 0 .. total_pages - 1 /\ b \in Nat /\ b \notin bits
      /\ \A j \in 0 .. b - 1 : j \in bits
  <2>1. b \in 0 .. total_pages - 1 /\ b \notin bits
    BY <1>3
  <2>2. ASSUME NEW j \in 0 .. b - 1
        PROVE  j \in bits
    <3>1. j \in 0 .. total_pages - 1 /\ ~ (b <= j)
      BY <1>1, <2>1
    <3> QED BY <1>3, <3>1
  <2> QED BY <1>1, <2>1, <2>2
<1>5. \A j \in Nat : BitRun(j, 1) = {j}
  BY DEF BitRun
<1>6. FreeRunAt(b, 1) /\ \A j \in 0 .. b - 1 : ~ FreeRunAt(j, 1)
  BY <1>4, <1>5 DEF FreeRunAt
<1>7. b # 0
  <2>1. ReadyBits
    BY DEF IInv, BitsOK, Sound
  <2>2. 0 \in 0 .. Span
    BY <1>1
  <2>3. 0 \in bits
    BY <2>1, <2>2, Zenon DEF ReadyBits
  <2> QED BY <1>4, <2>3
<1>8. b * PAGE_SIZE # NULL
  BY <1>4, <1>7, GeometryAssumption DEF NULL
<1>9. find_first_free_page_range(b, 1)
  BY <1>6, Zenon DEF find_first_free_page_range
<1> QED BY <1>1, <1>4, <1>8, <1>9 DEF Refused

(***************************************************************************)
(* total_pages is less by the pages of the bitmap and still bounds the search, *)
(* and the counters are exact: when kalloc refuses a single page no page is   *)
(* free, but for as many of the highest as the bitmap takes up.              *)
(***************************************************************************)
THEOREM HighestUnfound == Spec => []OnlyHighestUnfound
<1>1. Init => AInv
  BY InitA
<1>2. IInv /\ IInv' /\ AInv /\ [Next]_vars => AInv'
  BY NextA
<1>3. IInv /\ AInv => OnlyHighestUnfound
  <2> SUFFICES ASSUME IInv, AInv, Sound, Refused(1), NEW bit \in FreeBits
               PROVE  bit \in Span - size \div PAGE_SIZE .. Span - 1
    BY DEF OnlyHighestUnfound
  <2>1. Placed /\ Span \in Nat /\ total_pages \in Nat /\ used_pages \in Nat
    BY PlacedFacts DEF Sound, Placed
  <2>2. total_pages = Span - size \div PAGE_SIZE
    BY <2>1 DEF AInv, ReservationInside, MapPages
  <2>3. bit \in 0 .. Span - 1
    BY DEF FreeBits
  <2>4. used_pages < total_pages
    <3>1. total_pages - used_pages = Cardinality(FreeBits) + UncountedPages
      BY DEF AInv, Sound, Counted
    <3>2. IsFiniteSet(FreeBits)
      BY <2>1, SpanSets DEF FreeBits
    <3>3. Cardinality(FreeBits) \in Nat /\ Cardinality(FreeBits) # 0
      BY <3>2, FS_CardinalityType, FS_EmptySet
    <3>4. UncountedPages \in Nat
      BY DEF UncountedPages
    <3> QED BY <2>1, <3>1, <3>3, <3>4
  <2>5. ~ (bit < total_pages)
    BY <2>4, OnePageFound
  <2> QED BY <2>1, <2>2, <2>3, <2>5
<1> QED
  BY <1>1, <1>2, <1>3, InductiveInvariant, PTL DEF Spec

-----------------------------------------------------------------------------
(***************************************************************************)
(* The page allocator.                                                     *)
(***************************************************************************)
\* Once pmm_initialize has ended on a machine whose bitmap has its memory, the
\* bitmap can be believed for good.
LEMMA TrustedIsSound ==
    ASSUME IInv, Trusted
    PROVE  Sound /\ Placed
  BY DEF IInv, ReservedMapNeverClobbered, Trusted, Sound, Placed

LEMMA StaysTrusted ==
    ASSUME Trusted, Frame, phase' = phase
    PROVE  Trusted'
  BY FrameFacts DEF Trusted

\* Free bits without a run are free pages without a run, and with one.
LEMMA PagesOfBits ==
    ASSUME Span \in Nat, lowest_address \in Nat, NEW bit \in Nat, NEW n \in Nat,
           BitRun(bit, n) \subseteq 0 .. Span - 1
    PROVE  /\ BitRun(bit, n) \subseteq FreeBits
                => PageRun(PageAt(bit), n) \subseteq FreePages
           /\ {PageAt(b) : b \in FreeBits \ BitRun(bit, n)}
                = FreePages \ PageRun(PageAt(bit), n)
           /\ {PageAt(b) : b \in FreeBits \cup BitRun(bit, n)}
                = FreePages \cup PageRun(PageAt(bit), n)
<1>1. \A page : page \in PageRun(PageAt(bit), n) <=>
                   \E b \in BitRun(bit, n) : page = PageAt(b)
  BY PageRunBits
<1>2. \A page : page \in FreePages <=> \E b \in FreeBits : page = PageAt(b)
  BY DEF FreePages
<1>3. \A a \in FreeBits, b \in BitRun(bit, n) : PageAt(a) = PageAt(b) => a = b
  <2>1. FreeBits \subseteq Nat /\ BitRun(bit, n) \subseteq Nat
    BY DEF FreeBits
  <2> QED
    BY <2>1, PageAtInjective
<1>4. BitRun(bit, n) \subseteq FreeBits => PageRun(PageAt(bit), n) \subseteq FreePages
  BY <1>1, <1>2
<1>5. {PageAt(b) : b \in FreeBits \ BitRun(bit, n)} = FreePages \ PageRun(PageAt(bit), n)
  <2>1. ASSUME NEW page
        PROVE  page \in {PageAt(b) : b \in FreeBits \ BitRun(bit, n)}
                 <=> page \in FreePages \ PageRun(PageAt(bit), n)
    BY <1>1, <1>2, <1>3
  <2> QED
    BY <2>1
<1>6. {PageAt(b) : b \in FreeBits \cup BitRun(bit, n)}
        = FreePages \cup PageRun(PageAt(bit), n)
  <2>1. ASSUME NEW page
        PROVE  page \in {PageAt(b) : b \in FreeBits \cup BitRun(bit, n)}
                 <=> page \in FreePages \cup PageRun(PageAt(bit), n)
    BY <1>1, <1>2
  <2> QED
    BY <2>1
<1> QED
  BY <1>4, <1>5, <1>6

LEMMA FreePagesNext ==
    ASSUME Frame
    PROVE  FreePages' = {PageAt(b) : b \in FreeBits'}
<1>1. \A b : PageAt(b)' = PageAt(b)
  BY FrameFacts
<1> QED
  BY <1>1 DEF FreePages

\* The mapping while the bitmap is trusted, and before.
LEMMA Mapping ==
    ASSUME held \in [Clients -> SUBSET Nat]
    PROVE  /\ Trusted =>
                 /\ (IF Trusted THEN FreePages ELSE {}) = FreePages
                 /\ [c \in Clients |-> IF Trusted THEN held[c] ELSE {}] = held
           /\ ~Trusted =>
                 /\ (IF Trusted THEN FreePages ELSE {}) = {}
                 /\ [c \in Clients |-> IF Trusted THEN held[c] ELSE {}]
                      = [c \in Clients |-> {}]
  OBVIOUS

LEMMA kallocRefines ==
    ASSUME IInv, IInv', Trusted, NEW c \in Clients, kalloc(c)
    PROVE  Abstract!Allocate(c)
<1>1. Sound /\ Placed /\ Frame /\ phase' = phase
  BY TrustedIsSound DEF kalloc, Frame
<1>2. Trusted'
  BY <1>1, StaysTrusted
<1>3. PICK n \in PageCounts \ {0}, bit \in 1 .. Span - 1 :
         /\ BitRun(bit, n) \subseteq FreeBits
         /\ FreeBits' = FreeBits \ BitRun(bit, n)
         /\ held' = [held EXCEPT ![c] = @ \cup PageRun(PageAt(bit), n)]
  BY <1>1, kallocBits
<1>4. /\ Span \in Nat /\ lowest_address \in Nat /\ n \in Nat /\ bit \in Nat
      /\ held \in [Clients -> SUBSET Nat] /\ held' \in [Clients -> SUBSET Nat]
  <2>1. Span \in Nat /\ lowest_address \in Nat
    BY <1>1, PlacedFacts
  <2>2. n \in Nat
    BY RequestAssumption
  <2>3. held \in [Clients -> SUBSET Nat] /\ held' \in [Clients -> SUBSET Nat]
    BY DEF IInv, TypeOK
  <2>4. bit \in Nat
    BY <2>1
  <2> QED
    BY <2>1, <2>2, <2>3, <2>4
<1>5. BitRun(bit, n) \subseteq 0 .. Span - 1
  BY <1>3 DEF FreeBits
<1>6. /\ PageRun(PageAt(bit), n) \subseteq FreePages
      /\ FreePages' = FreePages \ PageRun(PageAt(bit), n)
  BY <1>1, <1>3, <1>4, <1>5, PagesOfBits, FreePagesNext
<1>7. PageAt(bit) \in FreePages
  <2>1. bit \in BitRun(bit, n)
    BY <1>3, <1>4 DEF BitRun
  <2> QED
    BY <1>3, <2>1 DEF FreePages
<1>8. Abstract!RunFrom(PageAt(bit), n) = PageRun(PageAt(bit), n)
  BY DEF Abstract!RunFrom, PageRun
<1> DEFINE free == IF Trusted THEN FreePages ELSE {}
           owned == [d \in Clients |-> IF Trusted THEN held[d] ELSE {}]
<1>9. free = FreePages /\ owned = held /\ free' = FreePages' /\ owned' = held'
  BY <1>2, <1>4
<1>10. /\ PageAt(bit) \in free
       /\ Abstract!RunFrom(PageAt(bit), n) \subseteq free
       /\ free' = free \ Abstract!RunFrom(PageAt(bit), n)
       /\ owned' = [owned EXCEPT ![c] = @ \cup Abstract!RunFrom(PageAt(bit), n)]
  BY <1>3, <1>6, <1>7, <1>8, <1>9
<1> QED
  BY <1>2, <1>3, <1>10 DEF Abstract!Allocate

LEMMA kfreeRefines ==
    ASSUME IInv, IInv', Trusted, NEW c \in Clients, kfree(c)
    PROVE  Abstract!Release(c)
<1>1. Sound /\ Placed /\ Frame /\ phase' = phase
  BY TrustedIsSound DEF kfree, Frame, Sound
<1>2. Trusted'
  BY <1>1, StaysTrusted
<1>3. PICK n \in PageCounts \ {0}, first \in 1 .. Span - 1 :
         /\ PageAt(first) \in held[c]
         /\ PageRun(PageAt(first), n) \subseteq held[c]
         /\ held' = [held EXCEPT ![c] = @ \ PageRun(PageAt(first), n)]
         /\ BitRun(first, n) \subseteq 1 .. Span - 1
         /\ FreeBits' = FreeBits \cup BitRun(first, n)
  BY <1>1, kfreeBits
<1>4. /\ Span \in Nat /\ lowest_address \in Nat /\ n \in Nat /\ first \in Nat
      /\ held \in [Clients -> SUBSET Nat] /\ held' \in [Clients -> SUBSET Nat]
  <2>1. Span \in Nat /\ lowest_address \in Nat
    BY <1>1, PlacedFacts
  <2>2. n \in Nat
    BY RequestAssumption
  <2>3. held \in [Clients -> SUBSET Nat] /\ held' \in [Clients -> SUBSET Nat]
    BY DEF IInv, TypeOK
  <2>4. first \in Nat
    BY <2>1
  <2> QED
    BY <2>1, <2>2, <2>3, <2>4
<1>5. BitRun(first, n) \subseteq 0 .. Span - 1
  BY <1>3, <1>4
<1>6. FreePages' = FreePages \cup PageRun(PageAt(first), n)
  BY <1>1, <1>3, <1>4, <1>5, PagesOfBits, FreePagesNext
<1>7. Abstract!RunFrom(PageAt(first), n) = PageRun(PageAt(first), n)
  BY DEF Abstract!RunFrom, PageRun
<1> DEFINE free == IF Trusted THEN FreePages ELSE {}
           owned == [d \in Clients |-> IF Trusted THEN held[d] ELSE {}]
<1>8. free = FreePages /\ owned = held /\ free' = FreePages' /\ owned' = held'
  BY <1>2, <1>4
<1>9. /\ PageAt(first) \in owned[c]
      /\ Abstract!RunFrom(PageAt(first), n) \subseteq owned[c]
      /\ free' = free \cup Abstract!RunFrom(PageAt(first), n)
      /\ owned' = [owned EXCEPT ![c] = @ \ Abstract!RunFrom(PageAt(first), n)]
  BY <1>3, <1>6, <1>7, <1>8
<1> QED
  BY <1>2, <1>3, <1>9 DEF Abstract!Release

\* pmm_initialize hands the pages over with its last step.
LEMMA BootRefines ==
    ASSUME IInv, IInv', ~Trusted, Trusted', [Next]_vars
    PROVE  Abstract!Boot
<1>1. phase' = "ready"
  BY DEF Trusted
<1>2. phase # "ready"
  <2> SUFFICES ASSUME phase = "ready" PROVE FALSE
    OBVIOUS
  <2>1. Frame
    BY <1>1 DEF Next, Boot, Measure, PlaceBitmap, NoRoomForBitmap, PrintEntry, PrintDone,
                FreeEntry, ReservePage0, Halted, kallocFails, kalloc, kfree,
                ClientOverwritesRow, vars, pmm_bitmap, Frame
  <2> QED
    BY <2>1, FrameFacts DEF Trusted
<1>3. held = [c \in Clients |-> {}] /\ held' = held
  <2>1. held = [c \in Clients |-> {}]
    BY <1>2 DEF IInv, LayoutOK
  <2>2. ReservePage0
    BY <1>1, <1>2 DEF Next, Boot, Measure, PlaceBitmap, NoRoomForBitmap, PrintEntry,
                PrintDone, FreeEntry, Halted, kallocFails, kalloc, kfree,
                ClientOverwritesRow, vars
  <2> QED
    BY <2>1, <2>2 DEF ReservePage0
<1>4. /\ [c \in Clients |-> IF Trusted THEN held[c] ELSE {}]
          = [c \in Clients |-> {}]
      /\ [c \in Clients |-> IF Trusted' THEN held'[c] ELSE {}]
          = [c \in Clients |-> {}]
  BY <1>3
<1>5. FreePages' \subseteq Int
  <2>1. Span' \in Nat /\ lowest_address' \in Nat
    <3>1. Placed'
      BY <1>1 DEF Placed
    <3>2. lowest_address' \in Nat /\ highest_address' \in Nat
      BY WidthAssumption DEF IInv, TypeOK
    <3>3. lowest_address' <= highest_address'
      BY <3>1 DEF IInv, LayoutOK
    <3>4. highest_address' - lowest_address' \in Nat
      <4>1. \A x, y \in Nat : x <= y => y - x \in Nat
        OBVIOUS
      <4> QED
        BY <3>2, <3>3, <4>1, Zenon
    <3> QED
      BY <3>2, <3>4, DivBound, GeometryAssumption DEF Span
  <2>2. \A b \in Nat : b * PAGE_SIZE \in Nat
    BY GeometryAssumption
  <2>3. ASSUME NEW page \in FreePages'
        PROVE  page \in Int
    <3>1. PICK b \in FreeBits' : page = (lowest_address + b * PAGE_SIZE + HHDM)'
      BY DEF FreePages, PageAt
    <3>2. b \in Nat
      BY <2>1 DEF FreeBits
    <3>3. page = lowest_address' + b * PAGE_SIZE + HHDM
      BY <3>1
    <3> QED
      BY <2>1, <2>2, <3>2, <3>3, GeometryAssumption
  <2> QED
    BY <2>3
<1> QED
  BY <1>4, <1>5 DEF Abstract!Boot

LEMMA StepRefines ==
    IInv /\ IInv' /\ [Next]_vars => [Abstract!ANext]_(Abstract!avars)
<1> SUFFICES ASSUME IInv, IInv', [Next]_vars
             PROVE  [Abstract!ANext]_(Abstract!avars)
  OBVIOUS
<1>1. CASE ~Trusted /\ ~Trusted'
  <2>1. UNCHANGED Trusted
    BY <1>1 DEF Trusted
  <2>2. UNCHANGED (IF Trusted THEN FreePages ELSE {})
    BY <1>1
  <2>3. UNCHANGED [c \in Clients |-> IF Trusted THEN held[c] ELSE {}]
    BY <1>1
  <2> QED
    BY <2>1, <2>2, <2>3 DEF Abstract!avars
<1>2. CASE ~Trusted /\ Trusted'
  BY <1>2, BootRefines DEF Abstract!ANext
<1>3. CASE Trusted
  <2>1. phase = "ready" /\ ~clobbered /\ MapCoversSpan /\ MapReserved
    BY <1>3, TrustedIsSound DEF Trusted, Sound
  <2>2. ASSUME NEW c \in Clients, kalloc(c)
        PROVE  Abstract!ANext
    BY <1>3, <2>2, kallocRefines DEF Abstract!ANext
  <2>3. ASSUME NEW c \in Clients, kfree(c)
        PROVE  Abstract!ANext
    BY <1>3, <2>3, kfreeRefines DEF Abstract!ANext
  <2>4. ASSUME NEW c \in Clients, ClientOverwritesRow(c)
        PROVE  FALSE
    <3>1. clobbered' /\ Frame
      BY <2>4 DEF ClientOverwritesRow, Frame
    <3> QED
      BY <2>1, <3>1, FrameFacts DEF IInv, ReservedMapNeverClobbered
  <2>5. CASE UNCHANGED vars
    <3>1. Frame /\ UNCHANGED <<phase, bits, held>>
      BY <2>5 DEF vars, pmm_bitmap, Frame
    <3>2. FreePages' = FreePages /\ Trusted' = Trusted
      <4>1. FreeBits' = FreeBits /\ \A b : PageAt(b)' = PageAt(b)
        BY <3>1, FrameFacts DEF FreeBits
      <4>2. FreePages' = {PageAt(b) : b \in FreeBits'}
        BY <3>1, FreePagesNext
      <4> QED
        BY <3>1, <4>1, <4>2, FrameFacts DEF FreePages, Trusted
    <3> QED
      BY <3>1, <3>2 DEF Abstract!avars
  <2> QED
    BY <2>1, <2>2, <2>3, <2>4, <2>5
    DEF Next, Boot, Measure, PlaceBitmap, NoRoomForBitmap, PrintEntry, PrintDone,
        FreeEntry, ReservePage0, Halted, kallocFails
<1> QED
  BY <1>1, <1>2, <1>3

LEMMA InitRefines == Init => Abstract!AInit
<1> SUFFICES ASSUME Init PROVE Abstract!AInit
  OBVIOUS
<1>1. ~Trusted
  BY DEF Init, Trusted
<1> QED
  BY <1>1 DEF Abstract!AInit

(***************************************************************************)
(* On a machine whose bitmap is large enough and has its memory, kalloc and  *)
(* kfree are the page allocator: each request is answered with a run of       *)
(* consecutive free pages and a page is free again only when its owner gives *)
(* it back.                                                                *)
(***************************************************************************)
THEOREM ImplementsAllocator == Spec => ImplementsPageAllocator
<1>1. Init => Abstract!AInit
  BY InitRefines
<1>2. IInv /\ IInv' /\ [Next]_vars => [Abstract!ANext]_(Abstract!avars)
  BY StepRefines
<1> QED
  BY <1>1, <1>2, InductiveInvariant, PTL DEF Spec, ImplementsPageAllocator, Abstract!ASpec
=============================================================================
