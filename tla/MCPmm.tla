------------------------------- MODULE MCPmm -------------------------------
(***************************************************************************)
(* Small machines for Pmm: every division of MCPages pages of memory,      *)
(* after one page of low memory that is never reported, into usable and    *)
(* other entries.                                                          *)
(***************************************************************************)
EXTENDS Pmm

CONSTANT MCPages   \* pages of memory the maps describe

\* The first pages of the entries of a memory in which kind[p] is what page p
\* is: neighbours of one kind make one entry.
Starts(kind) == {p \in 1 .. MCPages : p = 1 \/ kind[p] # kind[p - 1]}

MemMapOf(kind) ==
    LET starts == Starts(kind)
        start(j) == CHOOSE p \in starts : Cardinality({q \in starts : q <= p}) = j
        next(j) == IF j = Cardinality(starts) THEN MCPages + 1 ELSE start(j + 1)
    IN [j \in 1 .. Cardinality(starts) |->
          [type |-> kind[start(j)],
           base |-> start(j) * PAGE_SIZE,
           length |-> (next(j) - start(j)) * PAGE_SIZE]]

AllMemMaps == {MemMapOf(kind) : kind \in [1 .. MCPages -> EntryTypes]}
=============================================================================
