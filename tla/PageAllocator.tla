--------------------------- MODULE PageAllocator ---------------------------
(***************************************************************************)
(* What kalloc and kfree promise, without the bitmap: once the boot code   *)
(* has chosen the pages it manages, every page is either free or owned by  *)
(* exactly one client, a request is answered with a run of consecutive     *)
(* free pages, and a page becomes free again only when its owner gives it  *)
(* back.  Module Pmm implements this allocator.                            *)
(***************************************************************************)
EXTENDS Integers

CONSTANTS
    Clients,    \* the code that calls kalloc and kfree
    PAGE_SIZE,  \* bytes from one page to the next
    PageCounts  \* the page counts a client asks for

VARIABLES
    up,         \* TRUE once the boot code has handed the pages over
    free,       \* the pages, named by their addresses, that nobody owns
    owned       \* owned[c]: the pages client c owns

avars == <<up, free, owned>>

\* The pages of a run of n pages that starts at page p.
RunFrom(p, n) == {p + j * PAGE_SIZE : j \in 0 .. n - 1}

AInit == /\ up = FALSE
         /\ free = {}
         /\ owned = [c \in Clients |-> {}]

\* The boot code decides which pages there are.
Boot == /\ ~up
        /\ up' = TRUE
        /\ free' \subseteq Int
        /\ UNCHANGED owned

Allocate(c) ==
    /\ up
    /\ \E p \in free, n \in PageCounts \ {0} :
          /\ RunFrom(p, n) \subseteq free
          /\ free' = free \ RunFrom(p, n)
          /\ owned' = [owned EXCEPT ![c] = @ \cup RunFrom(p, n)]
    /\ UNCHANGED up

Release(c) ==
    /\ up
    /\ \E p \in owned[c], n \in PageCounts \ {0} :
          /\ RunFrom(p, n) \subseteq owned[c]
          /\ free' = free \cup RunFrom(p, n)
          /\ owned' = [owned EXCEPT ![c] = @ \ RunFrom(p, n)]
    /\ UNCHANGED up

ANext == Boot \/ \E c \in Clients : Allocate(c) \/ Release(c)

ASpec == AInit /\ [][ANext]_avars
=============================================================================
