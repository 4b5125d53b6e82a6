------------------------------- MODULE Memory -------------------------------
(***************************************************************************)
(* The memory functions of the C library (libc/string): memmove, memcpy,     *)
(* memset, memcmp and strlen, one turn of their loops at a time.             *)
(***************************************************************************)
EXTENDS Integers

CONSTANTS
    Bytes,          \* unsigned char
    LastAddress,    \* The addresses are 0 .. LastAddress
    Memories,       \* What the memory holds when a function is called
    Jobs            \* [fn, dst, src, size, value]: the calls

Addresses == 0 .. LastAddress
MemoryFunctions == {"memmove", "memcpy", "memset", "memcmp", "strlen"}

\* A call stays within the memory; memcpy's pointers are restrict.
Within(j) ==
    /\ j.fn \in MemoryFunctions /\ j.size \in Nat /\ j.value \in Bytes
    /\ j.dst \in Nat /\ j.dst + j.size <= LastAddress + 1
    /\ j.src \in Nat /\ j.src + j.size <= LastAddress + 1
    /\ j.fn = "memcpy" => j.dst + j.size <= j.src \/ j.src + j.size <= j.dst

ASSUME MemoryAssumption ==
    /\ Bytes \subseteq Int /\ LastAddress \in Nat
    /\ Memories \subseteq [Addresses -> Bytes]
    /\ \A j \in Jobs : Within(j)

VARIABLES
    job,
    bytes,
    i,              \* The loop's index, size_t i or len
    returned,
    answer,         \* What memcmp and strlen return
    before          \* History: the memory at the call

memoryVars == <<job, bytes, i, returned, answer, before>>

\* Mutant: always from the front.
AlwaysUpward(j) == j.fn = "memmove"
\* memmove copies from the front if the destination is in front of the source.
Upward(j) == j.fn = "memmove" /\ j.dst < j.src
Downward(j) == j.fn = "memmove" /\ ~ Upward(j)

\* What a string's length is looked for in: up to a zero that is there.
Terminated(m, at) == \E a \in Addresses : a >= at /\ m[a] = 0

MemoryInit ==
    /\ job \in Jobs
    /\ bytes \in Memories
    /\ job.fn = "strlen" => Terminated(bytes, job.src)
    /\ before = bytes
    /\ i = IF Downward(job) THEN job.size ELSE 0
    /\ returned = FALSE
    /\ answer = 0

CopyUp ==
    /\ ~ returned /\ i < job.size
    /\ job.fn = "memcpy" \/ Upward(job)
    /\ bytes' = [bytes EXCEPT ![job.dst + i] = bytes[job.src + i]]
    /\ i' = i + 1
    /\ UNCHANGED <<job, returned, answer, before>>

CopyDown ==
    /\ ~ returned /\ i # 0
    /\ Downward(job)
    /\ bytes' = [bytes EXCEPT ![job.dst + i - 1] = bytes[job.src + i - 1]]
    /\ i' = i - 1
    /\ UNCHANGED <<job, returned, answer, before>>

SetByte ==
    /\ ~ returned /\ i < job.size
    /\ job.fn = "memset"
    /\ bytes' = [bytes EXCEPT ![job.dst + i] = job.value]
    /\ i' = i + 1
    /\ UNCHANGED <<job, returned, answer, before>>

\* Mutant: the bytes, of two bits, are compared as signed ones.
SignedOrder(a, b) ==
    LET signed(x) == IF x > 1 THEN x - 4 ELSE x
    IN  IF signed(a) < signed(b) THEN -1 ELSE IF signed(b) < signed(a) THEN 1 ELSE 0
Order(a, b) == IF a < b THEN -1 ELSE IF b < a THEN 1 ELSE 0

\* memcmp: dst and src are its two arguments.
Compare ==
    /\ ~ returned /\ i < job.size
    /\ job.fn = "memcmp"
    /\ LET a == bytes[job.dst + i]
           b == bytes[job.src + i]
       IN  /\ answer' = Order(a, b)
           /\ returned' = (a # b)
           /\ i' = IF a = b THEN i + 1 ELSE i
    /\ UNCHANGED <<job, bytes, before>>

CountByte ==
    /\ ~ returned
    /\ job.fn = "strlen"
    /\ IF bytes[job.src + i] # 0
       THEN i' = i + 1 /\ UNCHANGED <<answer, returned>>
       ELSE i' = i /\ answer' = i /\ returned' = TRUE
    /\ UNCHANGED <<job, bytes, before>>

LoopEnds ==
    /\ ~ returned /\ job.fn # "strlen"
    /\ i = IF Downward(job) THEN 0 ELSE job.size
    /\ returned' = TRUE
    /\ UNCHANGED <<job, bytes, i, answer, before>>

MemoryNext == CopyUp \/ CopyDown \/ SetByte \/ Compare \/ CountByte \/ LoopEnds

MemorySpec == MemoryInit /\ [][MemoryNext]_memoryVars

-----------------------------------------------------------------------------
(***************************************************************************)
(* Properties.                                                             *)
(***************************************************************************)
\* What the destination is to hold at address a.
Wanted(a) == IF job.fn = "memset" THEN job.value ELSE before[job.src + (a - job.dst)]
InDestination(a) == a >= job.dst /\ a < job.dst + job.size

\* memmove, memcpy and memset leave in the destination what the source held
\* when they were called, however the two overlap, and nothing else changes
\* (memmove's choice of a direction; terminal_scroll moves the picture over
\* itself with it).
MovedAsOne ==
    returned /\ job.fn \in {"memmove", "memcpy", "memset"} =>
       bytes = [a \in Addresses |-> IF InDestination(a) THEN Wanted(a) ELSE before[a]]

\* memcmp answers with the order of the first bytes that differ, and strlen
\* with the place of the first zero; neither writes.
ComparesAndCounts ==
    returned /\ job.fn \in {"memcmp", "strlen"} =>
       /\ bytes = before
       /\ job.fn = "memcmp" =>
             \/ /\ answer = 0
                /\ \A k \in 0 .. job.size - 1 : bytes[job.dst + k] = bytes[job.src + k]
             \/ \E k \in 0 .. job.size - 1 :
                   /\ \A l \in 0 .. k - 1 : bytes[job.dst + l] = bytes[job.src + l]
                   /\ answer = -1 => bytes[job.dst + k] < bytes[job.src + k]
                   /\ answer # -1 => answer = 1 /\ bytes[job.dst + k] > bytes[job.src + k]
       /\ job.fn = "strlen" =>
             /\ bytes[job.src + answer] = 0
             /\ \A k \in 0 .. answer - 1 : bytes[job.src + k] # 0
=============================================================================
