---------------------------- MODULE StringProofs ----------------------------
(***************************************************************************)
(* Proofs about the memory functions, for every memory, address, size and    *)
(* overlap, and about itoa, for every number and base.                      *)
(*                                                                         *)
(* memmove: what has been copied stands in the part of the destination that   *)
(* the loop has passed, and the part of the source that is still to be read   *)
(* has not been written.                                                   *)
(*                                                                         *)
(* itoa: the digits are the remainders of a series of quotients, the first of *)
(* them the number and the last 0; reading the digits from the other end goes *)
(* through the same quotients backwards.  reverse is at any time a swap of as *)
(* many characters at either end as start says.                            *)
(***************************************************************************)
EXTENDS Memory, Itoa, SequenceTheorems, WellFoundedInduction, TLAPS

-----------------------------------------------------------------------------
(***************************************************************************)
(* memmove, memcpy, memset, memcmp and strlen.                              *)
(***************************************************************************)
Movers == {"memmove", "memcpy", "memset"}

\* The part of the destination the loop has passed.
Passed(a) ==
    IF Downward(job) THEN a >= job.dst + i /\ a < job.dst + job.size
    ELSE a >= job.dst /\ a < job.dst + i

TypeInv ==
    /\ job \in Jobs
    /\ bytes \in [Addresses -> Bytes] /\ before \in [Addresses -> Bytes]
    /\ i \in Nat /\ returned \in BOOLEAN
    /\ job.fn # "strlen" => i <= job.size

MovedSoFar ==
    job.fn \in Movers =>
       /\ \A a \in Addresses : bytes[a] = IF Passed(a) THEN Wanted(a) ELSE before[a]
       /\ returned => i = IF Downward(job) THEN 0 ELSE job.size

LookedSoFar ==
    job.fn \in {"memcmp", "strlen"} =>
       /\ bytes = before
       /\ job.fn = "memcmp" =>
             /\ \A k \in 0 .. i - 1 : bytes[job.dst + k] = bytes[job.src + k]
             /\ returned =>
                   IF i = job.size THEN answer = 0
                   ELSE /\ answer = Order(bytes[job.dst + i], bytes[job.src + i])
                        /\ bytes[job.dst + i] # bytes[job.src + i]
             /\ ~ returned => answer = 0
       /\ job.fn = "strlen" =>
             /\ \A k \in 0 .. i - 1 : bytes[job.src + k] # 0
             /\ returned => answer = i /\ bytes[job.src + i] = 0

\* What is assumed of the call.
JobInv ==
    /\ job.fn \in MemoryFunctions /\ job.size \in Nat /\ job.value \in Bytes
    /\ job.dst \in Nat /\ job.dst + job.size <= LastAddress + 1
    /\ job.src \in Nat /\ job.src + job.size <= LastAddress + 1
    /\ job.fn = "memcpy" => job.dst + job.size <= job.src \/ job.src + job.size <= job.dst

MemoryInv == TypeInv /\ MovedSoFar /\ LookedSoFar

LEMMA JobFields == job \in Jobs => JobInv /\ LastAddress \in Nat
<1> SUFFICES ASSUME job \in Jobs PROVE JobInv /\ LastAddress \in Nat
  OBVIOUS
<1>1. Within(job) /\ LastAddress \in Nat
  BY MemoryAssumption
<1> QED
  BY <1>1 DEF Within, JobInv

LEMMA InitMemory == MemoryInit => MemoryInv
<1> SUFFICES ASSUME MemoryInit PROVE MemoryInv
  OBVIOUS
<1>1. TypeInv
  <2>1. job \in Jobs /\ JobInv
    BY JobFields DEF MemoryInit
  <2>2. returned \in BOOLEAN
    BY Zenon DEF MemoryInit
  <2>3. bytes \in [Addresses -> Bytes] /\ before = bytes
    BY MemoryAssumption DEF MemoryInit
  <2>4. i \in Nat /\ i <= job.size
    BY <2>1 DEF MemoryInit, JobInv
  <2> QED
    BY <2>1, <2>2, <2>3, <2>4 DEF TypeInv
<1>2. MovedSoFar
  <2>1. job \in Jobs /\ JobInv
    BY JobFields DEF MemoryInit
  <2> QED
    BY <2>1 DEF MemoryInit, MovedSoFar, Passed, Downward, Addresses, JobInv
<1>3. LookedSoFar
  BY DEF MemoryInit, LookedSoFar, Downward
<1> QED
  BY <1>1, <1>2, <1>3 DEF MemoryInv

LEMMA NextMemory == MemoryInv /\ [MemoryNext]_memoryVars => MemoryInv'
<1> SUFFICES ASSUME MemoryInv, [MemoryNext]_memoryVars PROVE MemoryInv'
  OBVIOUS
<1>0. JobInv /\ LastAddress \in Nat
  BY JobFields DEF MemoryInv, TypeInv
<1>1. CASE CopyUp
  <2>1. TypeInv'
    BY <1>0, <1>1 DEF MemoryInv, TypeInv, JobInv, CopyUp, Addresses
  <2>2. ~ Downward(job)
    BY <1>1 DEF MemoryInv, TypeInv, JobInv, CopyUp, Downward, Upward
  <2>3. bytes[job.src + i] = before[job.src + i]
    BY <1>0, <1>1, <2>2 DEF MemoryInv, TypeInv, JobInv, CopyUp, MovedSoFar, Movers, Passed, Addresses, Upward
  <2>4. MovedSoFar'
    <3>1. ASSUME NEW a \in Addresses
          PROVE  bytes'[a] = IF Passed(a)' THEN Wanted(a)' ELSE before'[a]
      <4>0. a \in Int /\ bytes[a] = IF Passed(a) THEN Wanted(a) ELSE before[a]
        BY <1>0, <1>1, <2>2, <2>3 DEF MemoryInv, TypeInv, CopyUp, MovedSoFar, Movers, Addresses, Upward
      <4>1. CASE a = job.dst + i
        <5>1. bytes'[a] = before[job.src + i] /\ Passed(a)'
          BY <1>0, <1>1, <4>0, <4>1, <2>2, <2>3 DEF MemoryInv, TypeInv, JobInv, CopyUp, Passed, Downward, Upward, Addresses
        <5>2. Wanted(a)' = before[job.src + i]
          BY <1>0, <1>1, <4>0, <4>1, <2>2, <2>3 DEF MemoryInv, TypeInv, JobInv, CopyUp, Wanted, Upward
        <5> QED
          BY <5>1, <5>2
      <4>2. CASE a # job.dst + i
        <5>1. bytes'[a] = bytes[a] /\ Wanted(a)' = Wanted(a) /\ before'[a] = before[a]
          BY <1>1, <4>2 DEF MemoryInv, TypeInv, CopyUp, Wanted
        <5>2. Passed(a)' <=> Passed(a)
          BY <1>0, <1>1, <4>0, <4>2, <2>2, <2>3 DEF MemoryInv, TypeInv, JobInv, CopyUp, Passed, Downward, Upward
        <5> QED
          BY <4>0, <5>1, <5>2
      <4> QED
        BY <4>1, <4>2
    <3>2. ~ returned'
      BY <1>1 DEF CopyUp
    <3> QED
      BY <3>1, <3>2 DEF MovedSoFar
  <2>5. LookedSoFar'
    BY <1>1 DEF MemoryInv, TypeInv, JobInv, CopyUp, LookedSoFar, Upward
  <2> QED
    BY <2>1, <2>4, <2>5 DEF MemoryInv
<1>2. CASE CopyDown
  <2>1. TypeInv'
    BY <1>0, <1>2 DEF MemoryInv, TypeInv, JobInv, CopyDown, Addresses, Downward
  <2>2. job.fn = "memmove" /\ job.src <= job.dst /\ i - 1 \in Nat /\ i <= job.size
    BY <1>0, <1>2 DEF MemoryInv, TypeInv, JobInv, CopyDown, Downward, Upward
  <2>3. bytes[job.src + i - 1] = before[job.src + i - 1]
    <3>1. i - 1 < job.size /\ job.src + i - 1 \in Addresses
      BY <1>0, <1>2, <2>2 DEF MemoryInv, TypeInv, JobInv, CopyDown, Addresses
    <3>2. Downward(job) /\ ~ (job.src + i - 1 >= job.dst + i)
      BY <1>0, <1>2, <2>2 DEF MemoryInv, TypeInv, JobInv, CopyDown
    <3>3. ~ Passed(job.src + i - 1)
      BY <3>2, Zenon DEF Passed
    <3>4. \A a \in Addresses : bytes[a] = IF Passed(a) THEN Wanted(a) ELSE before[a]
      BY <2>2 DEF MemoryInv, MovedSoFar, Movers
    <3> QED BY <3>1, <3>3, <3>4
  <2>4. MovedSoFar'
    <3>1. ASSUME NEW a \in Addresses
          PROVE  bytes'[a] = IF Passed(a)' THEN Wanted(a)' ELSE before'[a]
      <4>0. a \in Int /\ bytes[a] = IF Passed(a) THEN Wanted(a) ELSE before[a]
        BY <1>0, <1>2, <2>2, <2>3 DEF MemoryInv, TypeInv, CopyDown, MovedSoFar, Movers, Addresses, Upward
      <4>1. CASE a = job.dst + i - 1
        <5>1. bytes'[a] = before[job.src + i - 1] /\ Passed(a)'
          BY <1>0, <1>2, <4>0, <4>1, <2>2, <2>3 DEF MemoryInv, TypeInv, JobInv, CopyDown, Passed, Downward, Upward, Addresses
        <5>2. Wanted(a)' = before[job.src + i - 1]
          BY <1>0, <1>2, <4>0, <4>1, <2>2, <2>3 DEF MemoryInv, TypeInv, JobInv, CopyDown, Wanted, Upward
        <5> QED
          BY <5>1, <5>2
      <4>2. CASE a # job.dst + i - 1
        <5>1. bytes'[a] = bytes[a] /\ Wanted(a)' = Wanted(a) /\ before'[a] = before[a]
          BY <1>2, <4>2 DEF MemoryInv, TypeInv, CopyDown, Wanted
        <5>2. Passed(a)' <=> Passed(a)
          BY <1>0, <1>2, <4>0, <4>2, <2>2, <2>3 DEF MemoryInv, TypeInv, JobInv, CopyDown, Passed, Downward, Upward
        <5> QED
          BY <4>0, <5>1, <5>2
      <4> QED
        BY <4>1, <4>2
    <3>2. ~ returned'
      BY <1>2 DEF CopyDown
    <3> QED
      BY <3>1, <3>2 DEF MovedSoFar
  <2>5. LookedSoFar'
    BY <1>2, <2>2 DEF MemoryInv, TypeInv, JobInv, CopyDown, LookedSoFar
  <2> QED
    BY <2>1, <2>4, <2>5 DEF MemoryInv
<1>3. CASE SetByte
  <2>1. TypeInv'
    BY <1>0, <1>3 DEF MemoryInv, TypeInv, JobInv, SetByte, Addresses
  <2>2. MovedSoFar'
    <3>1. ASSUME NEW a \in Addresses
          PROVE  bytes'[a] = IF Passed(a)' THEN Wanted(a)' ELSE before'[a]
      <4>0. a \in Int /\ bytes[a] = IF Passed(a) THEN Wanted(a) ELSE before[a]
        BY <1>0, <1>3 DEF MemoryInv, TypeInv, SetByte, MovedSoFar, Movers, Addresses, Upward
      <4>1. CASE a = job.dst + i
        <5>1. bytes'[a] = job.value /\ Passed(a)'
          BY <1>0, <1>3, <4>0, <4>1 DEF MemoryInv, TypeInv, JobInv, SetByte, Passed, Downward, Upward, Addresses
        <5>2. Wanted(a)' = job.value
          BY <1>0, <1>3, <4>0, <4>1 DEF MemoryInv, TypeInv, JobInv, SetByte, Wanted, Upward
        <5> QED
          BY <5>1, <5>2
      <4>2. CASE a # job.dst + i
        <5>1. bytes'[a] = bytes[a] /\ Wanted(a)' = Wanted(a) /\ before'[a] = before[a]
          BY <1>3, <4>2 DEF MemoryInv, TypeInv, SetByte, Wanted
        <5>2. Passed(a)' <=> Passed(a)
          BY <1>0, <1>3, <4>0, <4>2 DEF MemoryInv, TypeInv, JobInv, SetByte, Passed, Downward, Upward
        <5> QED
          BY <4>0, <5>1, <5>2
      <4> QED
        BY <4>1, <4>2
    <3>2. ~ returned'
      BY <1>3 DEF SetByte
    <3> QED
      BY <3>1, <3>2 DEF MovedSoFar
  <2>3. LookedSoFar'
    BY <1>3 DEF MemoryInv, TypeInv, JobInv, SetByte, LookedSoFar
  <2> QED
    BY <2>1, <2>2, <2>3 DEF MemoryInv
<1>4. CASE Compare
  <2>1. TypeInv'
    <3>1. returned' \in BOOLEAN
      BY <1>4, Zenon DEF Compare
    <3>2. UNCHANGED <<job, bytes, before>> /\ i' \in Nat /\ i' <= job.size
      BY <1>0, <1>4 DEF MemoryInv, TypeInv, JobInv, Compare
    <3> QED
      BY <3>1, <3>2 DEF MemoryInv, TypeInv
  <2>2. MovedSoFar'
    <3>1. job'.fn \notin Movers
      BY <1>4 DEF Compare, Movers
    <3> QED
      BY <3>1 DEF MovedSoFar
  <2>3. LookedSoFar'
    <3> DEFINE a == bytes[job.dst + i]
               b == bytes[job.src + i]
    <3>0. /\ ~ returned /\ i < job.size /\ job.fn = "memcmp" /\ i \in Nat /\ job.size \in Nat
          /\ job' = job /\ bytes' = bytes /\ before' = before /\ bytes = before
          /\ answer' = Order(a, b) /\ (returned' <=> a # b)
          /\ i' = IF a = b THEN i + 1 ELSE i
          /\ \A k \in 0 .. i - 1 : bytes[job.dst + k] = bytes[job.src + k]
      BY <1>0, <1>4 DEF MemoryInv, TypeInv, JobInv, Compare, LookedSoFar
    <3>1. CASE a = b
      <4>1. ~ returned' /\ i' = i + 1
        BY <3>0, <3>1
      <4>2. answer' = 0
        <5>1. a \in Int
          <6>1. job.dst + i \in Addresses
            BY <1>0, <3>0 DEF JobInv, Addresses
          <6> QED
            BY <6>1, MemoryAssumption DEF MemoryInv, TypeInv
        <5>2. Order(a, a) = 0
          BY <5>1 DEF Order
        <5> QED
          BY <3>0, <3>1, <5>2
      <4>3. \A k \in 0 .. i' - 1 : bytes[job.dst + k] = bytes[job.src + k]
        BY <3>0, <3>1, <4>1
      <4> QED
        BY <3>0, <4>1, <4>2, <4>3 DEF LookedSoFar
    <3>2. CASE a # b
      <4>1. i' = i /\ returned'
        BY <3>0, <3>2
      <4> QED
        BY <3>0, <3>2, <4>1 DEF LookedSoFar
    <3> QED
      BY <3>1, <3>2
  <2> QED
    BY <2>1, <2>2, <2>3 DEF MemoryInv
<1>5. CASE CountByte
  <2>1. TypeInv'
    <3>1. returned' \in BOOLEAN
      <4>1. returned' = TRUE \/ returned' = returned
        BY <1>5, Zenon DEF CountByte
      <4> QED
        BY <4>1 DEF MemoryInv, TypeInv
    <3>2. UNCHANGED <<job, bytes, before>> /\ i' \in Nat /\ job.fn = "strlen"
      BY <1>5 DEF MemoryInv, TypeInv, CountByte
    <3> QED
      BY <3>1, <3>2 DEF MemoryInv, TypeInv
  <2>2. MovedSoFar'
    <3>1. job'.fn \notin Movers
      BY <1>5 DEF CountByte, Movers
    <3> QED
      BY <3>1 DEF MovedSoFar
  <2>3. LookedSoFar'
    BY <1>5 DEF MemoryInv, TypeInv, JobInv, CountByte, LookedSoFar
  <2> QED
    BY <2>1, <2>2, <2>3 DEF MemoryInv
<1>6. CASE LoopEnds
  <2>1. TypeInv'
    BY <1>6 DEF MemoryInv, TypeInv, LoopEnds
  <2>2. MovedSoFar'
    BY <1>6 DEF MemoryInv, TypeInv, JobInv, LoopEnds, MovedSoFar, Movers, Passed, Wanted, Downward, Upward
  <2>3. LookedSoFar'
    BY <1>6 DEF MemoryInv, TypeInv, JobInv, LoopEnds, LookedSoFar, Downward
  <2> QED
    BY <2>1, <2>2, <2>3 DEF MemoryInv
<1>7. CASE UNCHANGED memoryVars
  BY <1>7 DEF MemoryInv, TypeInv, memoryVars, MovedSoFar, LookedSoFar, Movers, Passed, Wanted, Downward, Upward
<1> QED
  BY <1>1, <1>2, <1>3, <1>4, <1>5, <1>6, <1>7 DEF MemoryInv, TypeInv, MemoryNext

LEMMA MemoryInvHolds == MemorySpec => []MemoryInv
  BY InitMemory, NextMemory, PTL DEF MemorySpec

\* memmove over any overlap, memcpy and memset leave what the source held.
THEOREM MovesAsOne == MemorySpec => []MovedAsOne
<1>1. MemoryInv => MovedAsOne
  <2> SUFFICES ASSUME MemoryInv, returned, job.fn \in Movers
               PROVE  bytes = [a \in Addresses |-> IF InDestination(a) THEN Wanted(a) ELSE before[a]]
    BY DEF MovedAsOne, Movers
  <2>1. \A a \in Addresses : bytes[a] = IF InDestination(a) THEN Wanted(a) ELSE before[a]
    <3>1. job.size \in Nat /\ job.dst \in Nat
      BY JobFields DEF MemoryInv, TypeInv, JobInv
    <3>2. \A a \in Addresses : Passed(a) <=> InDestination(a)
      BY <3>1 DEF MemoryInv, TypeInv, MovedSoFar, Passed, InDestination, Addresses
    <3> QED
      BY <3>2 DEF MemoryInv, MovedSoFar
  <2> QED
    BY <2>1 DEF MemoryInv, TypeInv
<1> QED
  BY <1>1, MemoryInvHolds, PTL

\* memcmp orders by the first difference, strlen finds the first zero.
THEOREM LooksRight == MemorySpec => []ComparesAndCounts
<1>1. MemoryInv => ComparesAndCounts
  <2> SUFFICES ASSUME MemoryInv, returned, job.fn \in {"memcmp", "strlen"} PROVE ComparesAndCounts
    BY DEF ComparesAndCounts
  <2>0. /\ job.size \in Nat /\ i \in Nat /\ job.dst \in Nat /\ job.src \in Nat
        /\ job.dst + job.size <= LastAddress + 1 /\ job.src + job.size <= LastAddress + 1
        /\ LastAddress \in Nat /\ bytes = before /\ bytes \in [Addresses -> Bytes]
        /\ Bytes \subseteq Int
    BY JobFields, MemoryAssumption DEF MemoryInv, TypeInv, JobInv, LookedSoFar
  <2>1. CASE job.fn = "strlen"
    BY <2>0, <2>1 DEF MemoryInv, TypeInv, LookedSoFar, ComparesAndCounts
  <2>2. CASE job.fn = "memcmp" /\ i = job.size
    BY <2>0, <2>2 DEF MemoryInv, TypeInv, LookedSoFar, ComparesAndCounts
  <2>3. CASE job.fn = "memcmp" /\ i # job.size
    <3>0. i \in 0 .. job.size
      <4>1. i \in Nat /\ i <= job.size
        BY <2>3 DEF MemoryInv, TypeInv
      <4> QED
        BY <2>0, <4>1
    <3>1. i \in 0 .. job.size - 1 /\ job.dst + i \in Addresses /\ job.src + i \in Addresses
      BY <2>0, <2>3, <3>0 DEF Addresses
    <3>2. bytes[job.dst + i] \in Int /\ bytes[job.src + i] \in Int
      BY <2>0, <3>1
    <3>3. /\ answer = Order(bytes[job.dst + i], bytes[job.src + i])
          /\ bytes[job.dst + i] # bytes[job.src + i]
          /\ \A l \in 0 .. i - 1 : bytes[job.dst + l] = bytes[job.src + l]
      BY <2>3 DEF MemoryInv, LookedSoFar
    <3>4. /\ answer = -1 => bytes[job.dst + i] < bytes[job.src + i]
          /\ answer # -1 => answer = 1 /\ bytes[job.dst + i] > bytes[job.src + i]
      BY <3>2, <3>3 DEF Order
    <3> QED
      BY <2>0, <2>3, <3>1, <3>3, <3>4 DEF ComparesAndCounts
  <2> QED
    BY <2>1, <2>2, <2>3
<1> QED
  BY <1>1, MemoryInvHolds, PTL

-----------------------------------------------------------------------------
(***************************************************************************)
(* Induction, by the smallest number that is not in the set.                *)
(***************************************************************************)
Less == {p \in Nat \X Nat : p[1] < p[2]}

LEMMA LessIsWellFounded == IsWellFoundedOn(Less, Nat)
<1>1. Less = OpToRel(<, Nat)
  BY DEF Less, OpToRel
<1> QED
  BY <1>1, NatLessThanWellFounded, Zenon

LEMMA Induction ==
    ASSUME NEW T, 0 \in T, \A n \in Nat : n \in T => n + 1 \in T
    PROVE  Nat \subseteq T
<1> DEFINE S == Nat \ T
<1> SUFFICES ASSUME S # {} PROVE FALSE
  OBVIOUS
<1>1. PICK x \in S : \A y \in S : ~ (<<y, x>> \in Less)
  <2>1. S \subseteq Nat
    OBVIOUS
  <2> HIDE DEF S
  <2> QED
    BY <2>1, LessIsWellFounded, WFMin
<1>2. x - 1 \in Nat /\ x \in Nat
  BY <1>1
<1>3. <<x - 1, x>> \in Less
  BY <1>2 DEF Less
<1> QED
  BY <1>1, <1>2, <1>3

-----------------------------------------------------------------------------
(***************************************************************************)
(* Digits and quotients.                                                   *)
(***************************************************************************)
\* q[k] is what is left of m after k digits.
Divides(q, d, base, m, v) ==
    /\ q \in [0 .. Len(d) -> Nat] /\ q[0] = m /\ q[Len(d)] = v
    /\ \A k \in 1 .. Len(d) :
          q[k] = q[k - 1] \div base /\ d[k] = q[k - 1] % base /\ (k > 1 => q[k - 1] # 0)
Quotients(d, base, m, v) == \E q : Divides(q, d, base, m, v)

DigitsIn(base) == Seq(0 .. base - 1)

LEMMA DivMod ==
    ASSUME NEW n \in Nat, NEW base \in 2 .. 36
    PROVE  /\ n \div base \in Nat /\ n % base \in 0 .. base - 1
           /\ n = base * (n \div base) + (n % base)
<1>1. base \in Nat /\ base > 0
  OBVIOUS
<1> QED
  BY <1>1

\* A turn of the loop.
LEMMA AnotherDigit ==
    ASSUME NEW base \in 2 .. 36, NEW m \in Nat, NEW v \in Nat, v # 0,
           NEW d \in DigitsIn(base), Quotients(d, base, m, v)
    PROVE  /\ Append(d, v % base) \in DigitsIn(base) /\ v \div base \in Nat
           /\ Quotients(Append(d, v % base), base, m, v \div base)
<1> DEFINE n == Len(d)
           e == Append(d, v % base)
<1>1. v \div base \in Nat /\ v % base \in 0 .. base - 1
  BY DivMod
<1>2. n \in Nat /\ e \in DigitsIn(base) /\ Len(e) = n + 1 /\ e[n + 1] = v % base
      /\ \A k \in 1 .. n : e[k] = d[k]
  BY <1>1 DEF DigitsIn
<1>3. PICK q : Divides(q, d, base, m, v)
  BY DEF Quotients
<1> DEFINE r == [k \in 0 .. n + 1 |-> IF k = n + 1 THEN v \div base ELSE q[k]]
<1>4. \A k \in 0 .. n : k \in 0 .. n + 1 /\ k # n + 1
  BY <1>2
<1>5. /\ r \in [0 .. n + 1 -> Nat] /\ r[n + 1] = v \div base
      /\ \A k \in 0 .. n : r[k] = q[k]
  <2>1. \A k \in 0 .. n + 1 : k # n + 1 => k \in 0 .. n
    BY <1>2
  <2>2. \A k \in 0 .. n : q[k] \in Nat
    BY <1>3 DEF Divides
  <2>3. n + 1 \in 0 .. n + 1
    BY <1>2
  <2> QED
    BY <1>1, <1>4, <2>1, <2>2, <2>3
<1>6. ASSUME NEW k \in 1 .. n + 1
      PROVE  /\ r[k] = r[k - 1] \div base /\ e[k] = r[k - 1] % base
             /\ k > 1 => r[k - 1] # 0
  <2>1. CASE k = n + 1
    <3>1. k - 1 = n /\ n \in 0 .. n /\ q[n] = v
      BY <1>2, <1>3, <2>1 DEF Divides
    <3> QED
      BY <1>2, <1>5, <2>1, <3>1
  <2>2. CASE k # n + 1
    <3>1. k \in 1 .. n /\ k - 1 \in 0 .. n /\ k \in 0 .. n
      BY <1>2, <2>2
    <3> QED
      BY <1>2, <1>3, <1>5, <3>1 DEF Divides
  <2> QED
    BY <2>1, <2>2
<1>7. r[0] = m
  BY <1>2, <1>3, <1>5 DEF Divides
<1> HIDE DEF r, e
<1>8. Divides(r, e, base, m, v \div base)
  BY <1>2, <1>5, <1>6, <1>7 DEF Divides
<1> QED
  BY <1>1, <1>2, <1>8 DEF Quotients, e

\* Reading the digits backwards.
LEMMA ReadsBackwards ==
    ASSUME NEW base \in 2 .. 36, NEW m \in Nat, NEW d \in DigitsIn(base),
           Quotients(d, base, m, 0),
           NEW digits, Len(digits) = Len(d),
           \A k \in 1 .. Len(d) : digits[k] = d[Len(d) + 1 - k]
    PROVE  /\ ReadDigits(digits, base) = m
           /\ Len(d) > 1 => digits[1] # 0
<1> DEFINE n == Len(d)
           Reading(f) == [k \in 0 .. n |-> IF k = 0 THEN 0 ELSE base * f[k - 1] + digits[k]]
           read == CHOOSE f : f = Reading(f)
<1>1. PICK q : Divides(q, d, base, m, 0)
  BY DEF Quotients
<1>2. n \in Nat /\ \A k \in 0 .. n : q[k] \in Nat
  BY <1>1 DEF DigitsIn, Divides
<1>3. \A k \in 1 .. n : q[n - k] = base * q[n - k + 1] + digits[k] /\ n - k + 1 = n - (k - 1)
  <2> TAKE k \in 1 .. n
  <2>0. n \in Nat /\ k \in 1 .. n
    BY <1>2
  <2> HIDE DEF n
  <2>1. n + 1 - k \in 1 .. n /\ n + 1 - k - 1 = n - k /\ n - k + 1 = n + 1 - k
        /\ n - k \in 0 .. n /\ n - k + 1 = n - (k - 1)
    BY <2>0
  <2>2. q[n + 1 - k] = q[n - k] \div base /\ d[n + 1 - k] = q[n - k] % base
    <3>1. \A p \in 1 .. n : q[p] = q[p - 1] \div base /\ d[p] = q[p - 1] % base
      BY <1>1 DEF Divides, n
    <3> QED BY <2>1, <3>1
  <2>3. q[n - k] = base * (q[n - k] \div base) + (q[n - k] % base)
    BY <1>2, <2>1, DivMod
  <2> USE DEF n
  <2> QED
    BY <2>1, <2>2, <2>3
<1> DEFINE back == [k \in 0 .. n |-> q[n - k]]
<1>4. back = Reading(back)
  <2>1. q[n] = 0
    BY <1>1 DEF Divides
  <2>2. \A k \in 0 .. n : back[k] = IF k = 0 THEN 0 ELSE base * back[k - 1] + digits[k]
    <3> TAKE k \in 0 .. n
    <3>1. CASE k = 0
      BY <1>2, <2>1, <3>1
    <3>2. CASE k # 0
      <4>1. k \in 1 .. n /\ k - 1 \in 0 .. n
        BY <1>2, <3>2
      <4> QED
        BY <1>3, <3>2, <4>1
    <3> QED
      BY <3>1, <3>2
  <2> HIDE DEF back
  <2>3. back = [k \in 0 .. n |-> back[k]]
    BY DEF back
  <2> QED
    BY <2>2, <2>3
<1>5. read = Reading(read)
  <2> HIDE DEF Reading, back
  <2> QED
    BY <1>4
<1>6. ReadDigits(digits, base) = read[n]
  BY DEF ReadDigits
<1> HIDE DEF read
<1>7. /\ read[0] = 0
      /\ \A k \in 1 .. n : read[k] = base * read[k - 1] + digits[k]
  <2>1. 0 \in 0 .. n /\ \A k \in 1 .. n : k \in 0 .. n /\ k # 0
    BY <1>2
  <2>2. \A k \in 0 .. n : Reading(read)[k] = IF k = 0 THEN 0 ELSE base * read[k - 1] + digits[k]
    OBVIOUS
  <2> HIDE DEF Reading
  <2> QED
    BY <1>5, <2>1, <2>2
<1> DEFINE T == {k \in Nat : k <= n => read[k] = q[n - k]}
<1>8. Nat \subseteq T
  <2>1. 0 \in T
    BY <1>1, <1>2, <1>7 DEF Divides
  <2>2. ASSUME NEW k \in Nat, k \in T
        PROVE  k + 1 \in T
    <3>1. CASE k + 1 <= n
      <4>1. k + 1 \in 1 .. n /\ k + 1 - 1 = k /\ k <= n /\ n - (k + 1) + 1 = n - k
        <5> SUFFICES ASSUME NEW l \in Nat, k + 1 <= l
                     PROVE  /\ k + 1 \in 1 .. l /\ k + 1 - 1 = k /\ k <= l
                            /\ l - (k + 1) + 1 = l - k
          BY <1>2, <3>1
        <5> QED
          OBVIOUS
      <4>2. read[k] = q[n - k]
        BY <2>2, <4>1
      <4> QED
        BY <1>3, <1>7, <4>1, <4>2
    <3>2. CASE ~ (k + 1 <= n)
      BY <3>2
    <3> QED
      BY <3>1, <3>2
  <2> HIDE DEF T
  <2> QED
    BY <2>1, <2>2, Induction
<1>9. read[n] = m
  <2>1. read[n] = q[n - n] /\ n - n = 0
    BY <1>2, <1>8
  <2> QED
    BY <1>1, <2>1 DEF Divides
<1>10. ASSUME n > 1
       PROVE  digits[1] # 0
  <2>1. 1 \in 1 .. n /\ n \in 1 .. n /\ n + 1 - 1 = n /\ n - 1 \in 0 .. n
    BY <1>2, <1>10
  <2>2. digits[1] = d[n] /\ d[n] = q[n - 1] % base /\ q[n - 1] # 0
        /\ q[n] = q[n - 1] \div base /\ q[n] = 0
    BY <1>1, <1>10, <2>1 DEF Divides
  <2>3. q[n - 1] = base * (q[n - 1] \div base) + (q[n - 1] % base)
    BY <1>2, <2>1, DivMod
  <2> QED
    BY <2>2, <2>3
<1> QED
  BY <1>6, <1>9, <1>10

-----------------------------------------------------------------------------
(***************************************************************************)
(* The reversal.                                                           *)
(***************************************************************************)
\* t is s with the first lo characters and the last lo exchanged.
Swapped(t, s, lo) ==
    /\ t \in Seq(Nat) /\ Len(t) = Len(s)
    /\ \A k \in 1 .. Len(s) :
          t[k] = IF k <= lo \/ k > Len(s) - lo THEN s[Len(s) + 1 - k] ELSE s[k]

SwapEnds(t, lo, j) == [t EXCEPT ![lo + 1] = t[j + 1], ![j + 1] = t[lo + 1]]

LEMMA OneChanged ==
    ASSUME NEW t \in Seq(Nat), NEW p \in 1 .. Len(t), NEW v \in Nat
    PROVE  /\ [t EXCEPT ![p] = v] \in Seq(Nat) /\ Len([t EXCEPT ![p] = v]) = Len(t)
           /\ \A k \in 1 .. Len(t) : [t EXCEPT ![p] = v][k] = IF k = p THEN v ELSE t[k]
OBVIOUS

\* A turn of reverse.
LEMMA AnotherSwap ==
    ASSUME NEW s \in Seq(Nat), NEW t, NEW lo \in Nat, NEW j \in Int,
           Swapped(t, s, lo), lo + j = Len(s) - 1, lo < j
    PROVE  Swapped(SwapEnds(t, lo, j), s, lo + 1)
<1> DEFINE n == Len(s)
           u == SwapEnds(t, lo, j)
<1>1. n \in Nat /\ t \in Seq(Nat) /\ Len(t) = n /\ j = n - 1 - lo
  BY DEF Swapped
<1>2. \A k \in 1 .. n : t[k] = IF k <= lo \/ k > n - lo THEN s[n + 1 - k] ELSE s[k]
  BY DEF Swapped
<1> HIDE DEF n
<1>3. /\ n \in Nat /\ lo + 1 \in 1 .. n /\ j + 1 \in 1 .. n /\ lo + 1 < j + 1 /\ j + 1 = n - lo
      /\ n + 1 - (lo + 1) = j + 1 /\ n + 1 - (j + 1) = lo + 1
  <2>1. n \in Nat /\ j = n - 1 - lo
    BY <1>1
  <2> QED
    BY <2>1
<1>4. t[lo + 1] = s[lo + 1] /\ t[j + 1] = s[j + 1]
  <2>1. ~ (lo + 1 <= lo \/ lo + 1 > n - lo) /\ ~ (j + 1 <= lo \/ j + 1 > n - lo)
    BY <1>3
  <2> QED
    BY <1>2, <1>3, <2>1
<1>5. \A k \in 1 .. n : t[k] \in Nat
  BY <1>1
<1>6. u \in Seq(Nat) /\ Len(u) = n
      /\ \A k \in 1 .. n : u[k] = IF k = j + 1 THEN t[lo + 1]
                                  ELSE IF k = lo + 1 THEN t[j + 1] ELSE t[k]
  <2> DEFINE t1 == [t EXCEPT ![lo + 1] = t[j + 1]]
  <2>1. t1 \in Seq(Nat) /\ Len(t1) = n
        /\ \A k \in 1 .. n : t1[k] = IF k = lo + 1 THEN t[j + 1] ELSE t[k]
    BY <1>1, <1>3, <1>5, OneChanged
  <2>2. t[lo + 1] \in Nat /\ u = [t1 EXCEPT ![j + 1] = t[lo + 1]]
    BY <1>3, <1>5 DEF SwapEnds
  <2> HIDE DEF t1, u
  <2>3. u \in Seq(Nat) /\ Len(u) = n
        /\ \A k \in 1 .. n : u[k] = IF k = j + 1 THEN t[lo + 1] ELSE t1[k]
    BY <1>3, <2>1, <2>2, OneChanged
  <2> QED
    BY <1>3, <2>1, <2>3
<1> HIDE DEF u
<1>7. ASSUME NEW k \in 1 .. n
      PROVE  u[k] = IF k <= lo + 1 \/ k > n - (lo + 1) THEN s[n + 1 - k] ELSE s[k]
  <2>1. CASE k = lo + 1
    <3>1. u[k] = t[j + 1] /\ n + 1 - k = j + 1 /\ k <= lo + 1
      BY <1>3, <1>6, <2>1
    <3> QED
      BY <1>4, <3>1
  <2>2. CASE k = j + 1
    <3>1. n + 1 - k = lo + 1 /\ k > n - (lo + 1)
      BY <1>3, <2>2
    <3>2. u[k] = t[lo + 1]
      BY <1>3, <1>6, <2>2
    <3> QED
      BY <1>4, <3>1, <3>2
  <2>3. CASE k # lo + 1 /\ k # j + 1
    <3>1. u[k] = t[k]
      BY <1>6, <2>3
    <3>2. (k <= lo + 1 <=> k <= lo) /\ (k > n - (lo + 1) <=> k > n - lo)
      BY <1>3, <2>3
    <3> QED
      BY <1>2, <3>1, <3>2
  <2> QED
    BY <2>1, <2>2, <2>3
<1> QED
  BY <1>6, <1>7 DEF Swapped, u, n

\* When the two ends have met, every character is where it belongs.
LEMMA EndsMet ==
    ASSUME NEW s \in Seq(Nat), NEW t, NEW lo \in Nat, NEW j \in Int,
           Swapped(t, s, lo), lo + j = Len(s) - 1, lo >= j
    PROVE  /\ t \in Seq(Nat) /\ Len(t) = Len(s)
           /\ \A k \in 1 .. Len(s) : t[k] = s[Len(s) + 1 - k]
<1>1. Len(s) \in Nat
  OBVIOUS
<1>2. ASSUME NEW k \in 1 .. Len(s)
      PROVE  t[k] = s[Len(s) + 1 - k]
  <2>1. CASE k <= lo \/ k > Len(s) - lo
    BY <2>1 DEF Swapped
  <2>2. CASE ~ (k <= lo \/ k > Len(s) - lo)
    <3>1. Len(s) + 1 - k = k
      BY <1>1, <2>2
    <3> QED
      BY <2>2, <3>1 DEF Swapped
  <2> QED
    BY <2>1, <2>2
<1> QED
  BY <1>2 DEF Swapped

-----------------------------------------------------------------------------
(***************************************************************************)
(* The invariant.                                                          *)
(***************************************************************************)
\* The calls whose text is meant to be read: see ItoaReadsBack.
Readable(num) == num.value >= 0 \/ (num.base = 10 /\ num.value # -MAX_VALUE - 1)

Magnitude(num) == IF num.value < 0 THEN -num.value ELSE num.value

\* A whole series of digits, the lowest first, and what reverse is called with.
DigitsOf(num) == {d \in DigitsIn(num.base) : Quotients(d, num.base, Magnitude(num), 0)}
Signed(num, d) == IF num.value < 0 THEN Append(d, MINUS) ELSE d

Dividing(num, v, s) ==
    v \in Nat /\ s \in DigitsIn(num.base) /\ Quotients(s, num.base, Magnitude(num), v)

Reversing(num, s, lo, j) ==
    \E d \in DigitsOf(num) :
        /\ lo \in Nat /\ j \in Int /\ lo + j = Len(Signed(num, d)) - 1
        /\ Swapped(s, Signed(num, d), lo)

Reversed(num, s) ==
    \E d \in DigitsOf(num) :
        /\ s \in Seq(Nat) /\ Len(s) = Len(Signed(num, d))
        /\ \A k \in 1 .. Len(s) : s[k] = Signed(num, d)[Len(s) + 1 - k]

CallInv ==
    /\ number \in Numbers
    /\ negative = (number.value < 0 /\ number.base = 10)
    /\ phase \in {"divide", "reverse", "returned"}
DivideInv == Readable(number) /\ phase = "divide" => Dividing(number, value, str)
ReverseInv == Readable(number) /\ phase = "reverse" => Reversing(number, str, start, end)
ReturnInv == Readable(number) /\ phase = "returned" => Reversed(number, str)
ItoaInv == CallInv /\ DivideInv /\ ReverseInv /\ ReturnInv

LEMMA NumberTypes ==
    ASSUME NEW num \in Numbers
    PROVE  /\ num.value \in Int /\ num.base \in 2 .. 36 /\ Magnitude(num) \in Nat
           /\ Readable(num) => (num.value < 0 => num.base = 10 /\ num.value # -MAX_VALUE - 1)
BY NumbersAssumption DEF Magnitude, Readable

LEMMA DigitsAreCharacters ==
    ASSUME NEW num \in Numbers, NEW d \in DigitsIn(num.base)
    PROVE  /\ d \in Seq(Nat) /\ Signed(num, d) \in Seq(Nat) /\ Len(d) \in Nat
           /\ \A k \in 1 .. Len(d) : d[k] \in 0 .. num.base - 1 /\ Signed(num, d)[k] = d[k]
           /\ num.value < 0 => /\ Len(Signed(num, d)) = Len(d) + 1
                               /\ Signed(num, d)[Len(d) + 1] = MINUS
           /\ ~ (num.value < 0) => Signed(num, d) = d
<1>1. num.base \in 2 .. 36
  BY NumberTypes
<1>2. d \in Seq(0 .. num.base - 1) /\ Len(d) \in Nat
  BY DEF DigitsIn
<1>3. \A k \in 1 .. Len(d) : d[k] \in 0 .. num.base - 1
  BY <1>2, ElementOfSeq
<1>4. d \in Seq(Nat)
  <2>1. 0 .. num.base - 1 \subseteq Nat
    BY <1>1
  <2> QED
    BY <1>2, <2>1, SeqMonotonic
<1> QED
  BY <1>2, <1>3, <1>4 DEF Signed, MINUS

LEMMA InitItoa == ItoaInit => ItoaInv
<1> SUFFICES ASSUME ItoaInit PROVE ItoaInv
  OBVIOUS
<1>1. CallInv /\ phase = "divide" /\ number \in Numbers
  BY DEF ItoaInit, CallInv
<1>2. ASSUME Readable(number)
      PROVE  Dividing(number, value, str)
  <2> DEFINE m == Magnitude(number)
             base == number.base
  <2>1. m \in Nat /\ base \in 2 .. 36 /\ value = m
    BY <1>1, <1>2, NumberTypes DEF ItoaInit, Magnitude
  <2>2. CASE number.value = 0
    <3>1. str = <<0>> /\ m = 0 /\ value = 0
      BY <2>1, <2>2 DEF ItoaInit, Magnitude
    <3>2. <<0>> \in DigitsIn(base) /\ Len(<<0>>) = 1 /\ <<0>>[1] = 0
      BY <2>1 DEF DigitsIn
    <3> DEFINE q == [k \in 0 .. 1 |-> 0]
    <3>3. 0 \div base = 0 /\ 0 % base = 0
      BY <2>1
    <3>4. Divides(q, <<0>>, base, 0, 0)
      BY <3>2, <3>3 DEF Divides
    <3> QED
      BY <3>1, <3>2, <3>4 DEF Dividing, Quotients
  <2>3. CASE number.value # 0
    <3>1. str = << >>
      BY <2>3 DEF ItoaInit
    <3>2. << >> \in DigitsIn(base) /\ Len(<< >>) = 0
      BY DEF DigitsIn
    <3> DEFINE q == [k \in 0 .. 0 |-> m]
    <3>3. Divides(q, << >>, base, m, m)
      BY <2>1, <3>2 DEF Divides
    <3> QED
      BY <2>1, <3>1, <3>2, <3>3 DEF Dividing, Quotients
  <2> QED
    BY <2>2, <2>3
<1> QED
  BY <1>1, <1>2 DEF ItoaInv, DivideInv, ReverseInv, ReturnInv

LEMMA NextItoa == ItoaInv /\ [ItoaNext]_itoaVars => ItoaInv'
<1> SUFFICES ASSUME ItoaInv, [ItoaNext]_itoaVars PROVE ItoaInv'
  OBVIOUS
<1>1. number \in Numbers /\ number' = number /\ CallInv'
  BY DEF ItoaInv, CallInv, ItoaNext, Divide, SignAndReverse, Swap, Return, itoaVars
<1>2. CASE Divide
  <2>1. Readable(number) => Dividing(number', value', str')
    <3> SUFFICES ASSUME Readable(number) PROVE Dividing(number', value', str')
      OBVIOUS
    <3>1. Dividing(number, value, str) /\ value # 0 /\ number.base \in 2 .. 36
          /\ Magnitude(number) \in Nat
      BY <1>1, <1>2, NumberTypes DEF ItoaInv, DivideInv, Divide
    <3>2. str' = Append(str, value % number.base) /\ value' = value \div number.base
      BY <1>2, <3>1 DEF Divide, Rem, Div, Dividing
    <3> QED
      BY <1>1, <3>1, <3>2, AnotherDigit DEF Dividing
  <2>2. phase' = "divide"
    BY <1>2 DEF Divide
  <2> QED
    BY <1>1, <2>1, <2>2 DEF ItoaInv, DivideInv, ReverseInv, ReturnInv
<1>3. CASE SignAndReverse
  <2>1. Readable(number) => Reversing(number', str', start', end')
    <3> SUFFICES ASSUME Readable(number) PROVE Reversing(number', str', start', end')
      OBVIOUS
    <3>1. str \in DigitsOf(number) /\ str \in DigitsIn(number.base)
      BY <1>3 DEF ItoaInv, DivideInv, SignAndReverse, Dividing, DigitsOf
    <3>2. negative <=> number.value < 0
      BY <1>1, NumberTypes DEF ItoaInv, CallInv
    <3>3. str' = Signed(number, str) /\ start' = 0 /\ end' = Len(str') - 1
      BY <1>3, <3>2 DEF SignAndReverse, Signed, LastOf
    <3>4. Signed(number, str) \in Seq(Nat)
      BY <1>1, <3>1, DigitsAreCharacters
    <3>5. Swapped(str', Signed(number, str), 0) /\ Len(str') \in Nat
      BY <3>3, <3>4 DEF Swapped
    <3> QED
      BY <1>1, <3>1, <3>3, <3>5 DEF Reversing
  <2>2. phase' = "reverse"
    BY <1>3 DEF SignAndReverse
  <2> QED
    BY <1>1, <2>1, <2>2 DEF ItoaInv, DivideInv, ReverseInv, ReturnInv
<1>4. CASE Swap
  <2>1. Readable(number) => Reversing(number', str', start', end')
    <3> SUFFICES ASSUME Readable(number) PROVE Reversing(number', str', start', end')
      OBVIOUS
    <3>1. Reversing(number, str, start, end) /\ start < end /\ start' = start + 1 /\ end' = end - 1
          /\ str' = SwapEnds(str, start, end)
      BY <1>4 DEF ItoaInv, ReverseInv, Swap, SwapEnds
    <3>2. PICK d \in DigitsOf(number) :
              /\ start \in Nat /\ end \in Int /\ start + end = Len(Signed(number, d)) - 1
              /\ Swapped(str, Signed(number, d), start)
      BY <3>1 DEF Reversing
    <3>3. Signed(number, d) \in Seq(Nat)
      BY <1>1, <3>2, DigitsAreCharacters DEF DigitsOf
    <3>4. Swapped(str', Signed(number, d), start')
      BY <3>1, <3>2, <3>3, AnotherSwap
    <3>5. start' \in Nat /\ end' \in Int /\ start' + end' = start + end
      BY <3>1, <3>2
    <3> QED
      BY <1>1, <3>2, <3>4, <3>5 DEF Reversing
  <2>2. phase' = "reverse"
    BY <1>4 DEF Swap
  <2> QED
    BY <1>1, <2>1, <2>2 DEF ItoaInv, DivideInv, ReverseInv, ReturnInv
<1>5. CASE Return
  <2>1. Readable(number) => Reversed(number', str')
    <3> SUFFICES ASSUME Readable(number) PROVE Reversed(number', str')
      OBVIOUS
    <3>1. Reversing(number, str, start, end) /\ start >= end /\ str' = str
      BY <1>5 DEF ItoaInv, ReverseInv, Return
    <3>2. PICK d \in DigitsOf(number) :
              /\ start \in Nat /\ end \in Int /\ start + end = Len(Signed(number, d)) - 1
              /\ Swapped(str, Signed(number, d), start)
      BY <3>1 DEF Reversing
    <3>3. Signed(number, d) \in Seq(Nat)
      BY <1>1, <3>2, DigitsAreCharacters DEF DigitsOf
    <3>4. /\ str \in Seq(Nat) /\ Len(str) = Len(Signed(number, d))
          /\ \A k \in 1 .. Len(Signed(number, d)) :
                str[k] = Signed(number, d)[Len(Signed(number, d)) + 1 - k]
      BY <3>1, <3>2, <3>3, EndsMet
    <3>5. number' = number /\ str' = str /\ d \in DigitsOf(number)
      BY <1>1, <3>1, <3>2
    <3>6. /\ str' \in Seq(Nat) /\ Len(str') = Len(Signed(number', d))
          /\ \A k \in 1 .. Len(str') : str'[k] = Signed(number', d)[Len(str') + 1 - k]
      BY <3>4, <3>5
    <3> QED
      BY <3>5, <3>6, Zenon DEF Reversed
  <2>2. phase' = "returned"
    BY <1>5 DEF Return
  <2> QED
    BY <1>1, <2>1, <2>2 DEF ItoaInv, DivideInv, ReverseInv, ReturnInv
<1>6. CASE UNCHANGED itoaVars
  BY <1>6 DEF itoaVars, ItoaInv, CallInv, DivideInv, ReverseInv, ReturnInv
<1> QED
  BY <1>2, <1>3, <1>4, <1>5, <1>6 DEF ItoaNext

LEMMA InvReadsBack == ItoaInv => ItoaReadsBack
<1> SUFFICES ASSUME ItoaInv, phase = "returned", Readable(number)
             PROVE  LET digits == IF number.value < 0 THEN Tail(str) ELSE str
                    IN  /\ number.value < 0 => Head(str) = MINUS
                        /\ \A k \in DOMAIN digits : digits[k] \in 0 .. number.base - 1
                        /\ ReadDigits(digits, number.base) = Magnitude(number)
                        /\ Len(digits) > 1 => digits[1] # 0
  BY DEF ItoaReadsBack, ItoaMagnitude, Readable, Magnitude
<1> DEFINE digits == IF number.value < 0 THEN Tail(str) ELSE str
<1>1. number \in Numbers /\ number.base \in 2 .. 36 /\ Magnitude(number) \in Nat
  BY NumberTypes DEF ItoaInv, CallInv
<1>2. PICK d \in DigitsOf(number) :
        /\ str \in Seq(Nat) /\ Len(str) = Len(Signed(number, d))
        /\ \A k \in 1 .. Len(str) : str[k] = Signed(number, d)[Len(str) + 1 - k]
  BY DEF ItoaInv, ReturnInv, Reversed
<1>3. d \in DigitsIn(number.base) /\ Quotients(d, number.base, Magnitude(number), 0)
  BY <1>2 DEF DigitsOf
<1>4. /\ Len(d) \in Nat
      /\ \A k \in 1 .. Len(d) : d[k] \in 0 .. number.base - 1 /\ Signed(number, d)[k] = d[k]
      /\ number.value < 0 => /\ Len(Signed(number, d)) = Len(d) + 1
                             /\ Signed(number, d)[Len(d) + 1] = MINUS
      /\ ~ (number.value < 0) => Signed(number, d) = d
  BY <1>1, <1>3, DigitsAreCharacters
<1>5. /\ Len(digits) = Len(d) /\ DOMAIN digits = 1 .. Len(d)
      /\ \A k \in 1 .. Len(d) : digits[k] = d[Len(d) + 1 - k]
      /\ number.value < 0 => Head(str) = MINUS
  <2>1. CASE ~ (number.value < 0)
    BY <1>2, <1>4, <2>1
  <2>2. CASE number.value < 0
    <3>1. Len(str) = Len(d) + 1 /\ str # << >> /\ Head(str) = str[1]
      BY <1>2, <1>4, <2>2
    <3>2. str[1] = MINUS
      BY <1>2, <1>4, <2>2, <3>1
    <3>3. /\ Len(Tail(str)) = Len(d) /\ DOMAIN Tail(str) = 1 .. Len(d)
          /\ \A k \in 1 .. Len(d) : Tail(str)[k] = str[k + 1]
      BY <1>2, <1>4, <3>1
    <3>4. ASSUME NEW k \in 1 .. Len(d)
          PROVE  str[k + 1] = d[Len(d) + 1 - k]
      <4>1. k + 1 \in 1 .. Len(str) /\ Len(str) + 1 - (k + 1) = Len(d) + 1 - k
            /\ Len(d) + 1 - k \in 1 .. Len(d)
        BY <1>4, <3>1
      <4> QED
        BY <1>2, <1>4, <4>1
    <3> QED
      BY <2>2, <3>1, <3>2, <3>3, <3>4
  <2> QED
    BY <2>1, <2>2
<1> HIDE DEF digits
<1>6. ReadDigits(digits, number.base) = Magnitude(number) /\ (Len(digits) > 1 => digits[1] # 0)
  <2>1. Len(digits) = Len(d) /\ \A k \in 1 .. Len(d) : digits[k] = d[Len(d) + 1 - k]
    BY <1>5
  <2> DEFINE base == number.base
             m == Magnitude(number)
  <2>2. base \in 2 .. 36 /\ m \in Nat /\ d \in DigitsIn(base) /\ Quotients(d, base, m, 0)
    BY <1>1, <1>3
  <2> HIDE DEF base, m
  <2>3. ReadDigits(digits, base) = m /\ (Len(d) > 1 => digits[1] # 0)
    BY <2>1, <2>2, ReadsBackwards
  <2> QED
    BY <2>1, <2>3 DEF base, m
<1>7. \A k \in DOMAIN digits : digits[k] \in 0 .. number.base - 1
  <2> TAKE k \in DOMAIN digits
  <2>1. Len(d) + 1 - k \in 1 .. Len(d)
    BY <1>4, <1>5
  <2> QED
    BY <1>4, <1>5, <2>1
<1> QED
  BY <1>5, <1>6, <1>7 DEF digits

\* itoa's text is the number's: for every number that is not negative in every
\* base from 2 to 36, and in base 10 for every negative one but the smallest,
\* whatever INT64_MAX is.
THEOREM ReadsBack == ItoaSpec => []ItoaReadsBack
<1>1. ItoaInit => ItoaInv
  BY InitItoa
<1>2. ItoaInv /\ [ItoaNext]_itoaVars => ItoaInv'
  BY NextItoa
<1>3. ItoaInv => ItoaReadsBack
  BY InvReadsBack
<1> QED
  BY <1>1, <1>2, <1>3, PTL DEF ItoaSpec

=============================================================================
