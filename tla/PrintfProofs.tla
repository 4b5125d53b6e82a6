---------------------------- MODULE PrintfProofs ----------------------------
(***************************************************************************)
(* Proofs about the printf family.                                         *)
(*                                                                         *)
(* Integer conversions: the conversion buffer is the text turned round.  The  *)
(* zeros of the precision, those of the width, the prefix and the sign are    *)
(* followed from the buffer into the text, and outside the cases of Departs   *)
(* they are those of the standard, one for one (Core, Prefixed, TextTurned).   *)
(*                                                                         *)
(* The output functions: at any time the buffer has the part of the text that *)
(* fits, and putchar has been given the text without its zeros (BufferInv).   *)
(*                                                                         *)
(* The parser: every conversion that C's grammar allows is read as C means it *)
(* (FormatInv, Parses).                                                    *)
(*                                                                         *)
(* Floating-point conversions: what is printed without an exponent reads back *)
(* as the number nearest to the argument (HalvesAre, FixedBufferReads).        *)
(***************************************************************************)
EXTENDS Printf, SequenceTheorems, WellFoundedInduction, TLAPS

-----------------------------------------------------------------------------
(***************************************************************************)
(* Natural numbers, and powers.                                            *)
(***************************************************************************)
\* The smallest number of a set.
LEMMA Smallest ==
    ASSUME NEW S \in SUBSET Nat, S # {}
    PROVE  \E k \in S : \A j \in S : k <= j
<1> DEFINE Less == {p \in Nat \X Nat : p[1] < p[2]}
<1>1. IsWellFoundedOn(Less, Nat)
  <2>1. Less = OpToRel(<, Nat)
    BY DEF OpToRel
  <2> HIDE DEF Less
  <2> QED BY <2>1, NatLessThanWellFounded, Zenon
<1> HIDE DEF Less
<1>2. PICK k \in S : \A j \in S : ~ (<<j, k>> \in Less)
  BY <1>1, WFMin
<1>3. ASSUME NEW j \in S
      PROVE  k <= j
  <2>1. j \in Nat /\ k \in Nat
    OBVIOUS
  <2>2. ~ (<<j, k>> \in {p \in Nat \X Nat : p[1] < p[2]})
    BY <1>2 DEF Less
  <2> QED BY <2>1, <2>2
<1> QED BY <1>3

LEMMA Induction ==
    ASSUME NEW T, 0 \in T, \A n \in Nat : n \in T => n + 1 \in T
    PROVE  Nat \subseteq T
<1> DEFINE S == Nat \ T
<1> SUFFICES ASSUME S # {} PROVE FALSE
  OBVIOUS
<1>1. PICK k \in S : \A j \in S : k <= j
  <2>1. S \in SUBSET Nat
    OBVIOUS
  <2> HIDE DEF S
  <2> QED BY <2>1, Smallest
<1>2. k \in Nat /\ k # 0 /\ k - 1 \in Nat /\ ~ (k <= k - 1)
  BY <1>1
<1>3. k - 1 \in T
  BY <1>1, <1>2
<1> QED BY <1>1, <1>2, <1>3

\* p[k] is the power of b that k factors give.
Factor(b, p, k) == IF k = 0 THEN 1 ELSE b * p[k - 1]

LEMMA SomePowers ==
    ASSUME NEW b, NEW L \in Nat
    PROVE  \E p : p = [k \in 0 .. L |-> Factor(b, p, k)]
<1> DEFINE Up(p, n) == p = [k \in 0 .. n |-> Factor(b, p, k)]
           T == {n \in Nat : \E p : Up(p, n)}
<1>1. 0 \in T
  <2> DEFINE p == [k \in 0 .. 0 |-> 1]
  <2>1. \A k \in 0 .. 0 : p[k] = Factor(b, p, k)
    BY DEF Factor
  <2>2. p = [k \in 0 .. 0 |-> p[k]]
    OBVIOUS
  <2> HIDE DEF p
  <2>3. Up(p, 0)
    BY <2>1, <2>2
  <2> QED BY <2>3
<1>2. ASSUME NEW n \in Nat, n \in T
      PROVE  n + 1 \in T
  <2>1. PICK p : Up(p, n)
    BY <1>2
  <2>2. \A k \in 0 .. n : p[k] = Factor(b, p, k)
    BY <2>1, Zenon
  <2> DEFINE h == [k \in 0 .. n + 1 |-> IF k = n + 1 THEN Factor(b, p, n + 1) ELSE p[k]]
  <2>3. \A k \in 0 .. n : h[k] = p[k]
    <3>1. \A k \in 0 .. n : k \in 0 .. n + 1 /\ k # n + 1
      BY <1>2
    <3> QED BY <3>1
  <2>4. h[n + 1] = Factor(b, p, n + 1)
    BY <1>2
  <2>5. h = [k \in 0 .. n + 1 |-> h[k]]
    OBVIOUS
  <2> HIDE DEF h
  <2>6. ASSUME NEW k \in 0 .. n + 1
        PROVE  h[k] = Factor(b, h, k)
    <3>1. k = 0 \/ k - 1 \in 0 .. n
      OBVIOUS
    <3>2. Factor(b, h, k) = Factor(b, p, k)
      BY <2>3, <3>1, Zenon DEF Factor
    <3>3. k \in 0 .. n \/ k = n + 1
      OBVIOUS
    <3> QED BY <2>2, <2>3, <2>4, <3>2, <3>3
  <2>7. Up(h, n + 1)
    BY <2>5, <2>6
  <2> QED BY <1>2, <2>7
<1> HIDE DEF T
<1>3. L \in T
  BY <1>1, <1>2, Induction
<1> QED BY <1>3 DEF T

LEMMA PowerOf ==
    ASSUME NEW b, NEW n \in Nat
    PROVE  \E p : Power(b, n) = p[n] /\ \A k \in 0 .. n : p[k] = Factor(b, p, k)
<1> DEFINE p == CHOOSE f : f = [k \in 0 .. n |-> IF k = 0 THEN 1 ELSE b * f[k - 1]]
<1>1. Power(b, n) = p[n]
  BY DEF Power
<1>2. p = [k \in 0 .. n |-> IF k = 0 THEN 1 ELSE b * p[k - 1]]
  BY SomePowers, Zenon DEF Factor
<1> HIDE DEF p
<1>3. \A k \in 0 .. n : p[k] = Factor(b, p, k)
  BY <1>2, Zenon DEF Factor
<1> QED BY <1>1, <1>3

LEMMA PowerIs ==
    ASSUME NEW b \in Nat \ {0}, NEW n \in Nat
    PROVE  /\ Power(b, 0) = 1
           /\ Power(b, n) \in Nat \ {0}
           /\ Power(b, n + 1) = b * Power(b, n)
<1>1. PICK p : Power(b, n) = p[n] /\ \A k \in 0 .. n : p[k] = Factor(b, p, k)
  BY PowerOf
<1>2. PICK q : Power(b, n + 1) = q[n + 1] /\ \A k \in 0 .. n + 1 : q[k] = Factor(b, q, k)
  BY PowerOf
<1> DEFINE T == {k \in Nat : k <= n => p[k] \in Nat \ {0} /\ q[k] = p[k]}
<1>3. 0 \in T
  <2>1. 0 \in 0 .. n /\ 0 \in 0 .. n + 1
    OBVIOUS
  <2>2. p[0] = 1 /\ q[0] = 1
    BY <1>1, <1>2, <2>1, Zenon DEF Factor
  <2> QED BY <2>2
<1>4. ASSUME NEW k \in Nat, k \in T
      PROVE  k + 1 \in T
  <2> SUFFICES ASSUME k + 1 <= n
               PROVE  p[k + 1] \in Nat \ {0} /\ q[k + 1] = p[k + 1]
    OBVIOUS
  <2>1. k + 1 \in 0 .. n /\ k + 1 \in 0 .. n + 1 /\ k + 1 # 0 /\ (k + 1) - 1 = k /\ k <= n
    OBVIOUS
  <2>2. p[k + 1] = b * p[k] /\ q[k + 1] = b * q[k]
    <3>1. p[k + 1] = Factor(b, p, k + 1) /\ q[k + 1] = Factor(b, q, k + 1)
      BY <1>1, <1>2, <2>1
    <3> QED BY <2>1, <3>1 DEF Factor
  <2>3. p[k] \in Nat \ {0} /\ q[k] = p[k]
    BY <1>4, <2>1
  <2> DEFINE x == p[k]
  <2>4. b * x \in Nat \ {0}
    <3>1. x \in Nat \ {0}
      BY <2>3
    <3> HIDE DEF x
    <3> QED BY <3>1
  <2> QED BY <2>2, <2>3, <2>4
<1> HIDE DEF T
<1>5. n \in T
  BY <1>3, <1>4, Induction
<1>6. p[n] \in Nat \ {0} /\ q[n] = p[n]
  BY <1>5 DEF T
<1>7. q[n + 1] = b * q[n]
  <2>1. n + 1 \in 0 .. n + 1 /\ n + 1 # 0 /\ (n + 1) - 1 = n
    OBVIOUS
  <2>2. q[n + 1] = Factor(b, q, n + 1)
    BY <1>2, <2>1
  <2> QED BY <2>1, <2>2 DEF Factor
<1>8. Power(b, 0) = 1
  <2>1. PICK r : Power(b, 0) = r[0] /\ \A k \in 0 .. 0 : r[k] = Factor(b, r, k)
    BY PowerOf
  <2>2. 0 \in 0 .. 0
    OBVIOUS
  <2> QED BY <2>1, <2>2, Zenon DEF Factor
<1> QED BY <1>1, <1>2, <1>6, <1>7, <1>8

LEMMA PowersOf2 ==
    ASSUME NEW n \in Nat
    PROVE  /\ Power(2, 0) = 1 /\ Power(2, n) \in Nat \ {0} /\ Power(2, n + 1) = 2 * Power(2, n)
           /\ Power(10, 0) = 1 /\ Power(10, n) \in Nat \ {0} /\ Power(10, n + 1) = 10 * Power(10, n)
<1>1. 2 \in Nat \ {0} /\ 10 \in Nat \ {0}
  OBVIOUS
<1> QED BY <1>1, PowerIs, Zenon

-----------------------------------------------------------------------------
(***************************************************************************)
(* Sequences of anything.                                                  *)
(***************************************************************************)
IsSeq(s) == Len(s) \in Nat /\ s = [k \in 1 .. Len(s) |-> s[k]]

\* What \o puts where.
LEMMA Concat ==
    ASSUME NEW s, NEW t, IsSeq(s), IsSeq(t)
    PROVE  /\ IsSeq(s \o t)
           /\ Len(s \o t) = Len(s) + Len(t)
           /\ \A k \in 1 .. Len(s) : (s \o t)[k] = s[k]
           /\ \A k \in Len(s) + 1 .. Len(s) + Len(t) : (s \o t)[k] = t[k - Len(s)]
<1> DEFINE S == {s[k] : k \in 1 .. Len(s)} \cup {t[k] : k \in 1 .. Len(t)}
<1>1. s \in Seq(S) /\ t \in Seq(S)
  <2>1. s \in [1 .. Len(s) -> S]
    BY DEF IsSeq
  <2>2. t \in [1 .. Len(t) -> S]
    BY DEF IsSeq
  <2> QED BY <2>1, <2>2, SeqDef DEF IsSeq
<1> HIDE DEF S
<1>2. /\ s \o t \in Seq(S) /\ Len(s \o t) = Len(s) + Len(t)
      /\ \A k \in 1 .. Len(s) + Len(t) :
            (s \o t)[k] = IF k <= Len(s) THEN s[k] ELSE t[k - Len(s)]
  BY <1>1, ConcatProperties
<1>3. s \o t = [k \in 1 .. Len(s \o t) |-> (s \o t)[k]] /\ Len(s \o t) \in Nat
  BY <1>2, LenProperties
<1> QED BY <1>2, <1>3 DEF IsSeq

LEMMA SameSeq ==
    ASSUME NEW s, NEW t, IsSeq(s), IsSeq(t), Len(s) = Len(t),
           \A k \in 1 .. Len(s) : s[k] = t[k]
    PROVE  s = t
BY DEF IsSeq

LEMMA ConcatEmpty ==
    ASSUME NEW s, IsSeq(s)
    PROVE  /\ IsSeq(<< >>) /\ Len(<< >>) = 0
           /\ s \o << >> = s /\ << >> \o s = s
<1>1. IsSeq(<< >>) /\ Len(<< >>) = 0 /\ Len(s) \in Nat
  BY DEF IsSeq
<1>2. s \o << >> = s
  <2> DEFINE t == s \o << >>
  <2>1. /\ IsSeq(t) /\ Len(t) = Len(s) + 0
        /\ \A k \in 1 .. Len(s) : t[k] = s[k]
    BY <1>1, Concat
  <2> HIDE DEF t
  <2>2. t = s
    BY <1>1, <2>1, SameSeq
  <2> QED BY <2>2 DEF t
<1>3. << >> \o s = s
  <2> DEFINE t == << >> \o s
  <2>1. /\ IsSeq(t) /\ Len(t) = 0 + Len(s)
        /\ \A k \in 0 + 1 .. 0 + Len(s) : t[k] = s[k - 0]
    BY <1>1, Concat
  <2> HIDE DEF t
  <2>2. Len(t) = Len(s) /\ \A k \in 1 .. Len(t) : t[k] = s[k]
    BY <1>1, <2>1
  <2>3. t = s
    BY <2>1, <2>2, SameSeq
  <2> QED BY <2>3 DEF t
<1> QED BY <1>1, <1>2, <1>3

LEMMA JoinAssociative ==
    ASSUME NEW r, NEW s, NEW t, IsSeq(r), IsSeq(s), IsSeq(t)
    PROVE  (r \o s) \o t = r \o (s \o t)
<1> DEFINE rs == r \o s
           st == s \o t
           left == rs \o t
           right == r \o st
<1>0. Len(r) \in Nat /\ Len(s) \in Nat /\ Len(t) \in Nat
  BY DEF IsSeq
<1>1. /\ IsSeq(rs) /\ Len(rs) = Len(r) + Len(s)
      /\ \A k \in 1 .. Len(r) : rs[k] = r[k]
      /\ \A k \in Len(r) + 1 .. Len(r) + Len(s) : rs[k] = s[k - Len(r)]
  BY Concat
<1>2. /\ IsSeq(st) /\ Len(st) = Len(s) + Len(t)
      /\ \A k \in 1 .. Len(s) : st[k] = s[k]
      /\ \A k \in Len(s) + 1 .. Len(s) + Len(t) : st[k] = t[k - Len(s)]
  BY Concat
<1> HIDE DEF rs, st
<1>3. /\ IsSeq(left) /\ Len(left) = Len(rs) + Len(t)
      /\ \A k \in 1 .. Len(rs) : left[k] = rs[k]
      /\ \A k \in Len(rs) + 1 .. Len(rs) + Len(t) : left[k] = t[k - Len(rs)]
  BY <1>1, Concat
<1>4. /\ IsSeq(right) /\ Len(right) = Len(r) + Len(st)
      /\ \A k \in 1 .. Len(r) : right[k] = r[k]
      /\ \A k \in Len(r) + 1 .. Len(r) + Len(st) : right[k] = st[k - Len(r)]
  BY <1>2, Concat
<1> HIDE DEF left, right
<1>5. Len(left) = Len(r) + Len(s) + Len(t) /\ Len(right) = Len(left)
  BY <1>0, <1>1, <1>2, <1>3, <1>4
<1>6. ASSUME NEW k \in 1 .. Len(left)
      PROVE  left[k] = right[k]
  <2>1. CASE k <= Len(r)
    <3>1. k \in 1 .. Len(r) /\ k \in 1 .. Len(rs)
      BY <1>0, <1>1, <2>1
    <3> QED BY <3>1, <1>1, <1>3, <1>4
  <2>2. CASE k > Len(r) /\ k <= Len(r) + Len(s)
    <3>1. /\ k \in Len(r) + 1 .. Len(r) + Len(s) /\ k \in 1 .. Len(rs)
          /\ k \in Len(r) + 1 .. Len(r) + Len(st) /\ k - Len(r) \in 1 .. Len(s)
      BY <1>0, <1>1, <1>2, <2>2
    <3>2. left[k] = s[k - Len(r)]
      BY <3>1, <1>1, <1>3
    <3>3. right[k] = s[k - Len(r)]
      BY <3>1, <1>2, <1>4
    <3> QED BY <3>2, <3>3
  <2>3. CASE k > Len(r) + Len(s)
    <3>1. /\ k \in Len(rs) + 1 .. Len(rs) + Len(t)
          /\ k \in Len(r) + 1 .. Len(r) + Len(st)
          /\ k - Len(r) \in Len(s) + 1 .. Len(s) + Len(t)
          /\ (k - Len(r)) - Len(s) = k - Len(rs)
      BY <1>0, <1>1, <1>2, <1>5, <2>3
    <3>2. left[k] = t[k - Len(rs)]
      BY <3>1, <1>3
    <3>3. right[k] = t[k - Len(rs)]
      BY <3>1, <1>2, <1>4
    <3> QED BY <3>2, <3>3
  <2> QED BY <1>0, <1>5, <2>1, <2>2, <2>3
<1>7. left = right
  BY <1>3, <1>4, <1>5, <1>6, SameSeq
<1> QED BY <1>7 DEF left, right, rs, st

LEMMA Reversed ==
    ASSUME NEW s, IsSeq(s)
    PROVE  /\ IsSeq(Reverse(s)) /\ Len(Reverse(s)) = Len(s)
           /\ \A k \in 1 .. Len(s) : Reverse(s)[k] = s[(Len(s) - k) + 1]
BY DEF IsSeq, Reverse

LEMMA ReverseConcat ==
    ASSUME NEW s, NEW t, IsSeq(s), IsSeq(t)
    PROVE  Reverse(s \o t) = Reverse(t) \o Reverse(s)
<1> DEFINE st == s \o t
           rs == Reverse(s)
           rt == Reverse(t)
           left == Reverse(st)
           right == rt \o rs
<1>0. Len(s) \in Nat /\ Len(t) \in Nat
  BY DEF IsSeq
<1>1. /\ IsSeq(st) /\ Len(st) = Len(s) + Len(t)
      /\ \A k \in 1 .. Len(s) : st[k] = s[k]
      /\ \A k \in Len(s) + 1 .. Len(s) + Len(t) : st[k] = t[k - Len(s)]
  BY Concat
<1>2. /\ IsSeq(rs) /\ Len(rs) = Len(s)
      /\ \A k \in 1 .. Len(s) : rs[k] = s[(Len(s) - k) + 1]
  BY Reversed
<1>3. /\ IsSeq(rt) /\ Len(rt) = Len(t)
      /\ \A k \in 1 .. Len(t) : rt[k] = t[(Len(t) - k) + 1]
  BY Reversed
<1> HIDE DEF st, rs, rt
<1>4. /\ IsSeq(left) /\ Len(left) = Len(st)
      /\ \A k \in 1 .. Len(st) : left[k] = st[(Len(st) - k) + 1]
  BY <1>1, Reversed
<1>5. /\ IsSeq(right) /\ Len(right) = Len(rt) + Len(rs)
      /\ \A k \in 1 .. Len(rt) : right[k] = rt[k]
      /\ \A k \in Len(rt) + 1 .. Len(rt) + Len(rs) : right[k] = rs[k - Len(rt)]
  <2>1. IsSeq(rt) /\ IsSeq(rs)
    BY <1>2, <1>3
  <2> QED BY <2>1, Concat
<1> HIDE DEF left, right
<1>6. ASSUME NEW k \in 1 .. Len(left)
      PROVE  left[k] = right[k]
  <2>1. CASE k <= Len(t)
    <3>1. /\ k \in 1 .. Len(t) /\ k \in 1 .. Len(st)
          /\ (Len(st) - k) + 1 \in Len(s) + 1 .. Len(s) + Len(t)
          /\ ((Len(st) - k) + 1) - Len(s) = (Len(t) - k) + 1
      BY <1>0, <1>1, <1>4, <2>1
    <3>2. left[k] = t[(Len(t) - k) + 1]
      BY <3>1, <1>1, <1>4
    <3>3. right[k] = t[(Len(t) - k) + 1]
      BY <3>1, <1>3, <1>5
    <3> QED BY <3>2, <3>3
  <2>2. CASE k > Len(t)
    <3>1. /\ k \in Len(t) + 1 .. Len(t) + Len(s) /\ k \in 1 .. Len(st)
          /\ k - Len(t) \in 1 .. Len(s)
          /\ (Len(st) - k) + 1 \in 1 .. Len(s)
          /\ (Len(st) - k) + 1 = (Len(s) - (k - Len(t))) + 1
      BY <1>0, <1>1, <1>4, <2>2
    <3>2. left[k] = s[(Len(st) - k) + 1]
      BY <3>1, <1>1, <1>4
    <3>3. right[k] = s[(Len(s) - (k - Len(t))) + 1]
      BY <3>1, <1>2, <1>3, <1>5
    <3> QED BY <3>1, <3>2, <3>3
  <2> QED BY <1>0, <2>1, <2>2
<1>7. Len(left) = Len(right)
  BY <1>0, <1>1, <1>2, <1>3, <1>4, <1>5
<1>8. left = right
  BY <1>4, <1>5, <1>6, <1>7, SameSeq
<1> QED BY <1>8 DEF left, right, st, rs, rt

LEMMA TimesIs ==
    ASSUME NEW x, NEW n \in Nat
    PROVE  /\ IsSeq(Times(x, n)) /\ Len(Times(x, n)) = n
           /\ \A k \in 1 .. n : Times(x, n)[k] = x
           /\ Reverse(Times(x, n)) = Times(x, n)
           /\ n = 0 => Times(x, n) = << >>
<1>1. /\ IsSeq(Times(x, n)) /\ Len(Times(x, n)) = n
      /\ \A k \in 1 .. n : Times(x, n)[k] = x
  BY DEF IsSeq, Times
<1>2. Reverse(Times(x, n)) = Times(x, n)
  <2> DEFINE s == Times(x, n)
             r == Reverse(s)
  <2>1. /\ IsSeq(r) /\ Len(r) = n
        /\ \A k \in 1 .. n : r[k] = s[(n - k) + 1]
    BY <1>1, Reversed
  <2>2. \A k \in 1 .. n : (n - k) + 1 \in 1 .. n
    OBVIOUS
  <2> HIDE DEF s, r
  <2>3. r = s
    BY <1>1, <2>1, <2>2, SameSeq DEF s
  <2> QED BY <2>3 DEF r, s
<1>3. n = 0 => Times(x, n) = << >>
  <2>1. IsSeq(<< >>) /\ Len(<< >>) = 0
    BY DEF IsSeq
  <2> QED BY <1>1, <2>1, SameSeq
<1> QED BY <1>1, <1>2, <1>3

-----------------------------------------------------------------------------
(***************************************************************************)
(* The operators the conversions are made of.                              *)
(***************************************************************************)
\* How many characters a text of len characters needs to have n.
Missing(n, len) == IF len < n THEN n - len ELSE 0

LEMMA FitAll ==
    ASSUME NEW s, IsSeq(s), NEW size \in Nat, Len(s) <= size
    PROVE  Fit(s, size) = s
<1>1. Least(Len(s), size) = Len(s) /\ Len(s) \in Nat
  BY DEF Least, IsSeq
<1>2. SubSeq(s, 1, Len(s)) = s
  <2> DEFINE S == {s[k] : k \in 1 .. Len(s)}
  <2>1. s \in [1 .. Len(s) -> S]
    BY DEF IsSeq
  <2>2. s \in Seq(S)
    BY <1>1, <2>1, SeqDef
  <2> HIDE DEF S
  <2> QED BY <2>2, SubSeqFull
<1> QED BY <1>1, <1>2 DEF Fit

\* The first characters of a text followed by another.
LEMMA FirstPart ==
    ASSUME NEW s, NEW t, IsSeq(s), IsSeq(t), NEW m \in 0 .. Len(t), NEW x,
           \A k \in 1 .. Len(t) : t[k] = x
    PROVE  SubSeq(s \o t, 1, Len(s) + m) = s \o Times(x, m)
<1> DEFINE st == s \o t
           e == Times(x, m)
           left == SubSeq(st, 1, Len(s) + m)
           right == s \o e
           S == {st[k] : k \in 1 .. Len(st)}
<1>0. Len(s) \in Nat /\ Len(t) \in Nat /\ m \in Nat
  BY DEF IsSeq
<1>1. /\ IsSeq(st) /\ Len(st) = Len(s) + Len(t)
      /\ \A k \in 1 .. Len(s) : st[k] = s[k]
      /\ \A k \in Len(s) + 1 .. Len(s) + Len(t) : st[k] = t[k - Len(s)]
  BY Concat
<1>2. IsSeq(e) /\ Len(e) = m /\ \A k \in 1 .. m : e[k] = x
  BY <1>0, TimesIs
<1> HIDE DEF st, e
<1>3. /\ IsSeq(right) /\ Len(right) = Len(s) + Len(e)
      /\ \A k \in 1 .. Len(s) : right[k] = s[k]
      /\ \A k \in Len(s) + 1 .. Len(s) + Len(e) : right[k] = e[k - Len(s)]
  BY <1>2, Concat
<1>4. st \in Seq(S)
  <2>1. st \in [1 .. Len(st) -> S]
    BY <1>1 DEF IsSeq
  <2> HIDE DEF S
  <2> QED BY <1>0, <1>1, <2>1, SeqDef
<1> HIDE DEF S
<1>5. /\ IsSeq(left) /\ Len(left) = Len(s) + m
      /\ \A k \in 1 .. Len(s) + m : left[k] = st[k]
  <2>1. /\ left \in Seq(S) /\ Len(left) = IF 1 <= Len(s) + m THEN (Len(s) + m) - 1 + 1 ELSE 0
        /\ \A k \in 1 .. (Len(s) + m) - 1 + 1 : left[k] = st[1 + k - 1]
    BY <1>0, <1>1, <1>4, SubSeqProperties
  <2>2. left = [k \in 1 .. Len(left) |-> left[k]]
    BY <2>1, LenProperties
  <2> HIDE DEF left
  <2> QED BY <1>0, <2>1, <2>2 DEF IsSeq
<1> HIDE DEF left, right
<1>6. ASSUME NEW k \in 1 .. Len(left)
      PROVE  left[k] = right[k]
  <2>1. CASE k <= Len(s)
    <3>1. k \in 1 .. Len(s) /\ k \in 1 .. Len(s) + m
      BY <1>0, <2>1
    <3> QED BY <3>1, <1>1, <1>3, <1>5
  <2>2. CASE k > Len(s)
    <3>1. /\ k \in Len(s) + 1 .. Len(s) + Len(t) /\ k \in 1 .. Len(s) + m
          /\ k \in Len(s) + 1 .. Len(s) + Len(e)
          /\ k - Len(s) \in 1 .. Len(t) /\ k - Len(s) \in 1 .. m
      BY <1>0, <1>2, <1>5, <2>2
    <3>2. left[k] = x
      BY <3>1, <1>1, <1>5
    <3>3. right[k] = x
      BY <3>1, <1>2, <1>3
    <3> QED BY <3>2, <3>3
  <2> QED BY <1>0, <1>5, <2>1, <2>2
<1>7. left = right
  BY <1>2, <1>3, <1>5, <1>6, SameSeq
<1> QED BY <1>7 DEF left, right, st, e

LEMMA MissingIs ==
    ASSUME NEW n \in Int, NEW len \in Nat
    PROVE  Missing(n, len) \in Nat
BY DEF Missing

\* Filling a text that may be filled.
LEMMA FillIs ==
    ASSUME NEW s, IsSeq(s), NEW n \in Int, NEW size \in Nat, n <= size
    PROVE  Fill(s, n, size) = s \o Times("0", Missing(n, Len(s)))
<1>0. Len(s) \in Nat /\ Least(n, size) = n
  BY DEF IsSeq, Least
<1>1. CASE Len(s) < n
  BY <1>0, <1>1 DEF Fill, Missing
<1>2. CASE ~ (Len(s) < n)
  <2>1. Missing(n, Len(s)) = 0 /\ Times("0", 0) = << >>
    BY <1>2, TimesIs DEF Missing
  <2>2. Fill(s, n, size) = s
    BY <1>0, <1>2 DEF Fill
  <2>3. s \o << >> = s
    BY ConcatEmpty
  <2> QED BY <2>1, <2>2, <2>3
<1> QED BY <1>1, <1>2

\* The same as the reference has it, where the text has been turned round.
LEMMA ZerosAre ==
    ASSUME NEW s, IsSeq(s), NEW n \in Int
    PROVE  ZerosBefore(n, Reverse(s)) = Reverse(s \o Times("0", Missing(n, Len(s))))
<1> DEFINE m == Missing(n, Len(s))
<1>1. Len(s) \in Nat /\ Len(Reverse(s)) = Len(s) /\ m \in Nat
  BY Reversed, MissingIs DEF IsSeq
<1>2. ZerosBefore(n, Reverse(s)) = Times("0", m) \o Reverse(s)
  BY <1>1 DEF ZerosBefore, Missing
<1> HIDE DEF m
<1>3. IsSeq(Times("0", m)) /\ Reverse(Times("0", m)) = Times("0", m)
  BY <1>1, TimesIs
<1>4. Reverse(s \o Times("0", m)) = Reverse(Times("0", m)) \o Reverse(s)
  BY <1>3, ReverseConcat
<1> QED BY <1>2, <1>3, <1>4 DEF m

-----------------------------------------------------------------------------
(***************************************************************************)
(* Conversions of integers.                                                *)
(***************************************************************************)
\* What a caller that passes the arguments the format asks for gives them.
WellFormed(c) ==
    /\ c.spec \in IntegerSpecs \ {"p"}
    /\ c.width \in Nat /\ c.precision \in Nat \cup {NONE} /\ c.arg \in Int

LEMMA Bases ==
    ASSUME NEW c, WellFormed(c)
    PROVE  /\ Base(c) \in {2, 8, 10, 16}
           /\ Base(c) = 16 <=> c.spec \in {"x", "X"}
           /\ Base(c) = 10 <=> c.spec \in {"d", "i", "u"}
<1>1. c.spec \in {"d", "i", "u", "x", "X", "o", "b"}
  BY DEF WellFormed, IntegerSpecs
<1> QED BY <1>1 DEF Base

LEMMA ValuesOf ==
    ASSUME NEW c, c.arg \in Int
    PROVE  /\ Value(c) \in Int /\ Magnitude(c) \in Nat
           /\ ~ Signed(c) => ~ (Value(c) < 0)
<1> DEFINE range == Power(2, Bits(c))
<1>1. range \in Nat \ {0}
  <2>1. Bits(c) \in {CHAR_BITS, SHORT_BITS, INT_BITS, LONG_BITS}
    BY Zenon DEF Bits
  <2>2. Bits(c) \in Nat
    BY <2>1, TypesAssumption
  <2>3. Power(2, Bits(c)) \in Nat \ {0}
    BY <2>2, PowerIs
  <2> QED BY <2>3
<1> DEFINE u == c.arg % range
<1>2. c.arg \in Int
  OBVIOUS
<1> HIDE DEF range
<1>3. u \in Nat
  BY <1>1, <1>2
<1>4. Value(c) = IF Signed(c) /\ u >= range \div 2 THEN u - range ELSE u
  BY DEF Value, range
<1> HIDE DEF u
<1>5. Value(c) \in Int /\ (~ Signed(c) => ~ (Value(c) < 0))
  BY <1>1, <1>3, <1>4
<1>6. Magnitude(c) \in Nat
  BY <1>5 DEF Magnitude
<1> QED BY <1>5, <1>6

LEMMA Values ==
    ASSUME NEW c, WellFormed(c)
    PROVE  /\ Value(c) \in Int /\ Magnitude(c) \in Nat
           /\ ~ Signed(c) => ~ (Value(c) < 0)
BY ValuesOf DEF WellFormed

\* There are as many digits as the number has, and never none.
LEMMA SomeDigits ==
    ASSUME NEW value, NEW base, NEW max \in Nat \ {0}, NEW chars
    PROVE  LET s == DigitsOf(value, base, max, chars)
           IN  /\ IsSeq(s) /\ Len(s) \in 1 .. max
               /\ Len(s) = max \/ value < Power(base, Len(s))
               /\ \A j \in 1 .. Len(s) - 1 : ~ (value < Power(base, j))
<1> DEFINE S == {k \in 1 .. max : k = max \/ value < Power(base, k)}
           n == CHOOSE k \in 1 .. max :
                   /\ k = max \/ value < Power(base, k)
                   /\ \A j \in 1 .. k - 1 : ~ (value < Power(base, j))
<1>1. \E k \in 1 .. max : /\ k = max \/ value < Power(base, k)
                          /\ \A j \in 1 .. k - 1 : ~ (value < Power(base, j))
  <2>1. S \in SUBSET Nat /\ max \in S
    OBVIOUS
  <2>2. PICK k \in S : \A j \in S : k <= j
    BY <2>1, Smallest
  <2>3. ASSUME NEW j \in 1 .. k - 1
        PROVE  ~ (value < Power(base, j))
    <3>1. j \in 1 .. max /\ j # max /\ ~ (k <= j)
      BY <2>2
    <3> QED BY <3>1, <2>2
  <2> QED BY <2>2, <2>3
<1>2. /\ n \in 1 .. max
      /\ n = max \/ value < Power(base, n)
      /\ \A j \in 1 .. n - 1 : ~ (value < Power(base, j))
  BY <1>1, Zenon
<1> DEFINE digits == DigitsOf(value, base, max, chars)
<1>3. digits = [k \in 1 .. n |-> chars[((value \div Power(base, k - 1)) % base) + 1]]
  BY DEF DigitsOf
<1> HIDE DEF n, digits
<1>4. Len(digits) = n /\ IsSeq(digits)
  BY <1>2, <1>3 DEF IsSeq
<1> QED BY <1>2, <1>4 DEF digits

LEMMA DigitsAre ==
    ASSUME NEW c, WellFormed(c)
    PROVE  /\ IsSeq(Digits(c)) /\ Len(Digits(c)) \in Nat
           /\ Value(c) # 0 => Len(Digits(c)) \in Nat \ {0}
<1> DEFINE chars == IF c.spec \in {"X", "p"} THEN UpperChars ELSE DigitChars
           digits == DigitsOf(Magnitude(c), Base(c), NTOA_BUFFER, chars)
<1>1. IsSeq(digits) /\ Len(digits) \in 1 .. NTOA_BUFFER
  <2>1. Magnitude(c) \in Int /\ Base(c) \in {2, 8, 10, 16}
    BY Values, Bases
  <2> HIDE DEF chars
  <2> QED BY <2>1, BufferAssumption, SomeDigits
<1>2. Digits(c) = IF Value(c) = 0 /\ c.precision # NONE THEN << >> ELSE digits
  BY DEF Digits
<1> HIDE DEF digits
<1>3. IsSeq(<< >>) /\ Len(<< >>) = 0
  BY DEF IsSeq
<1> QED BY <1>1, <1>2, <1>3, BufferAssumption

LEMMA FlagsAre ==
    ASSUME NEW c, WellFormed(c)
    PROVE  /\ "0" \in Flags(c) => c.precision = NONE
           /\ "#" \in Flags(c) => Base(c) # 10 /\ Value(c) # 0
           /\ "+" \in Flags(c) \/ " " \in Flags(c) => Signed(c)
<1>1. c.spec # "p"
  BY DEF WellFormed, IntegerSpecs
<1>2. Flags(c) = {f \in c.flags :
                    /\ f = "#" => Base(c) # 10 /\ Value(c) # 0
                    /\ f \in {"+", " "} => Signed(c)
                    /\ f = "0" => c.precision = NONE}
  BY <1>1, Zenon DEF Flags
<1> QED BY <1>2, Zenon

\* The text that is proved first: what the flags and the digits of the code make
\* of a sign, a prefix and zeros, and the cases in which it is another.
Sign(c) == IF Value(c) < 0 THEN <<"-">>
           ELSE IF "+" \in Flags(c) THEN <<"+">>
           ELSE IF " " \in Flags(c) THEN <<" ">> ELSE << >>
Prefix(c) == IF "#" \notin Flags(c) THEN << >>
             ELSE IF c.spec = "o" THEN <<"0">> ELSE <<"0", c.spec>>
Body(c) ==
    LET fixed == Sign(c) \o Prefix(c)
        room == IF Zeroed(Flags(c)) THEN c.width - Len(fixed) ELSE 0
    IN  fixed \o ZerosBefore(room, ZerosBefore(Precision(c), Reverse(Digits(c))))
TextByFlags(c) == Padded([flags |-> Flags(c), width |-> c.width], Body(c))
DepartsByFlags(c) ==
    LET n == Len(Digits(c))
        width == WidthLeft(Flags(c), c.width, Value(c) < 0)
        padded == Zeroed(Flags(c)) /\ n <= width
    IN  \/ Len(Body(c)) > NTOA_BUFFER
        \/ "-" \in Flags(c) /\ Precision(c) > n
        \/ /\ "#" \in Flags(c) /\ c.precision = NONE
           /\ \/ n = width
              \/ padded /\ c.spec \in {"x", "X"} /\ width - n < 2
              \/ padded /\ c.spec = "b"
        \/ "#" \in Flags(c) /\ c.spec = "o" /\ Precision(c) > n

HasSign(c) == (Value(c) < 0) \/ Flags(c) \cap {"+", " "} # {}

LEMMA SignIs ==
    ASSUME NEW c
    PROVE  /\ IsSeq(Sign(c)) /\ Reverse(Sign(c)) = Sign(c)
           /\ Len(Sign(c)) = IF HasSign(c) THEN 1 ELSE 0
           /\ Len(Sign(c)) = 0 => Sign(c) = << >>
<1>1. \A x : IsSeq(<<x>>) /\ Reverse(<<x>>) = <<x>> /\ Len(<<x>>) = 1
  BY DEF IsSeq, Reverse
<1>2. IsSeq(<< >>) /\ Reverse(<< >>) = << >> /\ Len(<< >>) = 0
  BY DEF IsSeq, Reverse
<1>3. CASE HasSign(c)
  <2>1. \E x : Sign(c) = <<x>>
    BY <1>3, Zenon DEF Sign, HasSign
  <2>2. IsSeq(Sign(c)) /\ Reverse(Sign(c)) = Sign(c) /\ Len(Sign(c)) = 1
    BY <1>1, <2>1, Zenon
  <2>3. Len(Sign(c)) # 0
    BY <2>2
  <2> QED BY <1>3, <2>2, <2>3, Zenon
<1>4. CASE ~ HasSign(c)
  <2>1. Sign(c) = << >>
    BY <1>4, Zenon DEF Sign, HasSign
  <2>2. IsSeq(Sign(c)) /\ Reverse(Sign(c)) = Sign(c) /\ Len(Sign(c)) = 0
    BY <1>2, <2>1, Zenon
  <2>3. Len(Sign(c)) = IF HasSign(c) THEN 1 ELSE 0
    BY <1>4, <2>2
  <2>4. Len(Sign(c)) = 0 => Sign(c) = << >>
    BY <2>1
  <2> DEFINE sign == Sign(c)
  <2> HIDE DEF sign
  <2> QED BY <2>2, <2>3, <2>4
<1> QED BY <1>3, <1>4

LEMMA PrefixIs ==
    ASSUME NEW c, WellFormed(c)
    PROVE  /\ IsSeq(Prefix(c))
           /\ "#" \notin Flags(c) => Prefix(c) = << >> /\ Len(Prefix(c)) = 0
           /\ "#" \in Flags(c) /\ c.spec = "o" => Prefix(c) = <<"0">> /\ Len(Prefix(c)) = 1
           /\ "#" \in Flags(c) /\ c.spec # "o" => Prefix(c) = <<"0", c.spec>> /\ Len(Prefix(c)) = 2
<1>1. Prefix(c) = IF "#" \notin Flags(c) THEN << >>
                  ELSE IF c.spec = "o" THEN <<"0">> ELSE <<"0", c.spec>>
  BY DEF Prefix
<1>2. \A x : IsSeq(<<x>>) /\ Len(<<x>>) = 1
  BY DEF IsSeq
<1>3. \A x, y : IsSeq(<<x, y>>) /\ Len(<<x, y>>) = 2
  BY DEF IsSeq
<1>4. IsSeq(<< >>) /\ Len(<< >>) = 0
  BY DEF IsSeq
<1> QED BY <1>1, <1>2, <1>3, <1>4, Zenon

-----------------------------------------------------------------------------
(***************************************************************************)
(* That text: the digits, turned round, behind the zeros of the precision and *)
(* those of the width, the prefix and the sign.                              *)
(***************************************************************************)
Zeros(c) == Missing(Precision(c), Len(Digits(c)))
Room(c) == IF Zeroed(Flags(c)) THEN c.width - (Len(Sign(c)) + Len(Prefix(c))) ELSE 0
MoreZeros(c) == Missing(Room(c), Len(Digits(c)) + Zeros(c))
Core(c) == (Digits(c) \o Times("0", Zeros(c))) \o Times("0", MoreZeros(c))

\* The width that the code is left with.
Left(c) == WidthLeft(Flags(c), c.width, Value(c) < 0)

LEMMA LeftIs ==
    ASSUME NEW c
    PROVE  Left(c) = IF c.width > 0 /\ Zeroed(Flags(c)) /\ HasSign(c) THEN c.width - 1 ELSE c.width
BY Zenon DEF Left, WidthLeft, HasSign

LEMMA Numbers ==
    ASSUME NEW c, WellFormed(c)
    PROVE  /\ c.width \in Nat /\ Precision(c) \in Nat /\ Len(Digits(c)) \in Nat
           /\ Zeros(c) \in Nat /\ Room(c) \in Int /\ MoreZeros(c) \in Nat
           /\ Len(Sign(c)) \in 0 .. 1 /\ Len(Prefix(c)) \in 0 .. 2
           /\ Left(c) \in Nat
<1>1. c.width \in Nat /\ Precision(c) \in Nat
  BY DEF WellFormed, Precision, NONE
<1>2. Len(Digits(c)) \in Nat
  BY DigitsAre
<1>3. Len(Sign(c)) \in 0 .. 1
  BY SignIs
<1>4. Len(Prefix(c)) \in 0 .. 2
  BY PrefixIs
<1>5. Zeros(c) \in Nat
  BY <1>1, <1>2, MissingIs DEF Zeros
<1>6. Room(c) \in Int
  BY <1>1, <1>3, <1>4 DEF Room
<1>7. MoreZeros(c) \in Nat
  <2>1. Len(Digits(c)) + Zeros(c) \in Nat
    BY <1>2, <1>5
  <2> QED BY <1>6, <2>1, MissingIs DEF MoreZeros
<1>8. Left(c) \in Nat
  BY <1>1, LeftIs
<1> QED BY <1>1, <1>2, <1>3, <1>4, <1>5, <1>6, <1>7, <1>8

LEMMA CoreIs ==
    ASSUME NEW c, WellFormed(c)
    PROVE  /\ IsSeq(Digits(c) \o Times("0", Zeros(c)))
           /\ Len(Digits(c) \o Times("0", Zeros(c))) = Len(Digits(c)) + Zeros(c)
           /\ IsSeq(Core(c)) /\ Len(Core(c)) = Len(Digits(c)) + Zeros(c) + MoreZeros(c)
<1> DEFINE q == Digits(c) \o Times("0", Zeros(c))
<1>1. IsSeq(Digits(c)) /\ Zeros(c) \in Nat /\ MoreZeros(c) \in Nat
  BY DigitsAre, Numbers
<1>2. /\ IsSeq(Times("0", Zeros(c))) /\ Len(Times("0", Zeros(c))) = Zeros(c)
      /\ IsSeq(Times("0", MoreZeros(c))) /\ Len(Times("0", MoreZeros(c))) = MoreZeros(c)
  BY <1>1, TimesIs
<1>3. IsSeq(q) /\ Len(q) = Len(Digits(c)) + Zeros(c)
  BY <1>1, <1>2, Concat
<1>4. Core(c) = q \o Times("0", MoreZeros(c))
  BY DEF Core
<1> HIDE DEF q
<1>5. IsSeq(Core(c)) /\ Len(Core(c)) = Len(q) + MoreZeros(c)
  BY <1>2, <1>3, <1>4, Concat
<1> QED BY <1>3, <1>5 DEF q

LEMMA BodyIs ==
    ASSUME NEW c, WellFormed(c)
    PROVE  /\ Body(c) = (Sign(c) \o Prefix(c)) \o Reverse(Core(c))
           /\ IsSeq(Body(c))
           /\ Len(Body(c)) = Len(Sign(c)) + Len(Prefix(c)) + Len(Core(c))
<1> DEFINE fixed == Sign(c) \o Prefix(c)
           q == Digits(c) \o Times("0", Zeros(c))
<1>1. IsSeq(fixed) /\ Len(fixed) = Len(Sign(c)) + Len(Prefix(c))
  BY SignIs, PrefixIs, Concat
<1>2. ZerosBefore(Precision(c), Reverse(Digits(c))) = Reverse(q)
  BY DigitsAre, Numbers, ZerosAre DEF Zeros
<1>3. IsSeq(q) /\ Len(q) = Len(Digits(c)) + Zeros(c)
  BY CoreIs
<1>4. Core(c) = q \o Times("0", MoreZeros(c))
  BY DEF Core
<1>5. Body(c) = fixed \o ZerosBefore(IF Zeroed(Flags(c)) THEN c.width - Len(fixed) ELSE 0,
                                     ZerosBefore(Precision(c), Reverse(Digits(c))))
  BY DEF Body
<1> HIDE DEF fixed, q
<1>6. Room(c) = IF Zeroed(Flags(c)) THEN c.width - Len(fixed) ELSE 0
  BY <1>1 DEF Room
<1>7. ZerosBefore(Room(c), Reverse(q)) = Reverse(Core(c))
  <2>1. ZerosBefore(Room(c), Reverse(q)) = Reverse(q \o Times("0", Missing(Room(c), Len(q))))
    BY <1>3, Numbers, ZerosAre
  <2> QED BY <1>3, <1>4, <2>1 DEF MoreZeros
<1>8. Body(c) = fixed \o Reverse(Core(c))
  BY <1>2, <1>5, <1>6, <1>7
<1>9. IsSeq(Reverse(Core(c))) /\ Len(Reverse(Core(c))) = Len(Core(c))
  BY CoreIs, Reversed
<1>10. IsSeq(Body(c)) /\ Len(Body(c)) = Len(fixed) + Len(Core(c))
  BY <1>1, <1>8, <1>9, Concat
<1> QED BY <1>1, <1>8, <1>10 DEF fixed

\* A number that is filled up with zeros is as long as the width.
LEMMA ZeroedFillsWidth ==
    ASSUME NEW c, WellFormed(c), Zeroed(Flags(c))
    PROVE  /\ c.width <= Len(Body(c))
           /\ Zeros(c) = 0 /\ c.precision = NONE
<1>1. c.precision = NONE
  BY FlagsAre DEF Zeroed
<1>2. Zeros(c) = 0
  BY <1>1, Numbers DEF Zeros, Precision, Missing
<1>3. Len(Body(c)) = Len(Sign(c)) + Len(Prefix(c)) + Len(Digits(c)) + MoreZeros(c)
  <2>1. Len(Body(c)) = Len(Sign(c)) + Len(Prefix(c)) + Len(Core(c))
    BY BodyIs
  <2>2. Len(Core(c)) = Len(Digits(c)) + Zeros(c) + MoreZeros(c)
    BY CoreIs
  <2> QED BY <1>2, <2>1, <2>2, Numbers
<1>4. Room(c) <= Len(Digits(c)) + MoreZeros(c)
  BY <1>2, Numbers DEF MoreZeros, Missing
<1>5. Room(c) = c.width - (Len(Sign(c)) + Len(Prefix(c)))
  BY DEF Room
<1> QED BY <1>1, <1>2, <1>3, <1>4, <1>5, Numbers

-----------------------------------------------------------------------------
(***************************************************************************)
(* What the code does, for a conversion that is not one of those cases.      *)
(***************************************************************************)
\* The buffer with the zeros of the precision and of the width.
Precise(c) == Fill(Digits(c), IF "-" \in Flags(c) THEN 0 ELSE Precision(c), NTOA_BUFFER)
FilledUp(c) == Fill(Precise(c), IF Zeroed(Flags(c)) THEN Left(c) ELSE 0, NTOA_BUFFER)
\* The zeros that it takes to the width, before there is a prefix.
Padding(c) == Missing(IF Zeroed(Flags(c)) THEN Left(c) ELSE 0, Len(Digits(c)) + Zeros(c))
\* With the prefix.
Prefixed(c) == IF "#" \in Flags(c) THEN WithPrefix(c, Left(c), FilledUp(c)) ELSE FilledUp(c)

LEMMA Conforms ==
    ASSUME NEW c, WellFormed(c), ~ DepartsByFlags(c)
    PROVE  /\ Len(Body(c)) <= NTOA_BUFFER
           /\ "-" \in Flags(c) => Precision(c) <= Len(Digits(c))
           /\ "#" \in Flags(c) /\ c.precision = NONE =>
                 /\ Len(Digits(c)) # Left(c)
                 /\ Zeroed(Flags(c)) /\ Len(Digits(c)) <= Left(c) =>
                       /\ c.spec \in {"x", "X"} => Left(c) - Len(Digits(c)) >= 2
                       /\ c.spec # "b"
<1> DEFINE n == Len(Digits(c))
           width == Left(c)
           padded == Zeroed(Flags(c)) /\ n <= width
<1>1. /\ ~ (Len(Body(c)) > NTOA_BUFFER)
      /\ ~ ("-" \in Flags(c) /\ Precision(c) > n)
      /\ ~ ("#" \in Flags(c) /\ c.precision = NONE /\ n = width)
      /\ ~ ("#" \in Flags(c) /\ c.precision = NONE
              /\ padded /\ c.spec \in {"x", "X"} /\ width - n < 2)
      /\ ~ ("#" \in Flags(c) /\ c.precision = NONE /\ padded /\ c.spec = "b")
  BY Zenon DEF DepartsByFlags, Left
<1>2. /\ n \in Nat /\ width \in Nat /\ Precision(c) \in Nat /\ Len(Body(c)) \in Nat
  BY Numbers, BodyIs DEF IsSeq
<1>3. NTOA_BUFFER \in Nat
  BY BufferAssumption
<1> HIDE DEF n, width
<1> QED BY <1>1, <1>2, <1>3 DEF n, width

LEMMA FilledUpIs ==
    ASSUME NEW c, WellFormed(c), ~ DepartsByFlags(c)
    PROVE  /\ FilledUp(c) = (Digits(c) \o Times("0", Zeros(c))) \o Times("0", Padding(c))
           /\ IsSeq(FilledUp(c)) /\ Padding(c) \in Nat
           /\ Len(FilledUp(c)) = Len(Digits(c)) + Zeros(c) + Padding(c)
<1> DEFINE q == Digits(c) \o Times("0", Zeros(c))
           asked == IF "-" \in Flags(c) THEN 0 ELSE Precision(c)
           room == IF Zeroed(Flags(c)) THEN Left(c) ELSE 0
<1>0. NTOA_BUFFER \in Nat /\ Len(Body(c)) <= NTOA_BUFFER
      /\ Len(Body(c)) = Len(Sign(c)) + Len(Prefix(c)) + Len(Digits(c)) + Zeros(c) + MoreZeros(c)
  <2>1. Len(Body(c)) = Len(Sign(c)) + Len(Prefix(c)) + Len(Core(c))
    BY BodyIs
  <2>2. Len(Core(c)) = Len(Digits(c)) + Zeros(c) + MoreZeros(c)
    BY CoreIs
  <2>3. NTOA_BUFFER \in Nat /\ Len(Body(c)) <= NTOA_BUFFER
    BY BufferAssumption, Conforms
  <2> HIDE DEF q, asked, room
  <2> QED BY <2>1, <2>2, <2>3, Numbers
<1>1. Precise(c) = q
  <2>1. asked \in Int /\ asked <= NTOA_BUFFER /\ Missing(asked, Len(Digits(c))) = Zeros(c)
    <3>1. CASE "-" \in Flags(c)
      <4>1. Precision(c) <= Len(Digits(c))
        BY <3>1, Conforms
      <4>2. asked = 0 /\ Zeros(c) = 0 /\ Missing(0, Len(Digits(c))) = 0
        BY <3>1, <4>1, Numbers DEF Zeros, Missing
      <4> QED BY <1>0, <4>2
    <3>2. CASE "-" \notin Flags(c)
      <4>1. asked = Precision(c)
        BY <3>2
      <4>2. Precision(c) <= Len(Digits(c)) + Zeros(c)
        BY Numbers DEF Zeros, Missing
      <4> HIDE DEF asked
      <4>3. Precision(c) <= NTOA_BUFFER
        BY <1>0, <4>2, Numbers
      <4> QED BY <4>1, <4>3, Numbers DEF Zeros
    <3> QED BY <3>1, <3>2
  <2>2. Precise(c) = Fill(Digits(c), asked, NTOA_BUFFER)
    BY DEF Precise
  <2> HIDE DEF asked
  <2>3. Fill(Digits(c), asked, NTOA_BUFFER) = Digits(c) \o Times("0", Missing(asked, Len(Digits(c))))
    BY <1>0, <2>1, DigitsAre, FillIs
  <2> QED BY <2>1, <2>2, <2>3
<1>2. IsSeq(q) /\ Len(q) = Len(Digits(c)) + Zeros(c)
  BY CoreIs
<1>3. room \in Nat /\ room <= NTOA_BUFFER
  <2>1. CASE Zeroed(Flags(c))
    <3>1. Left(c) <= c.width
      BY Numbers, LeftIs
    <3>2. c.width <= Len(Body(c))
      BY <2>1, ZeroedFillsWidth
    <3>3. Left(c) \in Nat /\ c.width \in Nat /\ Len(Body(c)) \in Nat
      BY Numbers, BodyIs DEF IsSeq
    <3> QED BY <1>0, <2>1, <3>1, <3>2, <3>3
  <2>2. CASE ~ Zeroed(Flags(c))
    BY <1>0, <2>2
  <2> QED BY <2>1, <2>2
<1>4. FilledUp(c) = Fill(Precise(c), room, NTOA_BUFFER) /\ Padding(c) = Missing(room, Len(q))
  BY <1>2 DEF FilledUp, Padding
<1> HIDE DEF q, room
<1>5. FilledUp(c) = q \o Times("0", Padding(c))
  <2>1. IsSeq(q) /\ room \in Int /\ NTOA_BUFFER \in Nat /\ room <= NTOA_BUFFER
    BY <1>0, <1>2, <1>3
  <2>2. Fill(q, room, NTOA_BUFFER) = q \o Times("0", Missing(room, Len(q)))
    BY <2>1, FillIs
  <2> QED BY <1>1, <1>4, <2>2
<1>6. Padding(c) \in Nat
  <2>1. Len(q) \in Nat
    BY <1>2 DEF IsSeq
  <2> QED BY <1>3, <1>4, <2>1, MissingIs
<1>7. IsSeq(Times("0", Padding(c))) /\ Len(Times("0", Padding(c))) = Padding(c)
  BY <1>6, TimesIs
<1>8. IsSeq(FilledUp(c)) /\ Len(FilledUp(c)) = Len(q) + Padding(c)
  BY <1>2, <1>5, <1>7, Concat
<1> QED BY <1>2, <1>5, <1>6, <1>8 DEF q

\* Without a prefix, the zeros for the width are those of the standard.
LEMMA PlainPadding ==
    ASSUME NEW c, WellFormed(c), "#" \notin Flags(c)
    PROVE  Padding(c) = MoreZeros(c)
<1>1. Len(Prefix(c)) = 0
  BY PrefixIs
<1>2. CASE ~ Zeroed(Flags(c))
  BY <1>2 DEF Padding, MoreZeros, Room
<1>3. CASE Zeroed(Flags(c))
  <2>1. /\ Padding(c) = Missing(Left(c), Len(Digits(c)) + Zeros(c))
        /\ MoreZeros(c) = Missing(c.width - Len(Sign(c)), Len(Digits(c)) + Zeros(c))
    BY <1>1, <1>3, Numbers DEF Padding, MoreZeros, Room
  <2>2. Len(Sign(c)) = IF HasSign(c) THEN 1 ELSE 0
    BY SignIs
  <2>3. Left(c) = IF c.width > 0 /\ HasSign(c) THEN c.width - 1 ELSE c.width
    BY <1>3, LeftIs
  <2> QED BY <2>1, <2>2, <2>3, Numbers DEF Missing
<1> QED BY <1>2, <1>3

\* A number with a prefix has no sign, and is not 0.
LEMMA PrefixedNumbers ==
    ASSUME NEW c, WellFormed(c), "#" \in Flags(c)
    PROVE  /\ c.spec \in {"x", "X", "o", "b"} /\ ~ HasSign(c)
           /\ Len(Sign(c)) = 0 /\ Left(c) = c.width /\ Len(Digits(c)) > 0
<1>1. Base(c) # 10 /\ Value(c) # 0
  BY FlagsAre
<1>2. c.spec \in {"x", "X", "o", "b"}
  BY <1>1, Bases DEF WellFormed, IntegerSpecs
<1>3. ~ Signed(c)
  BY <1>2 DEF Signed
<1>4. ~ (Value(c) < 0) /\ "+" \notin Flags(c) /\ " " \notin Flags(c)
  BY <1>3, Values, FlagsAre
<1>5. ~ HasSign(c)
  BY <1>4, Zenon DEF HasSign
<1>6. Len(Digits(c)) > 0
  BY <1>1, DigitsAre
<1> QED BY <1>2, <1>5, <1>6, SignIs, LeftIs

\* What "handle hash" takes off the buffer are the zeros that make room.
LEMMA RoomForPrefix ==
    ASSUME NEW c, WellFormed(c), ~ DepartsByFlags(c), "#" \in Flags(c)
    PROVE  LET full_up == c.precision = NONE /\ FilledUp(c) # << >> /\ Len(FilledUp(c)) = Left(c)
               less == IF ~ full_up THEN Len(FilledUp(c))
                       ELSE IF Base(c) = 16 /\ Len(FilledUp(c)) > 1 THEN Len(FilledUp(c)) - 2
                       ELSE Len(FilledUp(c)) - 1
           IN  SubSeq(FilledUp(c), 1, less) = Core(c)
<1> DEFINE n == Len(Digits(c))
           w == Left(c)
           p == Len(Prefix(c))
           b == FilledUp(c)
           full_up == c.precision = NONE /\ b # << >> /\ Len(b) = w
           less == IF ~ full_up THEN Len(b)
                   ELSE IF Base(c) = 16 /\ Len(b) > 1 THEN Len(b) - 2 ELSE Len(b) - 1
           q == Digits(c) \o Times("0", Zeros(c))
<1>1. /\ c.spec \in {"x", "X", "o", "b"} /\ Len(Sign(c)) = 0 /\ c.width = w /\ n > 0
  BY PrefixedNumbers
<1>2. /\ b = q \o Times("0", Padding(c)) /\ IsSeq(b) /\ Padding(c) \in Nat
      /\ Len(b) = n + Zeros(c) + Padding(c)
  BY FilledUpIs
<1>3. IsSeq(q) /\ Len(q) = n + Zeros(c)
  BY CoreIs
<1>4. Core(c) = q \o Times("0", MoreZeros(c))
  BY DEF Core
<1>5. /\ n \in Nat /\ w \in Nat /\ Zeros(c) \in Nat /\ MoreZeros(c) \in Nat
  BY Numbers
<1>6. /\ Padding(c) = Missing(IF Zeroed(Flags(c)) THEN w ELSE 0, n + Zeros(c))
      /\ MoreZeros(c) = Missing(IF Zeroed(Flags(c)) THEN w - p ELSE 0, n + Zeros(c))
  BY <1>1, Numbers DEF Padding, MoreZeros, Room
<1>7. c.precision = NONE => n # w
  BY Conforms
<1>8. p = IF c.spec = "o" THEN 1 ELSE 2
  BY PrefixIs
<1>9. b # << >>
  <2>1. Len(b) > 0
    BY <1>1, <1>2, <1>5
  <2>2. Len(<< >>) = 0
    OBVIOUS
  <2> HIDE DEF b
  <2> QED BY <2>1, <2>2
<1>10. Zeroed(Flags(c)) => c.precision = NONE /\ Zeros(c) = 0
  BY ZeroedFillsWidth
<1>11. c.precision = NONE => Zeros(c) = 0
  BY Numbers DEF Zeros, Missing, Precision
<1>12. /\ Base(c) = 16 <=> c.spec \in {"x", "X"}
  BY Bases
<1>13. Zeroed(Flags(c)) /\ c.precision = NONE /\ n <= w =>
          (c.spec \in {"x", "X"} => w - n >= 2) /\ c.spec # "b"
  BY Conforms
<1> HIDE DEF n, w, p, b, q
<1>14. CASE full_up
  <2>1. Zeros(c) = 0 /\ n + Padding(c) = w /\ n # w /\ c.precision = NONE
    BY <1>2, <1>5, <1>7, <1>11, <1>14
  <2>2. Zeroed(Flags(c)) /\ n < w /\ Padding(c) = w - n
    BY <1>5, <1>6, <2>1 DEF Missing
  <2>3. c.spec \in {"x", "X", "o"} /\ w - n >= p
    BY <1>1, <1>5, <1>8, <1>13, <2>1, <2>2
  <2>4. MoreZeros(c) = Padding(c) - p
    BY <1>5, <1>6, <1>8, <2>1, <2>2, <2>3 DEF Missing
  <2>5. less = Len(q) + MoreZeros(c)
    <3>1. Len(b) = w /\ Len(q) = n
      BY <1>2, <1>3, <1>5, <2>1
    <3>2. less = IF c.spec \in {"x", "X"} /\ Len(b) > 1 THEN Len(b) - 2 ELSE Len(b) - 1
      BY <1>12, <1>14, Zenon
    <3> HIDE DEF less, full_up
    <3>3. less = Len(b) - p
      <4>1. CASE c.spec = "o"
        BY <1>8, <3>2, <4>1
      <4>2. CASE c.spec # "o"
        <5>1. c.spec \in {"x", "X"} /\ p = 2 /\ Len(b) > 1
          BY <1>1, <1>5, <1>8, <2>3, <3>1, <4>2
        <5> QED BY <3>2, <5>1
      <4> QED BY <4>1, <4>2
    <3> QED BY <1>5, <1>8, <2>2, <2>4, <3>1, <3>3
  <2>6. MoreZeros(c) \in 0 .. Padding(c)
    BY <1>2, <1>5, <1>8, <2>4
  <2> HIDE DEF less, full_up
  <2>7. SubSeq(b, 1, less) = q \o Times("0", MoreZeros(c))
    <3> DEFINE t == Times("0", Padding(c))
    <3>1. IsSeq(t) /\ Len(t) = Padding(c) /\ \A k \in 1 .. Len(t) : t[k] = "0"
      BY <1>2, TimesIs
    <3>2. b = q \o t
      BY <1>2
    <3> HIDE DEF t
    <3> QED BY <1>3, <2>5, <2>6, <3>1, <3>2, FirstPart
  <2>8. SubSeq(b, 1, less) = Core(c)
    BY <1>4, <2>7
  <2> QED BY <2>8 DEF less, full_up, b, w
<1>15. CASE ~ full_up
  <2>1. Padding(c) = 0 /\ MoreZeros(c) = 0
    <3>1. CASE ~ Zeroed(Flags(c))
      BY <1>5, <1>6, <3>1 DEF Missing
    <3>2. CASE Zeroed(Flags(c))
      <4>1. Len(b) # w /\ Zeros(c) = 0
        BY <1>9, <1>10, <1>15, <3>2
      <4> QED BY <1>2, <1>5, <1>6, <1>8, <3>2, <4>1 DEF Missing
    <3> QED BY <3>1, <3>2
  <2>2. b = Core(c) /\ less = Len(b)
    BY <1>2, <1>4, <1>15, <2>1
  <2> HIDE DEF less, full_up
  <2>3. SubSeq(b, 1, Len(b)) = b
    <3> DEFINE S == {b[k] : k \in 1 .. Len(b)}
    <3>1. b \in [1 .. Len(b) -> S] /\ Len(b) \in Nat
      BY <1>2 DEF IsSeq
    <3>2. b \in Seq(S)
      BY <3>1, SeqDef
    <3> HIDE DEF S
    <3> QED BY <3>2, SubSeqFull
  <2>4. SubSeq(b, 1, less) = Core(c)
    BY <2>2, <2>3
  <2> QED BY <2>4 DEF less, full_up, b, w
<1> QED BY <1>14, <1>15

LEMMA PrefixedIs ==
    ASSUME NEW c, WellFormed(c), ~ DepartsByFlags(c)
    PROVE  /\ IsSeq(Prefixed(c)) /\ Len(Prefixed(c)) = Len(Core(c)) + Len(Prefix(c))
           /\ Reverse(Prefixed(c)) = Prefix(c) \o Reverse(Core(c))
<1>0. IsSeq(Core(c)) /\ IsSeq(Reverse(Core(c)))
  BY CoreIs, Reversed
<1>1. CASE "#" \notin Flags(c)
  <2>1. Prefixed(c) = FilledUp(c)
    BY <1>1 DEF Prefixed
  <2>2. FilledUp(c) = Core(c)
    BY <1>1, FilledUpIs, PlainPadding DEF Core
  <2>3. Prefix(c) = << >> /\ Len(Prefix(c)) = 0
    BY <1>1, PrefixIs
  <2>4. << >> \o Reverse(Core(c)) = Reverse(Core(c)) /\ Len(Core(c)) \in Nat
    BY <1>0, ConcatEmpty DEF IsSeq
  <2> QED BY <1>0, <2>1, <2>2, <2>3, <2>4
<1>2. CASE "#" \in Flags(c)
  <2> DEFINE full_up == c.precision = NONE /\ FilledUp(c) # << >> /\ Len(FilledUp(c)) = Left(c)
             less == IF ~ full_up THEN Len(FilledUp(c))
                     ELSE IF Base(c) = 16 /\ Len(FilledUp(c)) > 1 THEN Len(FilledUp(c)) - 2
                     ELSE Len(FilledUp(c)) - 1
             letter == CASE c.spec = "o" -> << >>
                         [] c.spec \in {"X", "p"} -> <<"X">>
                         [] c.spec \in {"x", "b"} -> <<c.spec>>
                         [] OTHER -> << >>
  <2>1. WithPrefix(c, Left(c), FilledUp(c))
          = Fit(SubSeq(FilledUp(c), 1, less) \o letter \o <<"0">>, NTOA_BUFFER)
    BY DEF WithPrefix
  <2>2. SubSeq(FilledUp(c), 1, less) = Core(c)
    BY <1>2, RoomForPrefix
  <2>3. c.spec \in {"x", "X", "o", "b"}
    BY <1>2, PrefixedNumbers
  <2>4. letter = IF c.spec = "o" THEN << >> ELSE <<c.spec>>
    BY <2>3
  <2> HIDE DEF letter, less
  <2>5. IsSeq(letter) /\ IsSeq(<<"0">>)
    BY <2>4 DEF IsSeq
  <2> DEFINE end == letter \o <<"0">>
  <2>6. /\ IsSeq(end) /\ Len(end) = Len(Prefix(c)) /\ Reverse(end) = Prefix(c)
    <3>1. CASE c.spec = "o"
      <4>1. letter = << >> /\ << >> \o <<"0">> = <<"0">>
        BY <2>4, <2>5, <3>1, ConcatEmpty
      <4>2. Prefix(c) = <<"0">>
        BY <1>2, <3>1, PrefixIs
      <4>3. Reverse(<<"0">>) = <<"0">> /\ Len(<<"0">>) = 1
        BY DEF Reverse
      <4> QED BY <2>5, <4>1, <4>2, <4>3
    <3>2. CASE c.spec # "o"
      <4> DEFINE x == c.spec
      <4>1. letter = <<x>>
        BY <2>4, <3>2
      <4>2. Prefix(c) = <<"0", x>> /\ Len(Prefix(c)) = 2 /\ IsSeq(Prefix(c))
        BY <1>2, <3>2, PrefixIs
      <4> HIDE DEF x
      <4>3. IsSeq(<<x>>) /\ Len(<<x>>) = 1 /\ Reverse(<<x>>) = <<x>>
        BY DEF IsSeq, Reverse
      <4>4. Reverse(<<"0">>) = <<"0">> /\ Len(<<"0">>) = 1
        BY DEF Reverse
      <4>5. /\ IsSeq(<<x>> \o <<"0">>) /\ Len(<<x>> \o <<"0">>) = 2
        <5>1. 1 + 1 = 2
          OBVIOUS
        <5> QED BY <2>5, <4>3, <4>4, <5>1, Concat
      <4>6. Reverse(<<x>> \o <<"0">>) = <<"0">> \o <<x>>
        BY <2>5, <4>3, <4>4, ReverseConcat
      <4>7. <<"0">> \o <<x>> = <<"0", x>>
        <5> DEFINE s == <<"0">> \o <<x>>
                   t == <<"0", x>>
        <5>1. IsSeq(t) /\ Len(t) = 2 /\ t[1] = "0" /\ t[2] = x
          BY DEF IsSeq
        <5>2. /\ IsSeq(s) /\ Len(s) = 1 + 1
              /\ \A k \in 1 .. 1 : s[k] = <<"0">>[k]
              /\ \A k \in 1 + 1 .. 1 + 1 : s[k] = <<x>>[k - 1]
          BY <2>5, <4>3, <4>4, Concat
        <5>3. <<"0">>[1] = "0" /\ <<x>>[1] = x
          OBVIOUS
        <5> HIDE DEF s, t
        <5>4. Len(s) = 2 /\ s[1] = "0" /\ s[2] = x
          BY <5>2, <5>3
        <5>5. s = t
          BY <5>1, <5>2, <5>4, SameSeq
        <5> QED BY <5>5 DEF s, t
      <4> QED BY <4>1, <4>2, <4>5, <4>6, <4>7
    <3> QED BY <3>1, <3>2
  <2>7. Core(c) \o letter \o <<"0">> = Core(c) \o end
    BY <1>0, <2>5, JoinAssociative
  <2> HIDE DEF end
  <2>8. IsSeq(Core(c) \o end) /\ Len(Core(c) \o end) = Len(Core(c)) + Len(Prefix(c))
    BY <1>0, <2>6, Concat
  <2>9. Len(Core(c)) + Len(Prefix(c)) <= NTOA_BUFFER /\ NTOA_BUFFER \in Nat
    <3>1. Len(Core(c)) \in Nat
      BY <1>0 DEF IsSeq
    <3> QED BY <3>1, Conforms, BodyIs, Numbers, BufferAssumption
  <2>10. Fit(Core(c) \o end, NTOA_BUFFER) = Core(c) \o end
    BY <2>8, <2>9, FitAll
  <2>11. Prefixed(c) = Core(c) \o end
    BY <1>2, <2>1, <2>2, <2>7, <2>10 DEF Prefixed
  <2>12. Reverse(Core(c) \o end) = Prefix(c) \o Reverse(Core(c))
    BY <1>0, <2>6, ReverseConcat
  <2> QED BY <2>8, <2>11, <2>12
<1> QED BY <1>1, <1>2

\* The text that _out_rev is given, and gives out.
LEMMA TextTurned ==
    ASSUME NEW c, WellFormed(c), ~ DepartsByFlags(c)
    PROVE  LET buf == WithSign(Flags(c), Value(c) < 0, Prefixed(c), NTOA_BUFFER)
           IN  Reverse(buf) = Body(c) /\ Len(buf) = Len(Body(c))
<1> DEFINE all == Prefixed(c) \o Sign(c)
<1>1. /\ IsSeq(Prefixed(c)) /\ Len(Prefixed(c)) = Len(Core(c)) + Len(Prefix(c))
      /\ Reverse(Prefixed(c)) = Prefix(c) \o Reverse(Core(c))
  BY PrefixedIs
<1>2. IsSeq(Sign(c)) /\ Reverse(Sign(c)) = Sign(c)
  BY SignIs
<1>3. IsSeq(Core(c)) /\ IsSeq(Reverse(Core(c))) /\ IsSeq(Prefix(c))
  BY CoreIs, Reversed, PrefixIs
<1>4. IsSeq(all) /\ Len(all) = Len(Prefixed(c)) + Len(Sign(c))
  BY <1>1, <1>2, Concat
<1>5. Reverse(all) = Sign(c) \o (Prefix(c) \o Reverse(Core(c)))
  BY <1>1, <1>2, ReverseConcat
<1>6. Sign(c) \o (Prefix(c) \o Reverse(Core(c))) = Body(c)
  <2>1. (Sign(c) \o Prefix(c)) \o Reverse(Core(c)) = Sign(c) \o (Prefix(c) \o Reverse(Core(c)))
    <3> DEFINE r == Sign(c)
               s == Prefix(c)
               t == Reverse(Core(c))
    <3>1. IsSeq(r) /\ IsSeq(s) /\ IsSeq(t)
      BY <1>2, <1>3
    <3> HIDE DEF r, s, t
    <3>2. (r \o s) \o t = r \o (s \o t)
      BY <3>1, JoinAssociative, SMTT(40)
    <3> QED BY <3>2 DEF r, s, t
  <2>2. Body(c) = (Sign(c) \o Prefix(c)) \o Reverse(Core(c))
    BY BodyIs
  <2> QED BY <2>1, <2>2
<1>7. WithSign(Flags(c), Value(c) < 0, Prefixed(c), NTOA_BUFFER) = Fit(all, NTOA_BUFFER)
  BY Zenon DEF WithSign, Sign
<1> HIDE DEF all
<1>8. Len(all) = Len(Body(c))
  <2>1. Len(Core(c)) \in Nat
    BY <1>3 DEF IsSeq
  <2> QED BY <1>1, <1>4, <2>1, BodyIs, Numbers
<1>9. Fit(all, NTOA_BUFFER) = all
  BY <1>4, <1>8, Conforms, BufferAssumption, FitAll
<1> QED BY <1>5, <1>6, <1>7, <1>8, <1>9

\* The code gives that text.
LEMMA IntegerText ==
    ASSUME NEW c, WellFormed(c), ~ DepartsByFlags(c)
    PROVE  _ntoa(c) = TextByFlags(c)
<1> DEFINE buf == WithSign(Flags(c), Value(c) < 0, Prefixed(c), NTOA_BUFFER)
           spaces == Times(" ", Missing(Left(c), Len(buf)))
           standard == Times(" ", Missing(c.width, Len(Body(c))))
<1>1. Reverse(buf) = Body(c) /\ Len(buf) = Len(Body(c))
  BY TextTurned
<1>2. _ntoa(c) = IF "-" \in Flags(c) THEN Reverse(buf) \o spaces
                 ELSE IF "0" \in Flags(c) THEN Reverse(buf) ELSE spaces \o Reverse(buf)
  <2>1. Width(c) = c.width
    BY DEF Width, WellFormed, IntegerSpecs
  <2>2. _ntoa(c) = _ntoa_format(c, Flags(c), Left(c), Value(c) < 0, Digits(c))
    BY <2>1, Zenon DEF _ntoa, Left
  <2>3. _ntoa(c) = _out_rev(Flags(c), Left(c), buf)
    BY <2>2, Zenon DEF _ntoa_format, Prefixed, FilledUp, Precise
  <2> HIDE DEF buf
  <2> QED BY <2>3, Zenon DEF _out_rev, Missing
<1>3. TextByFlags(c) = IF "-" \in Flags(c) THEN Body(c) \o standard ELSE standard \o Body(c)
  BY Zenon DEF TextByFlags, Padded, Missing
<1> HIDE DEF buf
<1>4. CASE Zeroed(Flags(c))
  <2>1. c.width <= Len(Body(c)) /\ IsSeq(Body(c))
    BY <1>4, ZeroedFillsWidth, BodyIs
  <2>2. Missing(c.width, Len(Body(c))) = 0
    BY <2>1, Numbers DEF Missing, IsSeq
  <2>3. standard = << >>
    BY <2>2, TimesIs
  <2>4. << >> \o Body(c) = Body(c)
    BY <2>1, ConcatEmpty
  <2> QED BY <1>1, <1>2, <1>3, <1>4, <2>3, <2>4, Zenon DEF Zeroed
<1>5. CASE ~ Zeroed(Flags(c))
  <2>1. Left(c) = c.width
    BY <1>5, LeftIs, Zenon
  <2>2. spaces = standard
    BY <1>1, <2>1
  <2> QED BY <1>1, <1>2, <1>3, <1>5, <2>2, Zenon DEF Zeroed
<1> QED BY <1>4, <1>5

-----------------------------------------------------------------------------
(***************************************************************************)
(* C's text is that one.  The digits of a number are the same from either    *)
(* end, if there is room for them.                                         *)
(***************************************************************************)
LEMMA BelowPower ==
    ASSUME NEW v \in Nat, NEW base \in {2, 8, 10, 16}
    PROVE  v < Power(base, v)
<1> DEFINE T == {n \in Nat : n < Power(base, n)}
<1>1. base \in Nat \ {0}
  OBVIOUS
<1>2. 0 \in T
  BY <1>1, PowerIs
<1>3. ASSUME NEW n \in Nat, n \in T
      PROVE  n + 1 \in T
  <2> DEFINE p == Power(base, n)
             q == Power(base, n + 1)
  <2>1. n < p /\ q = base * p /\ p \in Nat
    BY <1>1, <1>3, PowerIs
  <2> HIDE DEF p, q
  <2>2. n + 1 < q
    BY <2>1
  <2> QED BY <2>2 DEF q
<1> HIDE DEF T
<1>4. v \in T
  BY <1>2, <1>3, Induction
<1> QED BY <1>4 DEF T

\* s has as many digits as the number v has.
Writes(s, v, base, chars) ==
    /\ IsSeq(s) /\ Len(s) \in Nat
    /\ v < Power(base, Len(s))
    /\ \A m \in 0 .. Len(s) - 1 : Power(base, m) <= v
    /\ \A k \in 1 .. Len(s) : s[k] = chars[((v \div Power(base, Len(s) - k)) % base) + 1]

LEMMA NumeralIs ==
    ASSUME NEW v \in Nat, NEW base \in {2, 8, 10, 16}, NEW chars
    PROVE  Writes(Numeral(v, base, chars), v, base, chars)
<1> DEFINE S == {k \in 0 .. v : v < Power(base, k)}
           n == CHOOSE n \in 0 .. v :
                   v < Power(base, n) /\ \A m \in 0 .. n - 1 : Power(base, m) <= v
<1>1. \E k \in 0 .. v : v < Power(base, k) /\ \A m \in 0 .. k - 1 : Power(base, m) <= v
  <2>1. S \in SUBSET Nat /\ v \in S
    BY BelowPower
  <2>2. PICK k \in S : \A j \in S : k <= j
    <3> HIDE DEF S
    <3> QED BY <2>1, Smallest
  <2>3. ASSUME NEW m \in 0 .. k - 1
        PROVE  Power(base, m) <= v
    <3>1. m \in 0 .. v /\ ~ (k <= m) /\ m \in Nat
      BY <2>2
    <3>2. ~ (v < Power(base, m))
      BY <2>2, <3>1
    <3>3. Power(base, m) \in Nat
      <4>1. base \in Nat \ {0}
        OBVIOUS
      <4> QED BY <3>1, <4>1, PowerIs
    <3> QED BY <3>2, <3>3
  <2> QED BY <2>2, <2>3
<1>2. n \in 0 .. v /\ v < Power(base, n) /\ \A m \in 0 .. n - 1 : Power(base, m) <= v
  BY <1>1, Zenon
<1> DEFINE s == Numeral(v, base, chars)
<1>3. s = [k \in 1 .. n |-> chars[((v \div Power(base, n - k)) % base) + 1]]
  BY DEF Numeral
<1> HIDE DEF n, s
<1>4. n \in Nat
  BY <1>2
<1>5. Len(s) = n /\ IsSeq(s)
  BY <1>3, <1>4 DEF IsSeq
<1>6. \A k \in 1 .. n : s[k] = chars[((v \div Power(base, n - k)) % base) + 1]
  BY <1>3
<1> QED BY <1>2, <1>4, <1>5, <1>6 DEF s, Writes

\* Each digit of the buffer.
LEMMA EachDigit ==
    ASSUME NEW value, NEW base, NEW max \in Nat \ {0}, NEW chars
    PROVE  LET s == DigitsOf(value, base, max, chars)
           IN  \A k \in 1 .. Len(s) : s[k] = chars[((value \div Power(base, k - 1)) % base) + 1]
<1> DEFINE n == CHOOSE k \in 1 .. max :
                   /\ k = max \/ value < Power(base, k)
                   /\ \A j \in 1 .. k - 1 : ~ (value < Power(base, j))
           s == DigitsOf(value, base, max, chars)
<1>1. s = [k \in 1 .. n |-> chars[((value \div Power(base, k - 1)) % base) + 1]]
  BY DEF DigitsOf
<1>2. IsSeq(s)
  BY SomeDigits
<1> HIDE DEF n, s
<1>3. 1 .. n = 1 .. Len(s)
  <2>1. DOMAIN s = 1 .. n
    BY <1>1
  <2>2. DOMAIN s = 1 .. Len(s)
    BY <1>2, Zenon DEF IsSeq
  <2> QED BY <2>1, <2>2
<1>4. \A k \in 1 .. n : s[k] = chars[((value \div Power(base, k - 1)) % base) + 1]
  BY <1>1
<1> QED BY <1>3, <1>4 DEF s

LEMMA SameDigits ==
    ASSUME NEW v \in Nat \ {0}, NEW base \in {2, 8, 10, 16}, NEW chars,
           NEW max \in Nat \ {0}, Len(Numeral(v, base, chars)) <= max
    PROVE  Reverse(DigitsOf(v, base, max, chars)) = Numeral(v, base, chars)
<1> DEFINE s == DigitsOf(v, base, max, chars)
           t == Numeral(v, base, chars)
           r == Reverse(s)
<1>1. /\ IsSeq(s) /\ Len(s) \in 1 .. max
      /\ Len(s) = max \/ v < Power(base, Len(s))
      /\ \A j \in 1 .. Len(s) - 1 : ~ (v < Power(base, j))
      /\ \A k \in 1 .. Len(s) : s[k] = chars[((v \div Power(base, k - 1)) % base) + 1]
  BY SomeDigits, EachDigit
<1>2. /\ IsSeq(t) /\ Len(t) \in Nat
      /\ v < Power(base, Len(t))
      /\ \A m \in 0 .. Len(t) - 1 : Power(base, m) <= v
      /\ \A k \in 1 .. Len(t) : t[k] = chars[((v \div Power(base, Len(t) - k)) % base) + 1]
  <2>1. Writes(t, v, base, chars)
    BY NumeralIs
  <2> HIDE DEF t
  <2> QED BY <2>1 DEF Writes
<1>3. \A n \in Nat : Power(base, n) \in Nat
  <2>1. base \in Nat \ {0}
    OBVIOUS
  <2> QED BY <2>1, PowerIs
<1>4. Len(t) <= max
  OBVIOUS
<1>5. IsSeq(r) /\ Len(r) = Len(s) /\ \A k \in 1 .. Len(s) : r[k] = s[(Len(s) - k) + 1]
  BY <1>1, Reversed
<1> HIDE DEF s, t, r
<1>6. Len(t) # 0
  <2>1. base \in Nat \ {0} /\ 0 \in Nat
    OBVIOUS
  <2>2. Power(base, 0) = 1
    BY <2>1, PowerIs
  <2> QED BY <1>2, <2>2
<1>7. ~ (Len(t) < Len(s))
  <2> SUFFICES ASSUME Len(t) < Len(s)
               PROVE  FALSE
    OBVIOUS
  <2>1. Len(t) \in 1 .. Len(s) - 1
    BY <1>1, <1>2, <1>6
  <2> QED BY <1>1, <1>2, <2>1
<1>8. ~ (Len(s) < Len(t))
  <2> SUFFICES ASSUME Len(s) < Len(t)
               PROVE  FALSE
    OBVIOUS
  <2>1. Len(s) \in 0 .. Len(t) - 1 /\ Len(s) # max /\ Len(s) \in Nat
    BY <1>1, <1>2, <1>4
  <2>2. Power(base, Len(s)) <= v /\ v < Power(base, Len(s)) /\ Power(base, Len(s)) \in Nat
    BY <1>1, <1>2, <1>3, <2>1
  <2> QED BY <2>2
<1>9. Len(s) = Len(t)
  BY <1>1, <1>2, <1>7, <1>8
<1>10. ASSUME NEW k \in 1 .. Len(r)
       PROVE  r[k] = t[k]
  <2>1. /\ k \in 1 .. Len(s) /\ k \in 1 .. Len(t) /\ (Len(s) - k) + 1 \in 1 .. Len(s)
        /\ ((Len(s) - k) + 1) - 1 = Len(t) - k
    BY <1>1, <1>5, <1>9
  <2>2. r[k] = s[(Len(s) - k) + 1]
    BY <1>5, <2>1
  <2>3. s[(Len(s) - k) + 1] = chars[((v \div Power(base, ((Len(s) - k) + 1) - 1)) % base) + 1]
    BY <1>1, <2>1, Zenon
  <2> QED BY <1>2, <2>1, <2>2, <2>3
<1>11. r = t
  BY <1>2, <1>5, <1>9, <1>10, SameSeq
<1> QED BY <1>11 DEF r, s, t

\* The highest digit of an octal number.
LEMMA NoLeadingZero ==
    ASSUME NEW v \in Nat \ {0}
    PROVE  LET s == Numeral(v, 8, DigitChars)
           IN  Len(s) \in Nat \ {0} /\ s[1] # "0"
<1> DEFINE s == Numeral(v, 8, DigitChars)
           m == Len(s) - 1
           p == Power(8, m)
           q == v \div p
<1>1. /\ Len(s) \in Nat /\ v < Power(8, Len(s))
      /\ \A j \in 0 .. Len(s) - 1 : Power(8, j) <= v
      /\ \A k \in 1 .. Len(s) : s[k] = DigitChars[((v \div Power(8, Len(s) - k)) % 8) + 1]
  <2>1. Writes(s, v, 8, DigitChars)
    BY NumeralIs
  <2> HIDE DEF s
  <2> QED BY <2>1 DEF Writes
<1> HIDE DEF s
<1>2. Len(s) # 0
  <2>1. Power(8, 0) = 1
    BY PowerIs
  <2> QED BY <1>1, <2>1
<1>3. m \in Nat /\ m \in 0 .. Len(s) - 1 /\ m + 1 = Len(s) /\ 1 \in 1 .. Len(s)
  BY <1>1, <1>2
<1>4. p \in Nat \ {0} /\ p <= v /\ v < 8 * p
  <2> HIDE DEF m
  <2>1. Power(8, m + 1) = 8 * Power(8, m) /\ Power(8, m) \in Nat \ {0}
    <3>1. 8 \in Nat \ {0}
      OBVIOUS
    <3> QED BY <1>3, <3>1, PowerIs
  <2> QED BY <1>1, <1>3, <2>1
<1>5. s[1] = DigitChars[(q % 8) + 1]
  BY <1>1, <1>3
<1> HIDE DEF p
<1>6. q \in 1 .. 7
  <2> DEFINE r == v % p
  <2>1. v = p * q + r /\ r \in 0 .. p - 1 /\ q \in Int
    BY <1>4
  <2> HIDE DEF q, r
  <2>2. CASE q <= 0
    <3>1. p * q <= 0
      BY <1>4, <2>1, <2>2
    <3> QED BY <1>4, <2>1, <3>1
  <2>3. CASE q >= 8
    <3>1. p * q >= 8 * p
      BY <1>4, <2>1, <2>3
    <3> QED BY <1>4, <2>1, <3>1
  <2> QED BY <2>1, <2>2, <2>3
<1> HIDE DEF q
<1>7. DigitChars[(q % 8) + 1] # "0"
  <2>1. (q % 8) + 1 = q + 1
    BY <1>6
  <2>2. q \in {1, 2, 3, 4, 5, 6, 7}
    BY <1>6
  <2> QED BY <2>1, <2>2 DEF DigitChars
<1> QED BY <1>1, <1>2, <1>5, <1>7 DEF s

\* What the code's flags and digits say of the flags and the number as they are.
LEMMA FlagsMean ==
    ASSUME NEW c, WellFormed(c)
    PROVE  /\ Zeroed(Flags(c)) <=> StandardZeroed(c)
           /\ "-" \in Flags(c) <=> "-" \in c.flags
           /\ Sign(c) = StandardSign(c)
           /\ "#" \in Flags(c)
                 <=> "#" \in c.flags /\ c.spec \in {"x", "X", "o", "b"} /\ Value(c) # 0
           /\ "#" \in Flags(c) => ~ HasSign(c)
<1>1. c.spec \in {"d", "i", "u", "x", "X", "o", "b"} /\ c.spec # "p"
  BY DEF WellFormed, IntegerSpecs
<1>2. Flags(c) = {f \in c.flags :
                    /\ f = "#" => Base(c) # 10 /\ Value(c) # 0
                    /\ f \in {"+", " "} => Signed(c)
                    /\ f = "0" => c.precision = NONE}
  BY <1>1, Zenon DEF Flags
<1>3. /\ "-" \in Flags(c) <=> "-" \in c.flags
      /\ "0" \in Flags(c) <=> "0" \in c.flags /\ c.precision = NONE
      /\ "+" \in Flags(c) <=> "+" \in c.flags /\ Signed(c)
      /\ " " \in Flags(c) <=> " " \in c.flags /\ Signed(c)
      /\ "#" \in Flags(c) <=> "#" \in c.flags /\ Base(c) # 10 /\ Value(c) # 0
  BY <1>2
<1>4. ~ Signed(c) => ~ (Value(c) < 0)
  BY Values
<1>5. Base(c) # 10 <=> c.spec \in {"x", "X", "o", "b"}
  BY <1>1, Bases
<1>6. Sign(c) = StandardSign(c)
  <2>1. CASE Signed(c)
    BY <1>3, <2>1, Zenon DEF Sign, StandardSign
  <2>2. CASE ~ Signed(c)
    BY <1>3, <1>4, <2>2, Zenon DEF Sign, StandardSign
  <2> QED BY <2>1, <2>2
<1>7. Base(c) # 10 => ~ HasSign(c)
  <2>1. Base(c) # 10 => ~ Signed(c)
    BY <1>5 DEF Signed
  <2>2. Flags(c) \cap {"+", " "} # {} => Signed(c)
    BY <1>3
  <2> QED BY <1>4, <2>1, <2>2, Zenon DEF HasSign
<1> QED BY <1>3, <1>5, <1>6, <1>7, Zenon DEF Zeroed, StandardZeroed

\* The zero in front of an octal number.
OctalZero(c) == IF "#" \in Flags(c) /\ c.spec = "o" THEN <<"0">> ELSE << >>

LEMMA PrefixAndZero ==
    ASSUME NEW c, WellFormed(c)
    PROVE  /\ Prefix(c) = StandardPrefix(c) \o OctalZero(c)
           /\ IsSeq(StandardPrefix(c)) /\ IsSeq(OctalZero(c))
           /\ Len(StandardPrefix(c)) \in 0 .. 2 /\ Len(OctalZero(c)) \in 0 .. 1
<1>1. /\ \A x, y : IsSeq(<<x, y>>) /\ Len(<<x, y>>) = 2
      /\ \A x : IsSeq(<<x>>) /\ Len(<<x>>) = 1
      /\ IsSeq(<< >>) /\ Len(<< >>) = 0
  BY DEF IsSeq
<1>2. "#" \in Flags(c) <=> "#" \in c.flags /\ c.spec \in {"x", "X", "o", "b"} /\ Value(c) # 0
  BY FlagsMean
<1>3. CASE "#" \notin Flags(c)
  <2>1. Prefix(c) = << >> /\ StandardPrefix(c) = << >> /\ OctalZero(c) = << >>
    BY <1>2, <1>3 DEF Prefix, StandardPrefix, OctalZero
  <2>2. << >> \o << >> = << >>
    BY <1>1, ConcatEmpty
  <2> QED BY <1>1, <2>1, <2>2
<1>4. CASE "#" \in Flags(c) /\ c.spec = "o"
  <2>1. Prefix(c) = <<"0">> /\ StandardPrefix(c) = << >> /\ OctalZero(c) = <<"0">>
    BY <1>2, <1>4 DEF Prefix, StandardPrefix, OctalZero
  <2>2. IsSeq(<<"0">>) /\ Len(<<"0">>) = 1
    BY <1>1
  <2>3. << >> \o <<"0">> = <<"0">>
    BY <2>2, ConcatEmpty
  <2> DEFINE zero == <<"0">>
  <2> HIDE DEF zero
  <2> QED BY <1>1, <2>1, <2>2, <2>3 DEF zero
<1>5. CASE "#" \in Flags(c) /\ c.spec # "o"
  <2>1. /\ Prefix(c) = <<"0", c.spec>> /\ StandardPrefix(c) = <<"0", c.spec>>
        /\ OctalZero(c) = << >>
    BY <1>2, <1>5 DEF Prefix, StandardPrefix, OctalZero
  <2> DEFINE prefix == <<"0", c.spec>>
  <2>2. IsSeq(prefix) /\ Len(prefix) = 2
    BY <1>1
  <2> HIDE DEF prefix
  <2>3. prefix \o << >> = prefix
    BY <2>2, ConcatEmpty
  <2> QED BY <1>1, <2>1, <2>2, <2>3 DEF prefix
<1> QED BY <1>3, <1>4, <1>5

\* The digits, if there is room for them: C has none for a 0.
LEMMA DigitsMean ==
    ASSUME NEW c, WellFormed(c), Len(NumeralOf(c)) <= NTOA_BUFFER
    PROVE  /\ Value(c) # 0 => /\ Reverse(Digits(c)) = NumeralOf(c)
                              /\ Len(Digits(c)) = Len(NumeralOf(c))
                              /\ Len(NumeralOf(c)) \in Nat \ {0}
           /\ Value(c) = 0 => /\ NumeralOf(c) = << >> /\ Len(NumeralOf(c)) = 0
                              /\ Digits(c) = IF c.precision = NONE THEN <<"0">> ELSE << >>
           /\ IsSeq(NumeralOf(c))
<1> DEFINE v == Magnitude(c)
           base == Base(c)
           chars == IF c.spec = "X" THEN UpperChars ELSE DigitChars
           s == DigitsOf(v, base, NTOA_BUFFER, chars)
           t == Numeral(v, base, chars)
<1>1. c.spec # "p"
  BY DEF WellFormed, IntegerSpecs
<1>2. NumeralOf(c) = t
  BY Zenon DEF NumeralOf, Magnitude
<1>3. Digits(c) = IF Value(c) = 0 /\ c.precision # NONE THEN << >> ELSE s
  <2>1. c.spec \in {"X", "p"} <=> c.spec = "X"
    BY <1>1
  <2>2. (IF c.spec \in {"X", "p"} THEN UpperChars ELSE DigitChars) = chars
    BY <2>1
  <2>3. Digits(c) = IF Value(c) = 0 /\ c.precision # NONE THEN << >>
                    ELSE DigitsOf(Magnitude(c), Base(c), NTOA_BUFFER,
                                  IF c.spec \in {"X", "p"} THEN UpperChars ELSE DigitChars)
    BY DEF Digits
  <2> HIDE DEF chars
  <2> QED BY <2>2, <2>3
<1>4. v \in Nat /\ base \in {2, 8, 10, 16} /\ NTOA_BUFFER \in Nat \ {0} /\ Value(c) \in Int
  BY Values, Bases, BufferAssumption
<1>5. v = 0 <=> Value(c) = 0
  BY <1>4 DEF Magnitude
<1>6. chars[1] = "0"
  BY DEF DigitChars, UpperChars
<1> HIDE DEF chars, v, base
<1>7. /\ IsSeq(t) /\ Len(t) \in Nat /\ v < Power(base, Len(t))
      /\ \A m \in 0 .. Len(t) - 1 : Power(base, m) <= v
  <2>1. Writes(t, v, base, chars)
    BY <1>4, NumeralIs
  <2> HIDE DEF t
  <2> QED BY <2>1 DEF Writes
<1>8. CASE Value(c) # 0
  <2>1. v \in Nat \ {0} /\ Len(t) <= NTOA_BUFFER
    BY <1>2, <1>4, <1>5, <1>8
  <2>2. Reverse(s) = t
    BY <1>4, <2>1, SameDigits
  <2>3. Digits(c) = s
    BY <1>3, <1>8
  <2>4. IsSeq(s) /\ Len(s) \in 1 .. NTOA_BUFFER
    BY <1>4, SomeDigits
  <2>5. Len(Reverse(s)) = Len(s)
    BY <2>4, Reversed
  <2> HIDE DEF s, t
  <2> QED BY <1>2, <1>4, <1>7, <1>8, <2>2, <2>3, <2>4, <2>5
<1>9. CASE Value(c) = 0
  <2>1. v = 0 /\ base \in Nat \ {0}
    BY <1>4, <1>5, <1>9
  <2>2. Power(base, 0) = 1
    BY <2>1, PowerIs
  <2>3. Len(t) = 0
    <3> HIDE DEF t
    <3> QED BY <1>7, <2>1, <2>2
  <2>4. t = << >>
    <3> HIDE DEF t
    <3> QED BY <1>7, <2>3, SameSeq, ConcatEmpty
  <2>5. s = <<"0">>
    <3>1. /\ IsSeq(s) /\ Len(s) \in 1 .. NTOA_BUFFER
          /\ \A j \in 1 .. Len(s) - 1 : ~ (v < Power(base, j))
      BY <1>4, SomeDigits
    <3>2. \A k \in 1 .. Len(s) : s[k] = chars[((v \div Power(base, k - 1)) % base) + 1]
      BY <1>4, EachDigit
    <3> HIDE DEF s
    <3>3. Len(s) = 1
      <4>1. Power(base, 1) \in Nat \ {0}
        <5>1. 1 \in Nat
          OBVIOUS
        <5> QED BY <2>1, <5>1, PowerIs
      <4>2. 1 \notin 1 .. Len(s) - 1
        BY <2>1, <3>1, <4>1
      <4>3. Len(s) \in Nat \ {0}
        BY <3>1, BufferAssumption
      <4> DEFINE n == Len(s)
      <4>4. n \in Nat \ {0} /\ ~ (n > 1)
        BY <4>2, <4>3
      <4> HIDE DEF n
      <4>5. n = 1
        BY <4>4
      <4> QED BY <4>5 DEF n
    <3>4. s[1] = "0"
      <4>1. s[1] = chars[((0 \div 1) % base) + 1]
        BY <2>1, <2>2, <3>2, <3>3
      <4>2. ((0 \div 1) % base) + 1 = 1
        BY <2>1
      <4> QED BY <1>6, <4>1, <4>2
    <3>5. IsSeq(<<"0">>) /\ Len(<<"0">>) = 1 /\ <<"0">>[1] = "0"
      BY DEF IsSeq
    <3>6. \A k \in 1 .. 1 : k = 1
      OBVIOUS
    <3> DEFINE zero == <<"0">>
    <3> HIDE DEF zero
    <3> QED BY <3>1, <3>3, <3>4, <3>5, <3>6, SameSeq DEF zero
  <2>6. Digits(c) = IF c.precision = NONE THEN <<"0">> ELSE << >>
    BY <1>3, <1>9, <2>5, Zenon
  <2> HIDE DEF s, t
  <2> QED BY <1>2, <1>7, <1>9, <2>3, <2>4, <2>6
<1> QED BY <1>8, <1>9

LEMMA ZerosBeforeIs ==
    ASSUME NEW n \in Int, NEW s, IsSeq(s)
    PROVE  /\ ZerosBefore(n, s) = Times("0", Missing(n, Len(s))) \o s
           /\ Missing(n, Len(s)) \in Nat
           /\ IsSeq(ZerosBefore(n, s))
           /\ Len(ZerosBefore(n, s)) = Missing(n, Len(s)) + Len(s)
           /\ n <= Len(s) => ZerosBefore(n, s) = s
<1> DEFINE m == Missing(n, Len(s))
<1>1. ZerosBefore(n, s) = Times("0", m) \o s
  BY DEF ZerosBefore, Missing
<1>2. Len(s) \in Nat
  BY DEF IsSeq
<1>3. m \in Nat /\ (n <= Len(s) => m = 0)
  BY <1>2 DEF Missing
<1> HIDE DEF m
<1>4. IsSeq(Times("0", m)) /\ Len(Times("0", m)) = m /\ (m = 0 => Times("0", m) = << >>)
  BY <1>3, TimesIs
<1>5. IsSeq(Times("0", m) \o s) /\ Len(Times("0", m) \o s) = m + Len(s)
  BY <1>4, Concat
<1>6. << >> \o s = s
  BY ConcatEmpty
<1> QED BY <1>1, <1>3, <1>4, <1>5, <1>6 DEF m

\* C's digits are the code's, behind the zeros of the precision, and behind the
\* zero of an octal number.
LEMMA StandardDigitsAre ==
    ASSUME NEW c, WellFormed(c), ~ Departs(c), Len(NumeralOf(c)) <= NTOA_BUFFER
    PROVE  StandardDigits(c) = OctalZero(c) \o ZerosBefore(Precision(c), Reverse(Digits(c)))
<1> DEFINE asked == IF c.precision = NONE THEN 1 ELSE c.precision
           text == ZerosBefore(asked, NumeralOf(c))
           d == Reverse(Digits(c))
           octal == "#" \in c.flags /\ c.spec = "o"
           n == Len(NumeralOf(c))
           more == ZerosBefore(Precision(c), d)
<1>1. StandardDigits(c) = IF octal /\ (Len(text) = 0 \/ text[1] # "0") THEN <<"0">> \o text ELSE text
  BY Zenon DEF StandardDigits
<1>2. /\ asked \in Nat /\ c.precision \in Nat \cup {NONE} /\ NONE = -1
      /\ Precision(c) = IF c.precision = NONE THEN 0 ELSE c.precision
  BY DEF WellFormed, NONE, Precision
<1>3. /\ Value(c) # 0 => d = NumeralOf(c) /\ n \in Nat \ {0}
      /\ Value(c) = 0 => /\ NumeralOf(c) = << >> /\ n = 0
                         /\ Digits(c) = IF c.precision = NONE THEN <<"0">> ELSE << >>
      /\ IsSeq(NumeralOf(c))
  BY DigitsMean
<1>4. /\ IsSeq(text) /\ Len(text) = Missing(asked, n) + n
      /\ text = Times("0", Missing(asked, n)) \o NumeralOf(c)
      /\ asked <= n => text = NumeralOf(c)
  <2> HIDE DEF asked
  <2>1. asked \in Int
    BY <1>2
  <2> QED BY <1>3, <2>1, ZerosBeforeIs
<1>5. IsSeq(d)
  BY DigitsAre, Reversed
<1>6. IsSeq(more) /\ (Precision(c) <= Len(d) => more = d)
  BY <1>2, <1>5, ZerosBeforeIs
<1>7. octal /\ c.precision # NONE => IF Value(c) = 0 THEN c.precision # 0 ELSE ~ (c.precision > n)
  BY Zenon DEF Departs
<1>8. << >> \o more = more
  BY <1>6, ConcatEmpty
<1>9. "#" \in Flags(c) /\ c.spec = "o" <=> octal /\ Value(c) # 0
  BY FlagsMean
<1> HIDE DEF text, more, n
<1>10. CASE Value(c) = 0
  <2>1. OctalZero(c) = << >>
    BY <1>9, <1>10, Zenon DEF OctalZero
  <2>2. text = Times("0", asked)
    <3>1. Missing(asked, n) = asked
      BY <1>2, <1>3, <1>10 DEF Missing
    <3>2. IsSeq(Times("0", asked))
      BY <1>2, TimesIs
    <3>3. Times("0", asked) \o << >> = Times("0", asked)
      BY <3>2, ConcatEmpty
    <3> QED BY <1>3, <1>4, <1>10, <3>1, <3>3
  <2>3. /\ IsSeq(Times("0", asked)) /\ Len(Times("0", asked)) = asked
        /\ \A k \in 1 .. asked : Times("0", asked)[k] = "0"
    BY <1>2, TimesIs
  <2>4. text = more
    <3>1. CASE c.precision = NONE
      <4>1. Digits(c) = <<"0">>
        BY <1>3, <1>10, <3>1
      <4>2. d = <<"0">> /\ Len(d) = 1
        BY <4>1 DEF Reverse
      <4>3. more = d
        BY <1>2, <1>6, <3>1, <4>2
      <4>4. text = <<"0">>
        <5>1. asked = 1
          BY <3>1
        <5>2. IsSeq(<<"0">>) /\ Len(<<"0">>) = 1 /\ <<"0">>[1] = "0" /\ 1 .. 1 = {1}
          BY DEF IsSeq
        <5> DEFINE zero == <<"0">>
                   times == Times("0", 1)
        <5>3. /\ IsSeq(times) /\ Len(times) = 1 /\ \A k \in 1 .. 1 : times[k] = "0"
              /\ text = times
          BY <2>2, <2>3, <5>1
        <5>4. IsSeq(zero) /\ Len(zero) = 1 /\ \A k \in 1 .. 1 : zero[k] = "0"
          BY <5>2
        <5> HIDE DEF zero, times
        <5>5. times = zero
          <6>1. \A k \in 1 .. Len(times) : times[k] = zero[k]
            BY <5>3, <5>4
          <6> QED BY <5>3, <5>4, <6>1, SameSeq
        <5> QED BY <5>3, <5>5 DEF zero
      <4> QED BY <4>2, <4>3, <4>4
    <3>2. CASE c.precision # NONE
      <4>1. d = << >> /\ asked = Precision(c)
        <5>1. Digits(c) = << >>
          BY <1>3, <1>10, <3>2
        <5> QED BY <1>2, <3>2, <5>1 DEF Reverse
      <4> QED BY <1>3, <1>10, <4>1 DEF text, more
    <3> QED BY <3>1, <3>2
  <2>5. ~ (octal /\ (Len(text) = 0 \/ text[1] # "0"))
    <3> SUFFICES ASSUME octal
                 PROVE  Len(text) # 0 /\ text[1] = "0"
      BY Zenon
    <3>1. asked # 0
      BY <1>2, <1>7, <1>10
    <3> QED BY <1>2, <2>2, <2>3, <3>1
  <2> QED BY <1>1, <1>8, <2>1, <2>4, <2>5, Zenon DEF more
<1>11. CASE Value(c) # 0
  <2>1. Len(d) = n /\ n \in Nat \ {0} /\ d = NumeralOf(c)
    BY <1>3, <1>11 DEF n
  <2>2. text = more
    <3>1. CASE c.precision = NONE
      <4>1. asked <= n /\ Precision(c) <= Len(d)
        BY <1>2, <2>1, <3>1
      <4> QED BY <1>4, <1>6, <2>1, <4>1
    <3>2. CASE c.precision # NONE
      <4>1. asked = Precision(c)
        BY <1>2, <3>2
      <4> QED BY <2>1, <4>1 DEF text, more
    <3> QED BY <3>1, <3>2
  <2>3. CASE ~ octal
    <3>1. OctalZero(c) = << >>
      BY <1>9, <2>3, Zenon DEF OctalZero
    <3> QED BY <1>1, <1>8, <2>2, <2>3, <3>1, Zenon DEF more
  <2>4. CASE octal
    <3>1. OctalZero(c) = <<"0">>
      BY <1>9, <1>11, <2>4, Zenon DEF OctalZero
    <3>2. asked <= n
      BY <1>2, <1>7, <1>11, <2>1, <2>4
    <3>3. text = NumeralOf(c)
      BY <1>4, <3>2
    <3>4. NumeralOf(c) = Numeral(Magnitude(c), 8, DigitChars)
      <4>1. c.spec = "o"
        BY <2>4
      <4>2. Base(c) = 8 /\ (IF c.spec = "X" THEN UpperChars ELSE DigitChars) = DigitChars
        BY <4>1 DEF Base
      <4> QED BY <4>2, Zenon DEF NumeralOf, Magnitude
    <3>5. Magnitude(c) \in Nat \ {0}
      BY <1>11, Values DEF Magnitude
    <3>6. text[1] # "0"
      BY <3>3, <3>4, <3>5, NoLeadingZero
    <3> QED BY <1>1, <2>2, <2>4, <3>1, <3>6, Zenon DEF more
  <2> QED BY <2>3, <2>4
<1> QED BY <1>10, <1>11

\* Zeros in front of a zero.
LEMMA ZerosBeforeZero ==
    ASSUME NEW m \in Nat, NEW s, IsSeq(s)
    PROVE  Times("0", m) \o (<<"0">> \o s) = <<"0">> \o (Times("0", m) \o s)
<1> DEFINE z == Times("0", m)
           o == <<"0">>
           left == z \o o
           right == o \o z
<1>1. IsSeq(z) /\ Len(z) = m /\ \A k \in 1 .. m : z[k] = "0"
  BY TimesIs
<1>2. IsSeq(o) /\ Len(o) = 1 /\ \A k \in 1 .. 1 : o[k] = "0"
  BY DEF IsSeq
<1> HIDE DEF z, o
<1>3. /\ IsSeq(left) /\ Len(left) = m + 1
      /\ \A k \in 1 .. m : left[k] = z[k]
      /\ \A k \in m + 1 .. m + 1 : left[k] = o[k - m]
  <2>1. /\ IsSeq(left) /\ Len(left) = Len(z) + Len(o)
        /\ \A k \in 1 .. Len(z) : left[k] = z[k]
        /\ \A k \in Len(z) + 1 .. Len(z) + Len(o) : left[k] = o[k - Len(z)]
    BY <1>1, <1>2, Concat
  <2> HIDE DEF left
  <2> QED BY <1>1, <1>2, <2>1
<1>4. /\ IsSeq(right) /\ Len(right) = 1 + m
      /\ \A k \in 1 .. 1 : right[k] = o[k]
      /\ \A k \in 1 + 1 .. 1 + m : right[k] = z[k - 1]
  <2>1. /\ IsSeq(right) /\ Len(right) = Len(o) + Len(z)
        /\ \A k \in 1 .. Len(o) : right[k] = o[k]
        /\ \A k \in Len(o) + 1 .. Len(o) + Len(z) : right[k] = z[k - Len(o)]
    BY <1>1, <1>2, Concat
  <2> HIDE DEF right
  <2> QED BY <1>1, <1>2, <2>1
<1> HIDE DEF left, right
<1>5. \A k \in 1 .. m + 1 : left[k] = "0" /\ right[k] = "0"
  BY <1>1, <1>2, <1>3, <1>4
<1>6. left = right
  <2>1. Len(left) = Len(right) /\ \A k \in 1 .. Len(left) : left[k] = right[k]
    BY <1>3, <1>4, <1>5
  <2> QED BY <1>3, <1>4, <2>1, SameSeq
<1>7. (z \o o) \o s = z \o (o \o s)
  BY <1>1, <1>2, JoinAssociative
<1>8. (o \o z) \o s = o \o (z \o s)
  BY <1>1, <1>2, JoinAssociative
<1> QED BY <1>6, <1>7, <1>8 DEF left, right, z, o

\* The zeros of the width are in the same place, whichever of the two the zero of
\* an octal number is taken for, a prefix or a digit.
LEMMA BodyMeans ==
    ASSUME NEW c, WellFormed(c), ~ Departs(c), Len(NumeralOf(c)) <= NTOA_BUFFER
    PROVE  Body(c) = StandardBody(c)
<1> DEFINE s == StandardSign(c)
           p == StandardPrefix(c)
           o == OctalZero(c)
           t == ZerosBefore(Precision(c), Reverse(Digits(c)))
           before == s \o p
           room == IF StandardZeroed(c) THEN c.width - Len(before) ELSE 0
           fixed == s \o (p \o o)
           less == IF StandardZeroed(c) THEN c.width - Len(fixed) ELSE 0
<1>1. IsSeq(s) /\ Len(s) \in 0 .. 1
  <2>1. s = Sign(c)
    BY FlagsMean
  <2> HIDE DEF s
  <2> QED BY <2>1, SignIs, Numbers
<1>2. /\ IsSeq(p) /\ IsSeq(o) /\ Len(p) \in 0 .. 2
      /\ (o = << >> /\ Len(o) = 0) \/ (o = <<"0">> /\ Len(o) = 1)
  <2>1. IsSeq(p) /\ IsSeq(o) /\ Len(p) \in 0 .. 2
    BY PrefixAndZero
  <2>2. o = << >> \/ o = <<"0">>
    BY Zenon DEF OctalZero
  <2>3. Len(<< >>) = 0 /\ Len(<<"0">>) = 1
    OBVIOUS
  <2> QED BY <2>1, <2>2, <2>3
<1>3. IsSeq(t)
  <2>1. IsSeq(Reverse(Digits(c))) /\ Precision(c) \in Int
    BY DigitsAre, Reversed, Numbers
  <2> QED BY <2>1, ZerosBeforeIs
<1>4. StandardBody(c) = before \o ZerosBefore(room, o \o t)
  <2>1. StandardDigits(c) = o \o t
    BY StandardDigitsAre
  <2> HIDE DEF o, t
  <2> QED BY <2>1, Zenon DEF StandardBody
<1>5. Body(c) = fixed \o ZerosBefore(less, t)
  <2>1. Sign(c) = s /\ Prefix(c) = p \o o /\ (Zeroed(Flags(c)) <=> StandardZeroed(c))
    BY FlagsMean, PrefixAndZero
  <2>2. Body(c) = (Sign(c) \o Prefix(c))
                    \o ZerosBefore(IF Zeroed(Flags(c)) THEN c.width - Len(Sign(c) \o Prefix(c)) ELSE 0, t)
    BY Zenon DEF Body
  <2> HIDE DEF s, p, o, t
  <2> QED BY <2>1, <2>2, Zenon
<1>6. c.width \in Nat
  BY DEF WellFormed
<1> HIDE DEF s, p, o, t
<1>7. IsSeq(p \o o) /\ Len(p \o o) = Len(p) + Len(o)
  BY <1>2, Concat
<1>8. /\ IsSeq(before) /\ Len(before) = Len(s) + Len(p)
      /\ IsSeq(fixed) /\ Len(fixed) = Len(s) + (Len(p) + Len(o))
      /\ fixed = before \o o
  <2>1. IsSeq(before) /\ Len(before) = Len(s) + Len(p)
    BY <1>1, <1>2, Concat
  <2>2. IsSeq(fixed) /\ Len(fixed) = Len(s) + Len(p \o o)
    BY <1>1, <1>7, Concat
  <2>3. (s \o p) \o o = s \o (p \o o)
    BY <1>1, <1>2, JoinAssociative
  <2> QED BY <1>7, <2>1, <2>2, <2>3
<1>9. IsSeq(o \o t) /\ Len(o \o t) = Len(o) + Len(t) /\ Len(t) \in Nat
  BY <1>2, <1>3, Concat DEF IsSeq
<1>10. room \in Int /\ less \in Int /\ (StandardZeroed(c) => less = room - Len(o))
  BY <1>1, <1>2, <1>6, <1>8
<1>11. Missing(room, Len(o \o t)) = Missing(less, Len(t))
  <2>1. CASE StandardZeroed(c)
    <3> HIDE DEF room, less
    <3> QED BY <1>2, <1>9, <1>10, <2>1 DEF Missing
  <2>2. CASE ~ StandardZeroed(c)
    <3>1. room = 0 /\ less = 0
      BY <2>2
    <3> HIDE DEF room, less
    <3> QED BY <1>2, <1>9, <3>1 DEF Missing
  <2> QED BY <2>1, <2>2
<1> DEFINE m == Missing(less, Len(t))
           z == Times("0", m)
<1>12. ZerosBefore(less, t) = z \o t /\ m \in Nat
  <2> HIDE DEF less
  <2> QED BY <1>3, <1>10, ZerosBeforeIs
<1>13. ZerosBefore(room, o \o t) = z \o (o \o t)
  <2> HIDE DEF less, room
  <2>1. ZerosBefore(room, o \o t) = Times("0", Missing(room, Len(o \o t))) \o (o \o t)
    BY <1>9, <1>10, ZerosBeforeIs
  <2> QED BY <1>11, <2>1
<1> HIDE DEF room, less, m
<1>14. z \o (o \o t) = o \o (z \o t)
  <2>1. IsSeq(z) /\ IsSeq(z \o t)
    BY <1>3, <1>12, TimesIs, Concat
  <2>2. CASE o = << >>
    <3>1. << >> \o t = t /\ << >> \o (z \o t) = z \o t
      BY <1>3, <2>1, ConcatEmpty
    <3> QED BY <2>2, <3>1
  <2>3. CASE o = <<"0">>
    BY <1>3, <1>12, <2>3, ZerosBeforeZero
  <2> QED BY <1>2, <2>2, <2>3
<1>15. (before \o o) \o (z \o t) = before \o (o \o (z \o t))
  <2>1. IsSeq(z \o t)
    BY <1>3, <1>12, TimesIs, Concat
  <2> DEFINE y == z \o t
  <2>2. IsSeq(before) /\ IsSeq(o) /\ IsSeq(y)
    BY <1>2, <1>8, <2>1
  <2> HIDE DEF before, y
  <2>3. (before \o o) \o y = before \o (o \o y)
    BY <2>2, JoinAssociative
  <2> QED BY <2>3 DEF y
<1> QED BY <1>4, <1>5, <1>8, <1>12, <1>13, <1>14, <1>15

\* The text is longer than the digits.
LEMMA NumeralFits ==
    ASSUME NEW c, WellFormed(c), ~ Departs(c)
    PROVE  Len(NumeralOf(c)) <= NTOA_BUFFER
<1> DEFINE before == StandardSign(c) \o StandardPrefix(c)
           room == IF StandardZeroed(c) THEN c.width - Len(before) ELSE 0
           asked == IF c.precision = NONE THEN 1 ELSE c.precision
           text == ZerosBefore(asked, NumeralOf(c))
           d == StandardDigits(c)
<1>1. IsSeq(NumeralOf(c)) /\ Len(NumeralOf(c)) \in Nat
  <2> DEFINE v == Magnitude(c)
             chars == IF c.spec = "X" THEN UpperChars ELSE DigitChars
  <2>1. NumeralOf(c) = Numeral(v, Base(c), chars)
    BY Zenon DEF NumeralOf, Magnitude
  <2>2. v \in Nat /\ Base(c) \in {2, 8, 10, 16}
    BY Values, Bases
  <2> HIDE DEF v, chars
  <2> QED BY <2>1, <2>2, NumeralIs DEF Writes
<1>2. IsSeq(before) /\ Len(before) \in Nat
  <2>1. IsSeq(StandardSign(c))
    <3>1. StandardSign(c) = Sign(c)
      BY FlagsMean
    <3> QED BY <3>1, SignIs
  <2>2. IsSeq(before)
    BY <2>1, PrefixAndZero, Concat
  <2> QED BY <2>2 DEF IsSeq
<1>3. asked \in Nat
  BY DEF WellFormed
<1>4. IsSeq(text) /\ Len(text) >= Len(NumeralOf(c))
  <2> HIDE DEF asked
  <2> QED BY <1>1, <1>3, ZerosBeforeIs
<1>5. IsSeq(d) /\ Len(d) >= Len(NumeralOf(c))
  <2>1. d = text \/ d = <<"0">> \o text
    BY Zenon DEF StandardDigits
  <2>2. IsSeq(<<"0">>) /\ Len(<<"0">>) = 1
    BY DEF IsSeq
  <2> DEFINE zero == <<"0">>
  <2> HIDE DEF zero, text, d
  <2>3. IsSeq(zero \o text) /\ Len(zero \o text) = 1 + Len(text)
    BY <1>4, <2>2, Concat DEF zero
  <2> QED BY <1>1, <1>4, <2>1, <2>3 DEF zero, IsSeq
<1>6. room \in Int
  <2>1. c.width \in Nat
    BY DEF WellFormed
  <2> HIDE DEF before
  <2> QED BY <1>2, <2>1
<1>7. StandardBody(c) = before \o ZerosBefore(room, d)
  BY Zenon DEF StandardBody
<1> HIDE DEF before, room, d
<1>8. /\ IsSeq(ZerosBefore(room, d))
      /\ Len(ZerosBefore(room, d)) = Missing(room, Len(d)) + Len(d)
      /\ Missing(room, Len(d)) \in Nat
  BY <1>5, <1>6, ZerosBeforeIs
<1>9. Len(StandardBody(c)) = Len(before) + Len(ZerosBefore(room, d))
  BY <1>2, <1>7, <1>8, Concat
<1>10. ~ (Len(StandardBody(c)) > NTOA_BUFFER)
  BY Zenon DEF Departs
<1>11. NTOA_BUFFER \in Nat /\ Len(d) \in Nat
  BY <1>5, BufferAssumption DEF IsSeq
<1> QED BY <1>1, <1>2, <1>5, <1>8, <1>9, <1>10, <1>11

\* The cases of Departs are those the code is at odds with.
LEMMA DepartsMean ==
    ASSUME NEW c, WellFormed(c), ~ Departs(c)
    PROVE  ~ DepartsByFlags(c)
<1> DEFINE n == Len(NumeralOf(c))
           hash == "#" \in c.flags /\ c.spec \in {"x", "X", "o", "b"} /\ Value(c) # 0
           padded == StandardZeroed(c) /\ n <= c.width
           width == WidthLeft(Flags(c), c.width, Value(c) < 0)
           m == Len(Digits(c))
<1>1. n <= NTOA_BUFFER
  BY NumeralFits
<1>2. Body(c) = StandardBody(c)
  BY <1>1, BodyMeans
<1>3. /\ Value(c) # 0 => m = n
      /\ Value(c) = 0 /\ c.precision # NONE => m = n
      /\ n \in Nat /\ m \in Nat
  <2>1. /\ Value(c) # 0 => m = n
        /\ Value(c) = 0 => n = 0 /\ Digits(c) = IF c.precision = NONE THEN <<"0">> ELSE << >>
        /\ IsSeq(NumeralOf(c))
    BY <1>1, DigitsMean
  <2>2. Len(<< >>) = 0
    OBVIOUS
  <2>3. m \in Nat
    BY DigitsAre
  <2> QED BY <2>1, <2>2, <2>3 DEF IsSeq
<1>4. /\ Zeroed(Flags(c)) <=> StandardZeroed(c)
      /\ "-" \in Flags(c) <=> "-" \in c.flags
      /\ "#" \in Flags(c) <=> hash
      /\ "#" \in Flags(c) => ~ HasSign(c)
  BY FlagsMean
<1>5. /\ ~ (Len(StandardBody(c)) > NTOA_BUFFER)
      /\ ~ ("-" \in c.flags /\ c.precision > n)
      /\ ~ (hash /\ c.precision = NONE /\ n = c.width)
      /\ ~ (hash /\ c.precision = NONE /\ padded /\ c.spec \in {"x", "X"} /\ c.width - n < 2)
      /\ ~ (hash /\ c.precision = NONE /\ padded /\ c.spec = "b")
      /\ ~ ("#" \in c.flags /\ c.spec = "o" /\ c.precision # NONE /\ Value(c) # 0 /\ c.precision > n)
  BY Zenon DEF Departs
<1>6. "#" \in Flags(c) => width = c.width
  BY <1>4, LeftIs, Zenon DEF Left
<1>7. /\ c.precision \in Nat \cup {NONE} /\ NONE = -1
      /\ Precision(c) = IF c.precision = NONE THEN 0 ELSE c.precision
  BY DEF WellFormed, NONE, Precision
<1>8. "#" \in Flags(c) => Value(c) # 0 /\ "#" \in c.flags
  BY <1>4
<1> HIDE DEF n, hash, width, m
<1>9. ~ (Len(Body(c)) > NTOA_BUFFER)
  BY <1>2, <1>5
<1>10. ~ ("-" \in Flags(c) /\ Precision(c) > m)
  BY <1>3, <1>4, <1>5, <1>7
<1>11. ~ ("#" \in Flags(c) /\ c.precision = NONE /\ m = width)
  BY <1>3, <1>4, <1>5, <1>6, <1>8
<1>12. ~ ("#" \in Flags(c) /\ c.precision = NONE /\ Zeroed(Flags(c)) /\ m <= width
            /\ c.spec \in {"x", "X"} /\ width - m < 2)
  BY <1>3, <1>4, <1>5, <1>6, <1>8
<1>13. ~ ("#" \in Flags(c) /\ c.precision = NONE /\ Zeroed(Flags(c)) /\ m <= width /\ c.spec = "b")
  BY <1>3, <1>4, <1>5, <1>6, <1>8
<1>14. ~ ("#" \in Flags(c) /\ c.spec = "o" /\ Precision(c) > m)
  BY <1>3, <1>5, <1>7, <1>8
<1> QED BY <1>9, <1>10, <1>11, <1>12, <1>13, <1>14, Zenon DEF DepartsByFlags, m, width

LEMMA IntegerAsStandard ==
    ASSUME NEW c, WellFormed(c), ~ Departs(c)
    PROVE  _ntoa(c) = StandardText(c)
<1>1. _ntoa(c) = TextByFlags(c)
  BY DepartsMean, IntegerText
<1>2. Body(c) = StandardBody(c)
  BY NumeralFits, BodyMeans
<1>3. "-" \in Flags(c) <=> "-" \in c.flags
  BY FlagsMean
<1>4. TextByFlags(c) = StandardText(c)
  BY <1>2, <1>3, Zenon DEF TextByFlags, StandardText, Padded
<1> QED BY <1>1, <1>4

\* The arguments are what the format asks for.
ArgumentsFit ==
    \A c \in Current :
       /\ c.width \in Nat /\ c.precision \in Nat \cup {NONE}
       /\ c.spec \in IntegerSpecs => c.arg \in Int
       /\ c.spec \in FloatSpecs =>
             c.arg.n \in Nat /\ c.arg.k \in Nat /\ c.arg.n < Power(2, SIGNIFICAND)
       /\ c.spec = "s" => IsSeq(c.arg)

LEMMA TextOfIntegers ==
    ASSUME NEW c, c.spec \in IntegerSpecs
    PROVE  Text(c) = _ntoa(c)
<1>1. c.spec \notin FloatSpecs /\ c.spec \notin {"c", "s"}
  BY DEF IntegerSpecs, FloatSpecs
<1>2. c.spec # "c" /\ c.spec # "s"
  BY <1>1
<1> QED BY <1>1, <1>2, Zenon DEF Text

\* For numbers of any size, every width, precision and set of flags, and buffers
\* of any size, an integer conversion gives the text the C standard asks for,
\* unless it is one of the cases of Departs (_ntoa_long, _ntoa_format, _out_rev).
THEOREM IntegersAsStandard == Spec => [](ArgumentsFit => ConvertsAsStandard)
<1>1. ArgumentsFit => ConvertsAsStandard
  <2> SUFFICES ASSUME ArgumentsFit, NEW c \in Current, c.spec \in IntegerSpecs \ {"p"},
                      ~ Departs(c)
               PROVE  Text(c) = StandardText(c)
    BY DEF ConvertsAsStandard
  <2>1. WellFormed(c)
    BY DEF ArgumentsFit, WellFormed
  <2>2. Text(c) = _ntoa(c)
    BY TextOfIntegers
  <2> QED BY <2>1, <2>2, IntegerAsStandard
<1> QED BY <1>1, PTL

-----------------------------------------------------------------------------
(***************************************************************************)
(* Every conversion gives a text, also those of Departs and Spills.          *)
(***************************************************************************)
LEMMA BeginningIs ==
    ASSUME NEW s, IsSeq(s), NEW m \in 0 .. Len(s)
    PROVE  IsSeq(SubSeq(s, 1, m)) /\ Len(SubSeq(s, 1, m)) = m
<1> DEFINE S == {s[k] : k \in 1 .. Len(s)}
           t == SubSeq(s, 1, m)
<1>1. Len(s) \in Nat /\ m \in Nat
  BY DEF IsSeq
<1>2. s \in Seq(S)
  <2>1. s \in [1 .. Len(s) -> S]
    BY DEF IsSeq
  <2> HIDE DEF S
  <2> QED BY <1>1, <2>1, SeqDef
<1> HIDE DEF S
<1>3. t \in Seq(S) /\ Len(t) = m
  BY <1>1, <1>2, SubSeqProperties
<1>4. t = [k \in 1 .. Len(t) |-> t[k]] /\ Len(t) \in Nat
  BY <1>3, LenProperties
<1> HIDE DEF t
<1>5. IsSeq(t) /\ Len(t) = m
  BY <1>3, <1>4 DEF IsSeq
<1> QED BY <1>5 DEF t

LEMMA FitIs ==
    ASSUME NEW s, IsSeq(s), NEW size \in Nat
    PROVE  IsSeq(Fit(s, size))
<1>1. Least(Len(s), size) \in 0 .. Len(s)
  BY DEF Least, IsSeq
<1> QED BY <1>1, BeginningIs DEF Fit

LEMMA FilledIs ==
    ASSUME NEW s, IsSeq(s), NEW n \in Int, NEW size \in Nat
    PROVE  IsSeq(Fill(s, n, size))
<1>0. Len(s) \in Nat /\ Least(n, size) \in Int
  BY DEF IsSeq, Least
<1>1. CASE Len(s) < Least(n, size)
  <2> DEFINE zeros == Times("0", Least(n, size) - Len(s))
  <2>1. Least(n, size) - Len(s) \in Nat
    BY <1>0, <1>1
  <2>2. IsSeq(zeros)
    BY <2>1, TimesIs
  <2>3. Fill(s, n, size) = s \o zeros
    BY <1>1, Zenon DEF Fill
  <2> HIDE DEF zeros
  <2> QED BY <2>2, <2>3, Concat
<1>2. CASE ~ (Len(s) < Least(n, size))
  BY <1>2, Zenon DEF Fill
<1> QED BY <1>1, <1>2

LEMMA SignedIs ==
    ASSUME NEW buf, IsSeq(buf), NEW flags, NEW negative, NEW size \in Nat
    PROVE  IsSeq(WithSign(flags, negative, buf, size))
<1> DEFINE sign == IF negative THEN <<"-">>
                   ELSE IF "+" \in flags THEN <<"+">>
                   ELSE IF " " \in flags THEN <<" ">> ELSE << >>
<1>1. IsSeq(sign)
  <2>1. IsSeq(<<"-">>) /\ IsSeq(<<"+">>) /\ IsSeq(<<" ">>) /\ IsSeq(<< >>)
    BY DEF IsSeq
  <2> QED BY <2>1, Zenon
<1>2. WithSign(flags, negative, buf, size) = Fit(buf \o sign, size)
  BY Zenon DEF WithSign
<1> HIDE DEF sign
<1>3. IsSeq(buf \o sign)
  BY <1>1, Concat
<1> QED BY <1>2, <1>3, FitIs

LEMMA WithPrefixIs ==
    ASSUME NEW c, NEW width, NEW buf, IsSeq(buf)
    PROVE  IsSeq(WithPrefix(c, width, buf))
<1> DEFINE full_up == c.precision = NONE /\ buf # << >> /\ Len(buf) = width
           less == IF ~ full_up THEN Len(buf)
                   ELSE IF Base(c) = 16 /\ Len(buf) > 1 THEN Len(buf) - 2
                   ELSE Len(buf) - 1
           letter == CASE c.spec = "o" -> << >>
                       [] c.spec \in {"X", "p"} -> <<"X">>
                       [] c.spec \in {"x", "b"} -> <<c.spec>>
                       [] OTHER -> << >>
           beginning == SubSeq(buf, 1, less)
<1>1. less \in 0 .. Len(buf)
  <2>1. Len(buf) \in Nat /\ IsSeq(<< >>) /\ Len(<< >>) = 0
    BY DEF IsSeq
  <2>2. full_up => Len(buf) # 0
    BY <2>1, SameSeq
  <2> HIDE DEF full_up
  <2> QED BY <2>1, <2>2
<1>2. IsSeq(letter)
  <2>1. \A x : IsSeq(<<x>>)
    BY DEF IsSeq
  <2>2. IsSeq(<< >>)
    BY DEF IsSeq
  <2>3. letter = << >> \/ \E x : letter = <<x>>
    OBVIOUS
  <2> HIDE DEF letter
  <2> QED BY <2>1, <2>2, <2>3, Zenon
<1>3. IsSeq(<<"0">>)
  BY DEF IsSeq
<1>4. WithPrefix(c, width, buf) = Fit(beginning \o letter \o <<"0">>, NTOA_BUFFER)
  BY Zenon DEF WithPrefix
<1> HIDE DEF less, letter
<1>5. IsSeq(beginning)
  BY <1>1, BeginningIs
<1> HIDE DEF beginning
<1>6. IsSeq(beginning \o letter)
  BY <1>2, <1>5, Concat
<1> DEFINE both == beginning \o letter
<1>7. IsSeq(both)
  BY <1>6
<1>8. WithPrefix(c, width, buf) = Fit(both \o <<"0">>, NTOA_BUFFER)
  BY <1>4
<1> HIDE DEF both
<1>9. IsSeq(both \o <<"0">>)
  BY <1>3, <1>7, Concat
<1> QED BY <1>8, <1>9, BufferAssumption, FitIs

LEMMA OutRevIs ==
    ASSUME NEW buf, IsSeq(buf), NEW flags, NEW width \in Int
    PROVE  IsSeq(_out_rev(flags, width, buf))
<1> DEFINE spaces == Times(" ", IF Len(buf) < width THEN width - Len(buf) ELSE 0)
<1>1. IsSeq(spaces)
  <2>1. Len(buf) \in Nat
    BY DEF IsSeq
  <2>2. (IF Len(buf) < width THEN width - Len(buf) ELSE 0) \in Nat
    BY <2>1
  <2> QED BY <2>2, TimesIs
<1>2. IsSeq(Reverse(buf))
  BY Reversed
<1>3. \/ _out_rev(flags, width, buf) = Reverse(buf) \o spaces
      \/ _out_rev(flags, width, buf) = Reverse(buf)
      \/ _out_rev(flags, width, buf) = spaces \o Reverse(buf)
  BY Zenon DEF _out_rev
<1> HIDE DEF spaces
<1>4. IsSeq(Reverse(buf) \o spaces) /\ IsSeq(spaces \o Reverse(buf))
  BY <1>1, <1>2, Concat
<1> QED BY <1>2, <1>3, <1>4

LEMMA PaddedIs ==
    ASSUME NEW c, c.width \in Int, NEW shown, IsSeq(shown)
    PROVE  IsSeq(Padded(c, shown))
<1> DEFINE spaces == Times(" ", IF Len(shown) < c.width THEN c.width - Len(shown) ELSE 0)
<1>1. IsSeq(spaces)
  <2>1. Len(shown) \in Nat
    BY DEF IsSeq
  <2>2. (IF Len(shown) < c.width THEN c.width - Len(shown) ELSE 0) \in Nat
    BY <2>1
  <2> QED BY <2>2, TimesIs
<1>2. Padded(c, shown) = shown \o spaces \/ Padded(c, shown) = spaces \o shown
  BY Zenon DEF Padded
<1> HIDE DEF spaces
<1>3. IsSeq(shown \o spaces) /\ IsSeq(spaces \o shown)
  BY <1>1, Concat
<1> QED BY <1>2, <1>3

\* The digits of an integer conversion, p included.
LEMMA AnyDigitsAre ==
    ASSUME NEW c, c.spec \in IntegerSpecs
    PROVE  IsSeq(Digits(c))
<1> DEFINE chars == IF c.spec \in {"X", "p"} THEN UpperChars ELSE DigitChars
           digits == DigitsOf(Magnitude(c), Base(c), NTOA_BUFFER, chars)
<1>3. Digits(c) = IF Value(c) = 0 /\ c.precision # NONE THEN << >> ELSE digits
  BY DEF Digits
<1>4. IsSeq(digits)
  <2> HIDE DEF chars
  <2> QED BY BufferAssumption, SomeDigits
<1> HIDE DEF digits
<1>5. IsSeq(<< >>)
  BY DEF IsSeq
<1> QED BY <1>3, <1>4, <1>5

LEMMA IntegerTextIs ==
    ASSUME NEW c, c.spec \in IntegerSpecs,
           c.width \in Nat, c.precision \in Nat \cup {NONE}
    PROVE  IsSeq(_ntoa(c))
<1> DEFINE flags == Flags(c)
           negative == Value(c) < 0
           width == WidthLeft(flags, Width(c), negative)
           precise == Fill(Digits(c), IF "-" \in flags THEN 0 ELSE Precision(c), NTOA_BUFFER)
           zeroed == Fill(precise, IF Zeroed(flags) THEN width ELSE 0, NTOA_BUFFER)
           prefixed == IF "#" \in flags THEN WithPrefix(c, width, zeroed) ELSE zeroed
           text == WithSign(flags, negative, prefixed, NTOA_BUFFER)
<1>1. _ntoa(c) = _out_rev(flags, width, text)
  BY Zenon DEF _ntoa, _ntoa_format
<1>2. NTOA_BUFFER \in Nat /\ (IF "-" \in flags THEN 0 ELSE Precision(c)) \in Int
  BY BufferAssumption DEF Precision, NONE
<1>3. width \in Int
  <2>1. Width(c) \in Int
    BY PointerAssumption DEF Width
  <2>2. \A w \in Int : WidthLeft(flags, w, negative) \in Int
    BY DEF WidthLeft
  <2> QED BY <2>1, <2>2
<1> HIDE DEF flags, negative
<1>4. IsSeq(precise)
  BY <1>2, AnyDigitsAre, FilledIs
<1> HIDE DEF precise, width
<1>5. IsSeq(zeroed)
  BY <1>2, <1>3, <1>4, FilledIs
<1> HIDE DEF zeroed
<1>6. IsSeq(prefixed)
  BY <1>5, WithPrefixIs
<1> HIDE DEF prefixed
<1>7. IsSeq(text)
  BY <1>2, <1>6, SignedIs
<1> HIDE DEF text
<1> QED BY <1>1, <1>3, <1>7, OutRevIs

\* The logarithm, rounded down.
LEMMA Log2Is ==
    ASSUME NEW n \in Nat \ {0}
    PROVE  Log2(n) \in Nat /\ Power(2, Log2(n)) <= n /\ n < Power(2, Log2(n) + 1)
<1>1. \A b \in Nat : b < Power(2, b)
  <2> DEFINE T == {b \in Nat : b < Power(2, b)}
  <2>1. 0 \in T
    BY PowerIs
  <2>2. ASSUME NEW b \in Nat, b \in T
        PROVE  b + 1 \in T
    <3> DEFINE p == Power(2, b)
               q == Power(2, b + 1)
    <3>1. b < p /\ q = 2 * p /\ p \in Nat
      BY <2>2, PowerIs
    <3> HIDE DEF p
    <3>2. b + 1 < q
      BY <3>1
    <3> QED BY <3>2
  <2> HIDE DEF T
  <2>3. Nat \subseteq T
    BY <2>1, <2>2, Induction
  <2> QED BY <2>3 DEF T
<1> DEFINE S == {b \in Nat : n < Power(2, b + 1)}
<1>2. PICK b \in S : \A j \in S : b <= j
  <2>1. n \in S
    <3> DEFINE p == Power(2, n)
               q == Power(2, n + 1)
    <3>1. n < p /\ q = 2 * p /\ p \in Nat
      BY <1>1, PowerIs
    <3> HIDE DEF p
    <3>2. n < q
      BY <3>1
    <3> QED BY <3>2
  <2>2. S \in SUBSET Nat
    OBVIOUS
  <2> HIDE DEF S
  <2> QED BY <2>1, <2>2, Smallest
<1>3. b \in Nat /\ n < Power(2, b + 1)
  BY <1>2
<1>4. Power(2, b) <= n
  <2>1. CASE b = 0
    BY <2>1, PowerIs
  <2>2. CASE b # 0
    <3>1. b - 1 \in Nat /\ (b - 1) + 1 = b /\ ~ (b <= b - 1)
      BY <1>3, <2>2
    <3>2. b - 1 \notin S
      BY <1>2, <3>1
    <3>3. ~ (n < Power(2, b))
      BY <3>1, <3>2
    <3>4. Power(2, b) \in Nat
      BY <1>3, PowersOf2
    <3> QED BY <3>3, <3>4
  <2> QED BY <2>1, <2>2
<1>5. b \in 0 .. n
  <2>1. Power(2, b) \in Nat /\ b < Power(2, b)
    BY <1>1, <1>3, PowersOf2
  <2> QED BY <1>3, <1>4, <2>1
<1>6. Log2(n) \in 0 .. n /\ Power(2, Log2(n)) <= n /\ n < Power(2, Log2(n) + 1)
  BY <1>3, <1>4, <1>5, Zenon DEF Log2
<1> QED BY <1>6

\* The exponent is a number.
LEMMA ExponentIs ==
    ASSUME NEW v, v.n \in Nat, v.k \in Nat
    PROVE  Exponent(v) \in Int
<1> DEFINE b == IF v.n = 0 THEN 0 ELSE Log2(v.n)
           exp2 == IF v.n = 0 THEN -EXP_BIAS ELSE b - v.k
           f == IF v.n = 0 THEN 1 ELSE v.n
           p == Power(2, b)
           q == Power(2, b + 1)
           num == (1761 + exp2 * 3010) * q + 2895 * (2 * f - 3 * p)
           den == 10000 * q
<1>1. b \in Nat /\ f \in Int
  BY Log2Is
<1>2. p \in Int /\ q \in Nat \ {0}
  <2> HIDE DEF b
  <2>1. p \in Nat \ {0} /\ b + 1 \in Nat
    BY <1>1, PowerIs
  <2>2. q \in Nat \ {0}
    BY <2>1, PowerIs
  <2> QED BY <2>1, <2>2
<1> HIDE DEF p, q
<1>3. exp2 \in Int
  BY <1>1, FloatAssumption
<1>4. Estimate(v) = IF num < 0 THEN -((-num) \div den) ELSE num \div den
  BY DEF Estimate, p, q
<1> HIDE DEF b, exp2, f
<1>5. num \in Int /\ den \in Nat \ {0}
  <2>1. (1761 + exp2 * 3010) * q \in Int
    BY <1>2, <1>3
  <2> QED BY <1>1, <1>2, <2>1
<1> HIDE DEF num, den
<1>6. Estimate(v) \in Int
  <2>1. \A m \in Int : m \div den \in Int
    BY <1>5
  <2>2. -num \in Int
    BY <1>5
  <2>3. num \div den \in Int /\ (-num) \div den \in Int
    BY <1>5, <2>1, <2>2
  <2> DEFINE x == num \div den
             y == (-num) \div den
  <2>4. Estimate(v) = x \/ Estimate(v) = -y
    BY <1>4
  <2> HIDE DEF x, y
  <2>5. x \in Int /\ y \in Int
    BY <2>3 DEF x, y
  <2> QED BY <2>4, <2>5
<1>7. \A e \in Int : Corrected(v, e) \in Int
  <2> SUFFICES ASSUME NEW e \in Int
               PROVE  Corrected(v, e) \in Int
    OBVIOUS
  <2>1. Corrected(v, e) = e \/ Corrected(v, e) = e - 1
    BY Zenon DEF Corrected
  <2> QED BY <2>1
<1> QED BY <1>6, <1>7 DEF Exponent

LEMMA FloatPrecisionIs ==
    ASSUME NEW c, c.precision \in Nat \cup {NONE}
    PROVE  FloatPrecision(c) \in Nat
BY FloatAssumption DEF FloatPrecision

LEMMA PlacesAre ==
    ASSUME NEW c, c.precision \in Nat \cup {NONE}, c.arg.n \in Nat, c.arg.k \in Nat
    PROVE  /\ FallbackPrecision(c, Exponent(c.arg)) \in Nat
           /\ Places(c) \in Nat
<1>1. FallbackPrecision(c, Exponent(c.arg)) \in Nat
  <2> DEFINE e == Exponent(c.arg)
             p == FloatPrecision(c)
  <2>1. e \in Int /\ p \in Nat
    BY ExponentIs, FloatPrecisionIs
  <2>2. FallbackPrecision(c, e) = IF p > e THEN p - e - 1 ELSE 0
    BY DEF FallbackPrecision
  <2> HIDE DEF e, p
  <2>3. FallbackPrecision(c, e) \in Nat
    BY <2>1, <2>2
  <2> QED BY <2>3 DEF e
<1> QED BY <1>1, FloatPrecisionIs DEF Places

\* The buffer of _ftoa is one, whatever the number.
LEMMA FixedBufferIs ==
    ASSUME NEW halves, NEW prec \in Nat, NEW asked \in Nat, prec <= asked
    PROVE  IsSeq(FixedBuffer(halves, prec, asked))
<1> DEFINE digits == DigitsOf(halves.frac, 10, FTOA_BUFFER, DigitChars)
           count == IF Len(digits) <= prec THEN prec - Len(digits) ELSE FTOA_BUFFER
           point == digits \o Times("0", count) \o <<".">>
           after == IF prec = 0 THEN << >> ELSE point
           whole == DigitsOf(halves.whole, 10, FTOA_BUFFER, DigitChars)
           zeros == Times("0", asked - prec)
<1>1. FixedBuffer(halves, prec, asked) = Fit(zeros \o after \o whole, FTOA_BUFFER)
  BY DEF FixedBuffer
<1>2. FTOA_BUFFER \in Nat \ {0}
  BY FloatAssumption
<1>3. IsSeq(digits) /\ IsSeq(whole)
  <2>1. IsSeq(digits)
    BY <1>2, SomeDigits
  <2>2. IsSeq(whole)
    BY <1>2, SomeDigits
  <2> QED BY <2>1, <2>2
<1> HIDE DEF digits, whole
<1>4. IsSeq(zeros)
  <2>1. asked - prec \in Nat
    OBVIOUS
  <2> QED BY <2>1, TimesIs
<1> HIDE DEF zeros
<1>5. count \in Nat
  BY <1>2, <1>3 DEF IsSeq
<1> HIDE DEF count
<1>6. IsSeq(after)
  <2>1. IsSeq(Times("0", count))
    BY <1>5, TimesIs
  <2>2. IsSeq(digits \o Times("0", count))
    BY <1>3, <2>1, Concat
  <2>3. IsSeq(<<".">>) /\ IsSeq(<< >>)
    BY DEF IsSeq
  <2>4. IsSeq(point)
    BY <2>2, <2>3, Concat
  <2> HIDE DEF point
  <2> QED BY <2>3, <2>4
<1> HIDE DEF after
<1>7. IsSeq(zeros \o after)
  BY <1>4, <1>6, Concat
<1>8. IsSeq(zeros \o after \o whole)
  BY <1>3, <1>7, Concat
<1> QED BY <1>1, <1>2, <1>8, FitIs

LEMMA FixedIs ==
    ASSUME NEW v, NEW asked \in Nat, NEW width \in Int, NEW flags
    PROVE  IsSeq(Fixed(v, asked, width, flags))
<1> DEFINE prec == Least(asked, MAX_PRECISION)
           negative == v.negative /\ v.n # 0
           buf == FixedBuffer(Halves(v, prec), prec, asked)
           w == WidthLeft(flags, width, negative)
           n == IF Zeroed(flags) THEN w ELSE 0
           padded == Fill(buf, n, FTOA_BUFFER)
           signed == WithSign(flags, negative, padded, FTOA_BUFFER)
<1>1. Fixed(v, asked, width, flags) = _out_rev(flags, w, signed)
  BY Zenon DEF Fixed, FixedText
<1>2. FTOA_BUFFER \in Nat /\ prec \in Nat /\ prec <= asked
  BY FloatAssumption DEF Least
<1> HIDE DEF prec, negative
<1>3. IsSeq(buf)
  BY <1>2, FixedBufferIs
<1>4. w \in Int /\ n \in Int
  BY DEF WidthLeft
<1> HIDE DEF buf, w, n
<1>5. IsSeq(padded)
  BY <1>2, <1>3, <1>4, FilledIs
<1> HIDE DEF padded
<1>6. IsSeq(signed)
  BY <1>2, <1>5, SignedIs
<1> HIDE DEF signed
<1> QED BY <1>1, <1>4, <1>6, OutRevIs

LEMMA SpecialIs ==
    ASSUME NEW v, NEW width \in Int, NEW flags
    PROVE  IsSeq(Special(v, width, flags))
<1> DEFINE sign == IF v.negative THEN <<"-">> ELSE IF "+" \in flags THEN <<"+">> ELSE << >>
           inf == <<"f", "n", "i">> \o sign
           buf == IF v.class = "nan" THEN <<"n", "a", "n">> ELSE inf
<1>1. Special(v, width, flags) = _out_rev(flags, width, buf)
  BY DEF Special
<1>2. IsSeq(<<"-">>) /\ IsSeq(<<"+">>) /\ IsSeq(<< >>)
  BY DEF IsSeq
<1>3. IsSeq(<<"f", "n", "i">>) /\ IsSeq(<<"n", "a", "n">>)
  <2>1. \A x, y, z : <<x, y, z>> = [k \in 1 .. 3 |-> <<x, y, z>>[k]] /\ Len(<<x, y, z>>) = 3
    OBVIOUS
  <2> QED BY <2>1 DEF IsSeq
<1>4. IsSeq(sign)
  BY <1>2
<1> HIDE DEF sign
<1>5. IsSeq(inf)
  BY <1>3, <1>4, Concat
<1> HIDE DEF inf
<1>6. IsSeq(buf)
  BY <1>3, <1>5
<1> HIDE DEF buf
<1> QED BY <1>1, <1>6, OutRevIs

LEMMA ExponentialIs ==
    ASSUME NEW c, c.width \in Nat, c.precision \in Nat \cup {NONE}, NEW e
    PROVE  IsSeq(Exponential(c, e))
<1> DEFINE minwidth == MinWidth(e)
           fwidth == FloatWidth(c, e)
           asked == ScaledPrecision(c)
           exponent == [flags |-> {"0", "+"}, width |-> minwidth - 1, precision |-> NONE,
                        length |-> "l", spec |-> "d", arg |-> e]
           letter == IF c.spec \in {"E", "F", "G"} THEN "E" ELSE "e"
           number == Fixed(Scaled(c.arg, e), asked, fwidth, c.flags)
<1>1. Exponential(c, e) = number \o <<letter>> \o _ntoa(exponent)
  BY Zenon DEF Exponential
<1>2. minwidth \in {4, 5}
  BY DEF MinWidth
<1>3. asked \in Nat
  BY FloatPrecisionIs DEF ScaledPrecision, NONE
<1> HIDE DEF minwidth, asked
<1>4. fwidth \in Int
  BY <1>2 DEF FloatWidth, minwidth
<1> HIDE DEF fwidth
<1>5. IsSeq(number)
  BY <1>3, <1>4, FixedIs
<1> HIDE DEF number, letter
<1>6. IsSeq(<<letter>>)
  BY DEF IsSeq
<1>7. IsSeq(number \o <<letter>>)
  BY <1>5, <1>6, Concat
<1>8. IsSeq(_ntoa(exponent))
  <2>1. /\ exponent.spec \in IntegerSpecs /\ exponent.width \in Nat
        /\ exponent.precision \in Nat \cup {NONE}
    BY <1>2 DEF IntegerSpecs
  <2> HIDE DEF exponent
  <2> QED BY <2>1, IntegerTextIs
<1> HIDE DEF exponent
<1> QED BY <1>1, <1>7, <1>8, Concat

\* Every conversion of a floating-point number gives a text.
LEMMA FloatTextIs ==
    ASSUME NEW c, c.width \in Nat, c.precision \in Nat \cup {NONE},
           c.arg.n \in Nat, c.arg.k \in Nat
    PROVE  IsSeq(FloatText(c))
<1> DEFINE e == Exponent(c.arg)
           special == Special(c.arg, c.width, c.flags)
           fixed == Fixed(c.arg, FloatPrecision(c), c.width, c.flags)
           back == Fixed(c.arg, FallbackPrecision(c, e), c.width, c.flags)
           scaled == Justified(c, Exponential(c, e))
<1>1. FloatText(c) = IF c.arg.class # "finite" THEN special
                     ELSE IF PrintsFixed(c) THEN fixed
                     ELSE IF FallsBack(c) THEN back ELSE scaled
  BY Zenon DEF FloatText, _etoa, EtoaWith
<1>2. c.width \in Int
  OBVIOUS
<1>3. IsSeq(special)
  BY <1>2, SpecialIs
<1>4. IsSeq(fixed)
  BY <1>2, FixedIs, FloatPrecisionIs
<1>5. IsSeq(back)
  BY <1>2, FixedIs, PlacesAre
<1>6. IsSeq(scaled)
  <2>1. IsSeq(Exponential(c, e))
    BY ExponentialIs
  <2>2. IsSeq(Padded(c, Exponential(c, e)))
    BY <1>2, <2>1, PaddedIs
  <2> QED BY <2>1, <2>2 DEF Justified
<1> HIDE DEF special, fixed, back, scaled
<1> QED BY <1>1, <1>3, <1>4, <1>5, <1>6

LEMMA TextIs ==
    ASSUME ArgumentsFit, NEW c \in Current
    PROVE  IsSeq(Text(c))
<1>1. /\ c.width \in Nat /\ c.precision \in Nat \cup {NONE}
      /\ c.spec \in IntegerSpecs => c.arg \in Int
      /\ c.spec \in FloatSpecs => c.arg.n \in Nat /\ c.arg.k \in Nat
      /\ c.spec = "s" => IsSeq(c.arg)
  BY Zenon DEF ArgumentsFit
<1>2. CASE c.spec \in IntegerSpecs
  BY <1>1, <1>2, IntegerTextIs, TextOfIntegers
<1>3. CASE c.spec \in FloatSpecs
  <2>1. Text(c) = FloatText(c)
    BY <1>3 DEF Text, IntegerSpecs, FloatSpecs
  <2> QED BY <1>1, <1>3, <2>1, FloatTextIs
<1>4. CASE c.spec = "c"
  <2>1. Text(c) = Padded(c, <<c.arg>>)
    BY <1>4 DEF Text, IntegerSpecs, FloatSpecs
  <2>2. IsSeq(<<c.arg>>)
    BY DEF IsSeq
  <2> QED BY <1>1, <2>1, <2>2, PaddedIs
<1>5. CASE c.spec = "s"
  <2> DEFINE shown == IF c.precision = NONE THEN c.arg ELSE Fit(c.arg, c.precision)
  <2>1. Text(c) = Padded(c, shown)
    BY <1>5 DEF Text, IntegerSpecs, FloatSpecs, StringText
  <2>2. IsSeq(shown)
    BY <1>1, <1>5, FitIs
  <2> HIDE DEF shown
  <2> QED BY <1>1, <2>1, <2>2, PaddedIs
<1>6. CASE c.spec \notin IntegerSpecs \cup FloatSpecs \cup {"c", "s"}
  <2>1. Text(c) = <<c.spec>>
    BY <1>6, Zenon DEF Text
  <2> QED BY <2>1 DEF IsSeq
<1> QED BY <1>2, <1>3, <1>4, <1>5, <1>6

-----------------------------------------------------------------------------
(***************************************************************************)
(* What putchar is given: a text is sent without its zeros, and two texts one *)
(* after the other as if they were one.                                    *)
(***************************************************************************)
\* The turns of _out_char: g[k] is what has been sent of k characters.
Turn(text, g, k) ==
    IF k = 0 THEN << >>
    ELSE IF text[k] = NUL THEN g[k - 1] ELSE g[k - 1] \o <<text[k]>>
Sends(text, g) == g = [k \in 0 .. Len(text) |-> Turn(text, g, k)]

\* There is one way to send a text.
LEMMA SendsSome ==
    ASSUME NEW text, Len(text) \in Nat
    PROVE  \E g : Sends(text, g)
<1> DEFINE L == Len(text)
           Up(g, n) == g = [k \in 0 .. n |-> Turn(text, g, k)]
           T == {n \in Nat : \E g : Up(g, n)}
<1>1. 0 \in T
  <2> DEFINE g == [k \in 0 .. 0 |-> << >>]
  <2>1. \A k \in 0 .. 0 : g[k] = Turn(text, g, k)
    BY DEF Turn
  <2>2. g = [k \in 0 .. 0 |-> g[k]]
    OBVIOUS
  <2> HIDE DEF g
  <2>3. Up(g, 0)
    BY <2>1, <2>2
  <2> QED BY <2>3
<1>2. ASSUME NEW n \in Nat, n \in T
      PROVE  n + 1 \in T
  <2>1. PICK g : Up(g, n)
    BY <1>2
  <2>2. \A k \in 0 .. n : g[k] = Turn(text, g, k)
    BY <2>1, Zenon
  <2> DEFINE h == [k \in 0 .. n + 1 |->
                      IF k = n + 1 THEN Turn(text, g, n + 1) ELSE g[k]]
  <2>3. \A k \in 0 .. n : h[k] = g[k]
    <3>1. \A k \in 0 .. n : k \in 0 .. n + 1 /\ k # n + 1
      BY <1>2
    <3> QED BY <3>1
  <2>4. h[n + 1] = Turn(text, g, n + 1)
    BY <1>2
  <2>5. h = [k \in 0 .. n + 1 |-> h[k]]
    OBVIOUS
  <2> HIDE DEF h
  <2>6. ASSUME NEW k \in 0 .. n + 1
        PROVE  h[k] = Turn(text, h, k)
    <3>1. k = 0 \/ k - 1 \in 0 .. n
      OBVIOUS
    <3>2. Turn(text, h, k) = Turn(text, g, k)
      BY <2>3, <3>1, Zenon DEF Turn
    <3>3. k \in 0 .. n \/ k = n + 1
      OBVIOUS
    <3> QED BY <2>2, <2>3, <2>4, <3>2, <3>3
  <2>7. Up(h, n + 1)
    BY <2>5, <2>6
  <2> QED BY <1>2, <2>7
<1> HIDE DEF T
<1>3. L \in T
  BY <1>1, <1>2, Induction
<1> QED BY <1>3 DEF T, Sends

LEMMA Sent ==
    ASSUME NEW text, Len(text) \in Nat
    PROVE  \E g : /\ WithoutZeros(text) = g[Len(text)]
                  /\ \A k \in 0 .. Len(text) : g[k] = Turn(text, g, k)
<1> DEFINE g == CHOOSE f : f = [k \in 0 .. Len(text) |->
                             IF k = 0 THEN << >>
                             ELSE IF text[k] = NUL THEN f[k - 1] ELSE f[k - 1] \o <<text[k]>>]
<1>1. WithoutZeros(text) = g[Len(text)]
  BY DEF WithoutZeros
<1>2. g = [k \in 0 .. Len(text) |->
             IF k = 0 THEN << >>
             ELSE IF text[k] = NUL THEN g[k - 1] ELSE g[k - 1] \o <<text[k]>>]
  BY SendsSome, Zenon DEF Sends, Turn
<1> HIDE DEF g
<1>3. \A k \in 0 .. Len(text) : g[k] = Turn(text, g, k)
  BY <1>2, Zenon DEF Turn
<1> QED BY <1>1, <1>3

\* What f has sent of two texts, if it has come to character k of the second.
Continues(f, sent, m, h, k) == f[m + k] = sent \o h[k] /\ IsSeq(h[k])

LEMMA SentConcat ==
    ASSUME NEW s, NEW t, IsSeq(s), IsSeq(t)
    PROVE  WithoutZeros(s \o t) = WithoutZeros(s) \o WithoutZeros(t)
<1> DEFINE st == s \o t
           m == Len(s)
           n == Len(t)
<1>0. m \in Nat /\ n \in Nat
  BY DEF IsSeq
<1>1. /\ IsSeq(st) /\ Len(st) = m + n
      /\ \A k \in 1 .. m : st[k] = s[k]
      /\ \A k \in m + 1 .. m + n : st[k] = t[k - m]
  BY Concat
<1> HIDE DEF st
<1>2. PICK g : WithoutZeros(s) = g[m] /\ \A k \in 0 .. m : g[k] = Turn(s, g, k)
  BY <1>0, Sent
<1>3. PICK h : WithoutZeros(t) = h[n] /\ \A k \in 0 .. n : h[k] = Turn(t, h, k)
  BY <1>0, Sent
<1>4. PICK f : WithoutZeros(st) = f[m + n] /\ \A k \in 0 .. m + n : f[k] = Turn(st, f, k)
  BY <1>0, <1>1, Sent
<1> HIDE DEF m, n
<1>5. \A k \in 0 .. m : f[k] = g[k] /\ IsSeq(g[k])
  <2> DEFINE T == {k \in Nat : k <= m => f[k] = g[k] /\ IsSeq(g[k])}
  <2>1. 0 \in T
    <3>1. f[0] = << >> /\ g[0] = << >> /\ IsSeq(<< >>)
      <4>1. 0 \in 0 .. m /\ 0 \in 0 .. m + n
        BY <1>0
      <4>2. f[0] = Turn(st, f, 0) /\ g[0] = Turn(s, g, 0)
        BY <1>2, <1>4, <4>1
      <4>3. IsSeq(<< >>)
        BY DEF IsSeq
      <4> QED BY <4>2, <4>3, Zenon DEF Turn
    <3> QED BY <3>1
  <2>2. ASSUME NEW k \in Nat, k \in T
        PROVE  k + 1 \in T
    <3> SUFFICES ASSUME k + 1 <= m
                 PROVE  f[k + 1] = g[k + 1] /\ IsSeq(g[k + 1])
      OBVIOUS
    <3>1. /\ k + 1 \in 1 .. m /\ k + 1 \in 0 .. m /\ k + 1 \in 0 .. m + n
          /\ k + 1 # 0 /\ (k + 1) - 1 = k /\ k <= m
      BY <1>0
    <3>2. f[k] = g[k] /\ IsSeq(g[k])
      BY <2>2, <3>1
    <3>3. st[k + 1] = s[k + 1]
      BY <1>1, <3>1
    <3>4. /\ f[k + 1] = IF st[k + 1] = NUL THEN f[k] ELSE f[k] \o <<st[k + 1]>>
          /\ g[k + 1] = IF s[k + 1] = NUL THEN g[k] ELSE g[k] \o <<s[k + 1]>>
      BY <1>2, <1>4, <3>1 DEF Turn
    <3>5. IsSeq(g[k] \o <<s[k + 1]>>)
      <4>1. IsSeq(<<s[k + 1]>>)
        BY DEF IsSeq
      <4> QED BY <3>2, <4>1, Concat
    <3> QED BY <3>2, <3>3, <3>4, <3>5
  <2>3. Nat \subseteq T
    <3> HIDE DEF T
    <3> QED BY <2>1, <2>2, Induction
  <2> QED BY <1>0, <2>3
<1>6. \A k \in 0 .. n : Continues(f, g[m], m, h, k)
  <2> DEFINE T == {k \in Nat : k <= n => Continues(f, g[m], m, h, k)}
  <2>0. IsSeq(g[m]) /\ f[m] = g[m]
    BY <1>0, <1>5
  <2>1. 0 \in T
    <3>1. h[0] = << >> /\ IsSeq(<< >>)
      <4>1. 0 \in 0 .. n
        BY <1>0
      <4>2. h[0] = Turn(t, h, 0)
        BY <1>3, <4>1
      <4>3. IsSeq(<< >>)
        BY DEF IsSeq
      <4> QED BY <4>2, <4>3, Zenon DEF Turn
    <3>2. g[m] \o << >> = g[m]
      BY <2>0, ConcatEmpty
    <3>3. m + 0 = m
      BY <1>0
    <3>4. Continues(f, g[m], m, h, 0)
      BY <2>0, <3>1, <3>2, <3>3 DEF Continues
    <3> QED BY <3>4
  <2>2. ASSUME NEW k \in Nat, k \in T
        PROVE  k + 1 \in T
    <3> SUFFICES ASSUME k + 1 <= n
                 PROVE  Continues(f, g[m], m, h, k + 1)
      OBVIOUS
    <3>1. /\ k + 1 \in 0 .. n /\ k + 1 # 0 /\ (k + 1) - 1 = k /\ k <= n
          /\ m + (k + 1) \in m + 1 .. m + n /\ m + (k + 1) \in 0 .. m + n
          /\ m + (k + 1) # 0 /\ (m + (k + 1)) - 1 = m + k /\ (m + (k + 1)) - m = k + 1
      BY <1>0
    <3>2. f[m + k] = g[m] \o h[k] /\ IsSeq(h[k])
      BY <2>2, <3>1 DEF Continues
    <3>3. st[m + (k + 1)] = t[k + 1]
      BY <1>1, <3>1
    <3>4. /\ f[m + (k + 1)] = IF t[k + 1] = NUL THEN f[m + k] ELSE f[m + k] \o <<t[k + 1]>>
          /\ h[k + 1] = IF t[k + 1] = NUL THEN h[k] ELSE h[k] \o <<t[k + 1]>>
      BY <1>3, <1>4, <3>1, <3>3 DEF Turn
    <3>5. /\ IsSeq(h[k] \o <<t[k + 1]>>)
          /\ (g[m] \o h[k]) \o <<t[k + 1]>> = g[m] \o (h[k] \o <<t[k + 1]>>)
      <4>1. IsSeq(<<t[k + 1]>>)
        BY DEF IsSeq
      <4>2. IsSeq(h[k] \o <<t[k + 1]>>)
        BY <3>2, <4>1, Concat
      <4>3. (g[m] \o h[k]) \o <<t[k + 1]>> = g[m] \o (h[k] \o <<t[k + 1]>>)
        <5> DEFINE x == g[m]
                   y == h[k]
                   z == <<t[k + 1]>>
        <5>1. IsSeq(x) /\ IsSeq(y) /\ IsSeq(z)
          BY <2>0, <3>2, <4>1
        <5> HIDE DEF x, y, z
        <5>2. (x \o y) \o z = x \o (y \o z)
          BY <5>1, JoinAssociative
        <5> QED BY <5>2 DEF x, y, z
      <4> QED BY <4>2, <4>3
    <3> QED BY <3>2, <3>4, <3>5, Zenon DEF Continues
  <2>3. Nat \subseteq T
    <3> HIDE DEF T
    <3> QED BY <2>1, <2>2, Induction
  <2> QED BY <1>0, <2>3
<1>7. n \in 0 .. n
  BY <1>0
<1>8. WithoutZeros(st) = WithoutZeros(s) \o WithoutZeros(t)
  BY <1>2, <1>3, <1>4, <1>6, <1>7 DEF Continues
<1> QED BY <1>8 DEF st

LEMMA NothingSent ==
    /\ WithoutZeros(<< >>) = << >>
    /\ WithoutZeros(<<NUL>>) = << >>
<1>1. WithoutZeros(<< >>) = << >>
  <2>1. Len(<< >>) = 0 /\ 0 \in 0 .. 0
    OBVIOUS
  <2>2. PICK g : WithoutZeros(<< >>) = g[0] /\ \A k \in 0 .. 0 : g[k] = Turn(<< >>, g, k)
    BY <2>1, Sent
  <2> QED BY <2>1, <2>2 DEF Turn
<1>2. WithoutZeros(<<NUL>>) = << >>
  <2>1. Len(<<NUL>>) = 1 /\ <<NUL>>[1] = NUL /\ 0 \in 0 .. 1 /\ 1 \in 0 .. 1 /\ 1 - 1 = 0
    OBVIOUS
  <2>2. PICK g : WithoutZeros(<<NUL>>) = g[1] /\ \A k \in 0 .. 1 : g[k] = Turn(<<NUL>>, g, k)
    BY <2>1, Sent
  <2>3. g[0] = << >> /\ g[1] = g[0]
    BY <2>1, <2>2 DEF Turn
  <2> QED BY <2>2, <2>3
<1> QED BY <1>1, <1>2

-----------------------------------------------------------------------------
(***************************************************************************)
(* The buffer.                                                             *)
(***************************************************************************)
LastCell == (IF call.out = "buffer" THEN call.count ELSE 0) + BEHIND - 1

\* What a place in the buffer has before it is terminated, and after.
Stored(at) == IF at < Len(full) THEN full[at + 1] ELSE Untouched
Terminated(at) ==
    IF at = Len(full) \/ (at = call.count - 1 /\ at < Len(full)) THEN NUL ELSE Stored(at)

BufferInv ==
    /\ call.count \in Nat
    /\ IsSeq(full) /\ idx = Len(full)
    /\ DOMAIN memory = 0 .. LastCell /\ memory = [at \in 0 .. LastCell |-> memory[at]]
    /\ \A at \in 0 .. LastCell : at >= call.count => memory[at] = Untouched
    /\ ret # NONE => format = << >> /\ ret = Len(full)
    /\ call.out = "buffer" =>
          \A at \in 0 .. call.count - 1 :
             memory[at] = IF ret = NONE THEN Stored(at) ELSE Terminated(at)
    /\ call.out = "char" => stream = WithoutZeros(full)

\* Every conversion gives a text.
LEMMA InitBuffer == Init => BufferInv
<1> SUFFICES ASSUME Init PROVE BufferInv
  OBVIOUS
<1>1. call.count \in Nat
  BY CallsAssumption DEF Init
<1>2. IsSeq(full) /\ Len(full) = 0 /\ idx = 0 /\ ret = NONE /\ stream = << >> /\ full = << >>
  BY DEF Init, IsSeq
<1>3. memory = [at \in 0 .. LastCell |-> Untouched]
  BY DEF Init, LastCell
<1>4. LastCell \in Int /\ (call.out = "buffer" => \A at \in 0 .. call.count - 1 : at \in 0 .. LastCell)
  BY <1>1 DEF LastCell, BEHIND
<1>5. /\ DOMAIN memory = 0 .. LastCell /\ memory = [at \in 0 .. LastCell |-> memory[at]]
      /\ \A at \in 0 .. LastCell : memory[at] = Untouched
  BY <1>3
<1>6. call.out = "buffer" => \A at \in 0 .. call.count - 1 : memory[at] = Stored(at)
  BY <1>1, <1>2, <1>4, <1>5 DEF Stored
<1>7. stream = WithoutZeros(full)
  BY <1>2, NothingSent
<1> QED BY <1>1, <1>2, <1>5, <1>6, <1>7, Zenon DEF BufferInv

\* Output, for a text that goes to the buffer behind what it has.
LEMMA OutputKeeps ==
    ASSUME BufferInv, NEW text, IsSeq(text), Output(text), ret = NONE
    PROVE  BufferInv'
<1> DEFINE n == Len(full)
           len == Len(text)
<1>1. /\ call.count \in Nat /\ IsSeq(full) /\ idx = n /\ n \in Nat /\ len \in Nat
      /\ DOMAIN memory = 0 .. LastCell
  BY DEF BufferInv, IsSeq
<1>2. /\ memory' = [at \in 0 .. LastCell |->
                      IF InBuffer(at) /\ at \in n .. n + len - 1
                      THEN text[at - n + 1] ELSE memory[at]]
      /\ stream' = stream \o Streamed(text) /\ idx' = n + len /\ full' = full \o text
      /\ call' = call /\ ret' = ret
  BY <1>1 DEF Output
<1>3. LastCell' = LastCell /\ LastCell \in Int
      /\ (call.out = "buffer" => \A at \in 0 .. call.count - 1 : at \in 0 .. LastCell)
  BY <1>1, <1>2 DEF LastCell, BEHIND
<1>4. /\ IsSeq(full') /\ Len(full') = n + len
      /\ \A k \in 1 .. n : full'[k] = full[k]
      /\ \A k \in n + 1 .. n + len : full'[k] = text[k - n]
  BY <1>1, <1>2, Concat
<1>5. /\ DOMAIN memory' = 0 .. LastCell
      /\ memory' = [at \in 0 .. LastCell |-> memory'[at]]
      /\ \A at \in 0 .. LastCell :
            memory'[at] = IF InBuffer(at) /\ at \in n .. n + len - 1
                          THEN text[at - n + 1] ELSE memory[at]
  BY <1>2
<1> HIDE DEF n, len
<1>6. ASSUME NEW at \in 0 .. LastCell, at >= call.count
      PROVE  memory'[at] = Untouched
  <2>1. ~ InBuffer(at)
    BY <1>1, <1>3, <1>6 DEF InBuffer
  <2> QED BY <1>5, <1>6, <2>1 DEF BufferInv
<1>7. ASSUME call.out = "buffer", NEW at \in 0 .. call.count - 1
      PROVE  memory'[at] = IF at < n + len THEN full'[at + 1] ELSE Untouched
  <2>1. at \in 0 .. LastCell /\ InBuffer(at) /\ at \in Int
    BY <1>1, <1>3, <1>7 DEF InBuffer
  <2>2. memory[at] = IF at < n THEN full[at + 1] ELSE Untouched
    BY <1>7 DEF BufferInv, Stored, n
  <2>3. CASE at < n
    <3>1. at \notin n .. n + len - 1 /\ at + 1 \in 1 .. n /\ at < n + len
      BY <1>1, <1>7, <2>3
    <3> QED BY <1>4, <1>5, <2>1, <2>2, <2>3, <3>1
  <2>4. CASE at >= n /\ at < n + len
    <3>1. /\ at \in n .. n + len - 1 /\ at + 1 \in n + 1 .. n + len
          /\ (at + 1) - n = at - n + 1
      BY <1>1, <1>7, <2>4
    <3>2. memory'[at] = text[at - n + 1]
      BY <1>5, <2>1, <3>1
    <3>3. full'[at + 1] = text[at - n + 1]
      BY <1>4, <3>1
    <3> QED BY <2>4, <3>2, <3>3
  <2>5. CASE at >= n + len
    <3>1. at \notin n .. n + len - 1 /\ ~ (at < n) /\ ~ (at < n + len)
      BY <1>1, <1>7, <2>5
    <3> QED BY <1>5, <2>1, <2>2, <3>1
  <2> QED BY <1>1, <2>1, <2>3, <2>4, <2>5
<1>8. call.out = "char" => stream' = WithoutZeros(full')
  <2> SUFFICES ASSUME call.out = "char" PROVE stream' = WithoutZeros(full')
    OBVIOUS
  <2>1. stream = WithoutZeros(full) /\ Streamed(text) = WithoutZeros(text)
    BY DEF BufferInv, Streamed
  <2>2. WithoutZeros(full \o text) = WithoutZeros(full) \o WithoutZeros(text)
    BY <1>1, SentConcat
  <2> QED BY <1>2, <2>1, <2>2
<1>9. WithoutZeros(full)' = WithoutZeros(full')
  BY DEF WithoutZeros
<1>10. /\ (call.count \in Nat)' /\ IsSeq(full)' /\ (idx = Len(full))'
       /\ (DOMAIN memory = 0 .. LastCell /\ memory = [at \in 0 .. LastCell |-> memory[at]])'
       /\ (\A at \in 0 .. LastCell : at >= call.count => memory[at] = Untouched)'
  BY <1>1, <1>2, <1>3, <1>4, <1>5, <1>6 DEF IsSeq
<1>11. (ret # NONE => format = << >> /\ ret = Len(full))'
  BY <1>2
<1>12. (call.out = "buffer" =>
          \A at \in 0 .. call.count - 1 :
             memory[at] = IF ret = NONE THEN Stored(at) ELSE Terminated(at))'
  BY <1>2, <1>4, <1>7 DEF Stored
<1>13. (call.out = "char" => stream = WithoutZeros(full))'
  BY <1>2, <1>8, <1>9
<1> QED BY <1>10, <1>11, <1>12, <1>13, Zenon DEF BufferInv

\* The terminating zero is stored in the last place or behind the text.
LEMMA TerminateKeeps ==
    ASSUME BufferInv, Terminate
    PROVE  BufferInv'
<1> DEFINE n == Len(full)
<1>1. /\ call.count \in Nat /\ IsSeq(full) /\ idx = n /\ n \in Nat
      /\ DOMAIN memory = 0 .. LastCell
  BY DEF BufferInv, IsSeq
<1>2. /\ memory' = [at \in 0 .. LastCell |->
                      IF InBuffer(at) /\ at = LastIndex THEN NUL ELSE memory[at]]
      /\ stream' = stream \o Streamed(<<NUL>>) /\ ret' = n /\ ret = NONE /\ format = << >>
      /\ call' = call /\ idx' = idx /\ full' = full /\ format' = format
  BY <1>1 DEF Terminate
<1>3. LastCell' = LastCell /\ LastCell \in Int
      /\ (call.out = "buffer" => \A at \in 0 .. call.count - 1 : at \in 0 .. LastCell)
  BY <1>1, <1>2 DEF LastCell, BEHIND
<1>4. /\ DOMAIN memory' = 0 .. LastCell
      /\ memory' = [at \in 0 .. LastCell |-> memory'[at]]
      /\ \A at \in 0 .. LastCell :
            memory'[at] = IF InBuffer(at) /\ at = LastIndex THEN NUL ELSE memory[at]
  BY <1>2
<1> HIDE DEF n
<1>5. ASSUME NEW at \in 0 .. LastCell, at >= call.count
      PROVE  memory'[at] = Untouched
  <2>1. ~ InBuffer(at)
    BY <1>1, <1>3, <1>5 DEF InBuffer
  <2> QED BY <1>4, <1>5, <2>1 DEF BufferInv
<1>6. ASSUME call.out = "buffer", NEW at \in 0 .. call.count - 1
      PROVE  memory'[at] = Terminated(at)
  <2>1. at \in 0 .. LastCell /\ InBuffer(at) /\ at \in Int
    BY <1>1, <1>3, <1>6 DEF InBuffer
  <2>2. memory[at] = Stored(at)
    BY <1>2, <1>6 DEF BufferInv
  <2>3. at = LastIndex <=> at = n \/ (at = call.count - 1 /\ at < n)
    BY <1>1, <1>6 DEF LastIndex
  <2> QED BY <1>4, <2>1, <2>2, <2>3, Zenon DEF Terminated, n
<1>7. call.out = "char" => stream' = stream
  <2> SUFFICES ASSUME call.out = "char" PROVE stream' = stream
    OBVIOUS
  <2>1. Streamed(<<NUL>>) = << >>
    BY NothingSent DEF Streamed
  <2>2. /\ stream = WithoutZeros(full) \o WithoutZeros(<< >>)
        /\ stream = WithoutZeros(full)
    <3>1. IsSeq(<< >>) /\ full \o << >> = full
      BY <1>1, ConcatEmpty
    <3>2. WithoutZeros(full \o << >>) = WithoutZeros(full) \o WithoutZeros(<< >>)
      BY <1>1, <3>1, SentConcat
    <3> QED BY <3>1, <3>2 DEF BufferInv
  <2> QED BY <1>2, <2>1, <2>2, NothingSent
<1>8. WithoutZeros(full)' = WithoutZeros(full)
  BY <1>2 DEF WithoutZeros
<1>9. /\ (call.count \in Nat)' /\ IsSeq(full)' /\ (idx = Len(full))'
      /\ (DOMAIN memory = 0 .. LastCell /\ memory = [at \in 0 .. LastCell |-> memory[at]])'
      /\ (\A at \in 0 .. LastCell : at >= call.count => memory[at] = Untouched)'
  BY <1>1, <1>2, <1>3, <1>4, <1>5 DEF IsSeq, n
<1>10. (ret # NONE => format = << >> /\ ret = Len(full))'
  BY <1>2 DEF n
<1>11. (call.out = "buffer" =>
          \A at \in 0 .. call.count - 1 :
             memory[at] = IF ret = NONE THEN Stored(at) ELSE Terminated(at))'
  <2>1. ret' # NONE
    BY <1>1, <1>2 DEF NONE
  <2> QED BY <1>2, <1>6, <2>1 DEF Terminated, Stored
<1>12. (call.out = "char" => stream = WithoutZeros(full))'
  BY <1>2, <1>7, <1>8 DEF BufferInv
<1> QED BY <1>9, <1>10, <1>11, <1>12, Zenon DEF BufferInv

LEMMA NextBuffer == BufferInv /\ ArgumentsFit /\ [Next]_vars => BufferInv'
<1> SUFFICES ASSUME BufferInv, ArgumentsFit, [Next]_vars PROVE BufferInv'
  OBVIOUS
<1>1. CASE Copy
  <2>1. IsSeq(<<Head(format)>>)
    BY DEF IsSeq
  <2>2. ret = NONE
    BY <1>1 DEF Copy, BufferInv
  <2> QED BY <1>1, <2>1, <2>2, OutputKeeps DEF Copy
<1>2. CASE Convert
  <2> DEFINE c == Conversion(Tail(format), args)
  <2>1. format # << >> /\ Head(format) = "%" /\ Output(Text(c))
    BY <1>2, Zenon DEF Convert
  <2>2. c \in Current
    BY <2>1, Zenon DEF Current
  <2> HIDE DEF c
  <2>3. IsSeq(Text(c))
    BY <2>2, TextIs
  <2>4. ret = NONE
    BY <2>1 DEF BufferInv
  <2> QED BY <2>1, <2>3, <2>4, OutputKeeps, Zenon
<1>3. CASE Terminate
  BY <1>3, TerminateKeeps
<1>4. CASE UNCHANGED vars
  <2>1. /\ call' = call /\ format' = format /\ memory' = memory /\ stream' = stream
        /\ idx' = idx /\ ret' = ret /\ full' = full
    BY <1>4 DEF vars
  <2>2. LastCell' = LastCell
    BY <2>1 DEF LastCell
  <2>3. WithoutZeros(full)' = WithoutZeros(full)
    BY <2>1 DEF WithoutZeros
  <2>4. /\ (call.count \in Nat)' /\ IsSeq(full)' /\ (idx = Len(full))'
        /\ (DOMAIN memory = 0 .. LastCell /\ memory = [at \in 0 .. LastCell |-> memory[at]])'
        /\ (\A at \in 0 .. LastCell : at >= call.count => memory[at] = Untouched)'
    BY <2>1, <2>2 DEF BufferInv, IsSeq
  <2>5. (ret # NONE => format = << >> /\ ret = Len(full))'
    BY <2>1 DEF BufferInv
  <2>6. (call.out = "buffer" =>
            \A at \in 0 .. call.count - 1 :
               memory[at] = IF ret = NONE THEN Stored(at) ELSE Terminated(at))'
    <3>1. call.out = "buffer" =>
            \A at \in 0 .. call.count - 1 :
               memory[at] = IF ret = NONE THEN Stored(at) ELSE Terminated(at)
      BY Zenon DEF BufferInv
    <3> QED BY <2>1, <3>1 DEF Stored, Terminated
  <2>7. (call.out = "char" => stream = WithoutZeros(full))'
    BY <2>1, <2>3 DEF BufferInv
  <2> QED BY <2>4, <2>5, <2>6, <2>7, Zenon DEF BufferInv
<1> QED BY <1>1, <1>2, <1>3, <1>4, Zenon DEF Next

\* For buffers of every size: what does not fit is counted but not stored, the
\* terminating zero is behind the text or in the last place, nothing is stored
\* behind the buffer, and printf sends all of the text but its zeros
\* (_out_buffer, _out_char, _vsnprintf).
THEOREM BuffersKept == Spec /\ []ArgumentsFit => []Bounded
<1>1. BufferInv => Bounded
  <2> SUFFICES ASSUME BufferInv PROVE Bounded
    OBVIOUS
  <2>1. \A at \in DOMAIN memory : at >= call.count => memory[at] = Untouched
    BY Zenon DEF BufferInv
  <2>2. ASSUME ret # NONE
        PROVE  /\ ret = Len(full)
               /\ call.out = "buffer" => \A at \in 0 .. call.count - 1 : memory[at] = Terminated(at)
               /\ call.out = "char" => stream = WithoutZeros(full)
    BY <2>2, Zenon DEF BufferInv
  <2> QED BY <2>1, <2>2, Zenon DEF Bounded, Terminated, Stored
<1> QED BY <1>1, InitBuffer, NextBuffer, PTL DEF Spec

-----------------------------------------------------------------------------
(***************************************************************************)
(* The parser: what Leading, Field and LengthField find in a conversion of    *)
(* C's grammar, one part after the other (Parses).                         *)
(***************************************************************************)
LEMMA DigitsKnown ==
    /\ DigitSet = {"0", "1", "2", "3", "4", "5", "6", "7", "8", "9"}
    /\ \A x \in DigitSet : DigitValue(x) \in 0 .. 9
<1>1. DigitSet = {"0", "1", "2", "3", "4", "5", "6", "7", "8", "9"}
  <2> DEFINE D == DigitChars
  <2>1. /\ D[1] = "0" /\ D[2] = "1" /\ D[3] = "2" /\ D[4] = "3" /\ D[5] = "4" /\ D[6] = "5"
        /\ D[7] = "6" /\ D[8] = "7" /\ D[9] = "8" /\ D[10] = "9"
    BY DEF DigitChars
  <2>2. 1 .. 10 = {1, 2, 3, 4, 5, 6, 7, 8, 9, 10}
    OBVIOUS
  <2>3. DigitSet = {D[d] : d \in {1, 2, 3, 4, 5, 6, 7, 8, 9, 10}}
    BY <2>2 DEF DigitSet
  <2> HIDE DEF D
  <2> QED BY <2>1, <2>3
<1>2. ASSUME NEW x \in DigitSet
      PROVE  DigitValue(x) \in 0 .. 9
  <2>1. PICK d \in 1 .. 10 : x = DigitChars[d]
    BY DEF DigitSet
  <2>2. d - 1 \in 0 .. 9 /\ DigitChars[(d - 1) + 1] = x
    BY <2>1
  <2> QED BY <2>2, Zenon DEF DigitValue
<1> QED BY <1>1, <1>2

LEMMA DropIs ==
    ASSUME NEW s \in Seq(STRING), NEW n \in 0 .. Len(s)
    PROVE  /\ Drop(s, n) \in Seq(STRING) /\ Len(Drop(s, n)) = Len(s) - n
           /\ \A k \in 1 .. Len(s) - n : Drop(s, n)[k] = s[n + k]
           /\ Before(s, n) \in Seq(STRING) /\ Len(Before(s, n)) = n
           /\ \A k \in 1 .. n : Before(s, n)[k] = s[k]
<1>1. Len(s) \in Nat
  BY LenProperties
<1>2. /\ Drop(s, n) \in Seq(STRING) /\ Len(Drop(s, n)) = Len(s) - n
      /\ \A k \in 1 .. Len(s) - n : Drop(s, n)[k] = s[n + k]
  <2>1. n + 1 \in 1 .. Len(s) + 1 /\ Len(s) \in n .. Len(s)
    BY <1>1
  <2> QED BY <1>1, <2>1, SubSeqProperties DEF Drop
<1>3. /\ Before(s, n) \in Seq(STRING) /\ Len(Before(s, n)) = n
      /\ \A k \in 1 .. n : Before(s, n)[k] = s[k]
  <2>1. 1 \in 1 .. Len(s) + 1 /\ n \in 0 .. Len(s)
    BY <1>1
  <2> QED BY <1>1, <2>1, SubSeqProperties DEF Before
<1> QED BY <1>2, <1>3

LEMMA DropType ==
    ASSUME NEW s \in Seq(STRING), NEW n \in Nat
    PROVE  Drop(s, n) \in Seq(STRING)
<1>1. Len(s) \in Nat
  BY LenProperties
<1>2. CASE n <= Len(s)
  <2>1. n \in 0 .. Len(s)
    BY <1>1, <1>2
  <2> QED BY <2>1, DropIs
<1>3. CASE n > Len(s)
  BY <1>1, <1>3 DEF Drop
<1> QED BY <1>1, <1>2, <1>3

\* The part of a sequence that Leading finds ends where it can.
LEMMA LeadingIs ==
    ASSUME NEW s \in Seq(STRING), NEW chars, NEW n \in 0 .. Len(s),
           \A k \in 1 .. n : s[k] \in chars,
           n = Len(s) \/ s[n + 1] \notin chars
    PROVE  Leading(s, chars) = n
<1>1. Len(s) \in Nat
  BY LenProperties
<1>2. ASSUME NEW m \in 0 .. Len(s), \A k \in 1 .. m : s[k] \in chars,
             m = Len(s) \/ s[m + 1] \notin chars
      PROVE  m = n
  <2>1. CASE m < n
    <3>1. m + 1 \in 1 .. n /\ m # Len(s)
      BY <1>1, <2>1
    <3> QED BY <1>2, <3>1
  <2>2. CASE n < m
    <3>1. n + 1 \in 1 .. m /\ n # Len(s)
      BY <1>1, <2>2
    <3> QED BY <1>2, <3>1
  <2> QED BY <1>1, <2>1, <2>2
<1> QED BY <1>2, Zenon DEF Leading

LEMMA LeadingType ==
    ASSUME NEW s \in Seq(STRING), NEW chars
    PROVE  Leading(s, chars) \in 0 .. Len(s)
<1>1. Len(s) \in Nat
  BY LenProperties
<1> DEFINE B == {n \in Nat : n = Len(s) \/ s[n + 1] \notin chars}
<1>2. PICK n \in B : \A m \in B : n <= m
  <2>1. Len(s) \in B /\ B \in SUBSET Nat
    BY <1>1
  <2> HIDE DEF B
  <2> QED BY <2>1, Smallest
<1>3. n \in 0 .. Len(s)
  BY <1>1, <1>2
<1>4. ASSUME NEW k \in 1 .. n
      PROVE  s[k] \in chars
  <2>1. k - 1 \in Nat /\ (k - 1) + 1 = k /\ ~ (n <= k - 1)
    BY <1>3
  <2>2. k - 1 \notin B
    BY <1>2, <2>1
  <2> QED BY <2>1, <2>2
<1>5. Leading(s, chars) = n
  BY <1>2, <1>3, <1>4, LeadingIs
<1> QED BY <1>3, <1>5
\* A turn of _atoi, or of Decimal, which does not wrap around: g[k] is the number
\* that k digits give.
Digit(wraps, digits, g, k) ==
    IF k = 0 THEN 0
    ELSE IF wraps THEN (10 * g[k - 1] + DigitValue(digits[k])) % Power(2, INT_BITS)
    ELSE 10 * g[k - 1] + DigitValue(digits[k])
Reads(wraps, digits, g) == g = [k \in 0 .. Len(digits) |-> Digit(wraps, digits, g, k)]

LEMMA ReadsSome ==
    ASSUME NEW wraps, NEW digits, Len(digits) \in Nat
    PROVE  \E g : Reads(wraps, digits, g)
<1> DEFINE L == Len(digits)
           Up(g, n) == g = [k \in 0 .. n |-> Digit(wraps, digits, g, k)]
           T == {n \in Nat : \E g : Up(g, n)}
<1>1. 0 \in T
  <2> DEFINE g == [k \in 0 .. 0 |-> 0]
  <2>1. \A k \in 0 .. 0 : g[k] = Digit(wraps, digits, g, k)
    BY DEF Digit
  <2>2. g = [k \in 0 .. 0 |-> g[k]]
    OBVIOUS
  <2> HIDE DEF g
  <2>3. Up(g, 0)
    BY <2>1, <2>2
  <2> QED BY <2>3
<1>2. ASSUME NEW n \in Nat, n \in T
      PROVE  n + 1 \in T
  <2>1. PICK g : Up(g, n)
    BY <1>2
  <2>2. \A k \in 0 .. n : g[k] = Digit(wraps, digits, g, k)
    BY <2>1, Zenon
  <2> DEFINE h == [k \in 0 .. n + 1 |->
                      IF k = n + 1 THEN Digit(wraps, digits, g, n + 1) ELSE g[k]]
  <2>3. \A k \in 0 .. n : h[k] = g[k]
    <3>1. \A k \in 0 .. n : k \in 0 .. n + 1 /\ k # n + 1
      BY <1>2
    <3> QED BY <3>1
  <2>4. h[n + 1] = Digit(wraps, digits, g, n + 1)
    BY <1>2
  <2>5. h = [k \in 0 .. n + 1 |-> h[k]]
    OBVIOUS
  <2> HIDE DEF h
  <2>6. ASSUME NEW k \in 0 .. n + 1
        PROVE  h[k] = Digit(wraps, digits, h, k)
    <3>1. k = 0 \/ k - 1 \in 0 .. n
      OBVIOUS
    <3>2. Digit(wraps, digits, h, k) = Digit(wraps, digits, g, k)
      BY <2>3, <3>1, Zenon DEF Digit
    <3>3. k \in 0 .. n \/ k = n + 1
      OBVIOUS
    <3> QED BY <2>2, <2>3, <2>4, <3>2, <3>3
  <2>7. Up(h, n + 1)
    BY <2>5, <2>6
  <2> QED BY <1>2, <2>7
<1> HIDE DEF T
<1>3. L \in T
  BY <1>1, <1>2, Induction
<1> QED BY <1>3 DEF T, Reads

LEMMA NumbersRead ==
    ASSUME NEW digits, Len(digits) \in Nat
    PROVE  /\ \E g : /\ _atoi(digits) = g[Len(digits)]
                     /\ \A k \in 0 .. Len(digits) : g[k] = Digit(TRUE, digits, g, k)
           /\ \E g : /\ Decimal(digits) = g[Len(digits)]
                     /\ \A k \in 0 .. Len(digits) : g[k] = Digit(FALSE, digits, g, k)
<1>1. \E g : /\ _atoi(digits) = g[Len(digits)]
             /\ \A k \in 0 .. Len(digits) : g[k] = Digit(TRUE, digits, g, k)
  <2> DEFINE g == CHOOSE f : f = [k \in 0 .. Len(digits) |->
                    IF k = 0 THEN 0
                    ELSE (10 * f[k - 1] + DigitValue(digits[k])) % Power(2, INT_BITS)]
  <2>1. _atoi(digits) = g[Len(digits)]
    BY DEF _atoi
  <2>2. g = [k \in 0 .. Len(digits) |->
                    IF k = 0 THEN 0
                    ELSE (10 * g[k - 1] + DigitValue(digits[k])) % Power(2, INT_BITS)]
    <3>1. PICK f : Reads(TRUE, digits, f)
      BY ReadsSome
    <3>2. f = [k \in 0 .. Len(digits) |->
                    IF k = 0 THEN 0
                    ELSE (10 * f[k - 1] + DigitValue(digits[k])) % Power(2, INT_BITS)]
      BY <3>1 DEF Reads, Digit
    <3> QED BY <3>2, Zenon
  <2> HIDE DEF g
  <2>3. \A k \in 0 .. Len(digits) : g[k] = Digit(TRUE, digits, g, k)
    BY <2>2, Zenon DEF Digit
  <2> QED BY <2>1, <2>3
<1>2. \E g : /\ Decimal(digits) = g[Len(digits)]
             /\ \A k \in 0 .. Len(digits) : g[k] = Digit(FALSE, digits, g, k)
  <2> DEFINE g == CHOOSE f : f = [k \in 0 .. Len(digits) |->
                    IF k = 0 THEN 0 ELSE 10 * f[k - 1] + DigitValue(digits[k])]
  <2>1. Decimal(digits) = g[Len(digits)]
    BY DEF Decimal
  <2>2. g = [k \in 0 .. Len(digits) |->
                    IF k = 0 THEN 0 ELSE 10 * g[k - 1] + DigitValue(digits[k])]
    <3>1. PICK f : Reads(FALSE, digits, f)
      BY ReadsSome
    <3>2. f = [k \in 0 .. Len(digits) |->
                    IF k = 0 THEN 0 ELSE 10 * f[k - 1] + DigitValue(digits[k])]
      BY <3>1 DEF Reads, Digit
    <3> QED BY <3>2, Zenon
  <2> HIDE DEF g
  <2>3. \A k \in 0 .. Len(digits) : g[k] = Digit(FALSE, digits, g, k)
    BY <2>2, Zenon DEF Digit
  <2> QED BY <2>1, <2>3
<1> QED BY <1>1, <1>2

LEMMA Wraps ==
    ASSUME NEW v \in Nat, NEW d \in Nat, NEW m \in Nat \ {0}
    PROVE  (10 * (v % m) + d) % m = (10 * v + d) % m /\ 0 % m = 0
<1>1. \A a \in Int, q \in Int : (a + q * m) % m = a % m
  <2> SUFFICES ASSUME NEW a \in Int, NEW q \in Int
               PROVE  (a + q * m) % m = a % m
    OBVIOUS
  <2> DEFINE r == a % m
             p == a \div m
  <2>1. a = m * p + r /\ r \in 0 .. m - 1 /\ p \in Int
    OBVIOUS
  <2> HIDE DEF r, p
  <2> DEFINE r2 == (a + q * m) % m
             p2 == (a + q * m) \div m
  <2>2. a + q * m = m * p2 + r2 /\ r2 \in 0 .. m - 1 /\ p2 \in Int
    OBVIOUS
  <2> HIDE DEF r2, p2
  <2> DEFINE z == p2 - (p + q)
  <2>3. m * z = r - r2 /\ z \in Int /\ r \in Int /\ r2 \in Int
    BY <2>1, <2>2
  <2>4. z = 0
    <3> HIDE DEF z
    <3>1. CASE z >= 1
      <4>1. m * z >= m
        BY <2>3, <3>1
      <4> QED BY <2>1, <2>2, <2>3, <4>1
    <3>2. CASE z <= -1
      <4>1. m * z <= -m
        BY <2>3, <3>2
      <4> QED BY <2>1, <2>2, <2>3, <4>1
    <3> QED BY <2>3, <3>1, <3>2
  <2>5. r = r2
    <3> HIDE DEF z
    <3> QED BY <2>3, <2>4
  <2> QED BY <2>5 DEF r, r2
<1> DEFINE q == v \div m
           r == v % m
<1>2. v = m * q + r /\ r \in Int /\ q \in Int
  OBVIOUS
<1> HIDE DEF q, r
<1>3. (10 * r + d) + (10 * q) * m = 10 * v + d
  BY <1>2
<1>4. ((10 * r + d) + (10 * q) * m) % m = (10 * r + d) % m
  <2>1. 10 * r + d \in Int /\ 10 * q \in Int
    BY <1>2
  <2> QED BY <1>1, <2>1
<1>5. 0 % m = 0
  OBVIOUS
<1> QED BY <1>3, <1>4, <1>5 DEF r

\* _atoi reads a number as it is written, modulo the range of an int.
LEMMA AtoiReads ==
    ASSUME NEW digits, Len(digits) \in Nat, \A k \in 1 .. Len(digits) : digits[k] \in DigitSet
    PROVE  /\ _atoi(digits) = Decimal(digits) % Power(2, INT_BITS)
           /\ Decimal(digits) \in Nat
<1> DEFINE m == Power(2, INT_BITS)
           L == Len(digits)
<1>0. m \in Nat \ {0}
  BY TypesAssumption, PowerIs
<1> HIDE DEF m
<1>1. PICK g : /\ _atoi(digits) = g[L]
               /\ \A k \in 0 .. L : g[k] = Digit(TRUE, digits, g, k)
  BY NumbersRead
<1>2. PICK h : /\ Decimal(digits) = h[L]
               /\ \A k \in 0 .. L : h[k] = Digit(FALSE, digits, h, k)
  BY NumbersRead
<1> DEFINE T == {n \in Nat : n <= L => h[n] \in Nat /\ g[n] = h[n] % m}
<1>3. 0 \in T
  <2>1. 0 \in 0 .. L
    OBVIOUS
  <2>2. g[0] = 0 /\ h[0] = 0
    BY <1>1, <1>2, <2>1, Zenon DEF Digit
  <2> QED BY <1>0, <2>2, Wraps
<1>4. ASSUME NEW n \in Nat, n \in T
      PROVE  n + 1 \in T
  <2> SUFFICES ASSUME n + 1 <= L
               PROVE  h[n + 1] \in Nat /\ g[n + 1] = h[n + 1] % m
    OBVIOUS
  <2>1. n + 1 \in 0 .. L /\ n + 1 \in 1 .. L /\ (n + 1) - 1 = n /\ n <= L /\ n + 1 # 0
    BY <1>4
  <2>2. h[n] \in Nat /\ g[n] = h[n] % m
    BY <1>4, <2>1
  <2> DEFINE d == DigitValue(digits[n + 1])
  <2>3. g[n + 1] = (10 * g[n] + d) % m
    <3>1. g[n + 1] = Digit(TRUE, digits, g, n + 1)
      BY <1>1, <2>1
    <3> QED BY <2>1, <3>1 DEF Digit, m
  <2>4. h[n + 1] = 10 * h[n] + d
    <3>1. h[n + 1] = Digit(FALSE, digits, h, n + 1)
      BY <1>2, <2>1
    <3> QED BY <2>1, <3>1 DEF Digit
  <2>5. d \in Nat
    BY <2>1, DigitsKnown
  <2> HIDE DEF d
  <2>6. (10 * (h[n] % m) + d) % m = (10 * h[n] + d) % m
    BY <1>0, <2>2, <2>5, Wraps
  <2> QED BY <2>2, <2>3, <2>4, <2>5, <2>6
<1> HIDE DEF T
<1>5. L \in T
  BY <1>3, <1>4, Induction
<1> QED BY <1>1, <1>2, <1>5 DEF T, m
\* A number at the beginning of s, or a *, is read to its end.
LEMMA FieldIs ==
    ASSUME NEW s \in Seq(STRING), NEW arguments, NEW n \in 0 .. Len(s), n < Len(s),
           IsNumber(Before(s, n)), s[n + 1] \notin DigitSet \cup {"*"}
    PROVE  LET t == Before(s, n)
           IN  Field(s, arguments) = [value |-> NumberOf(t, arguments), rest |-> Drop(s, n),
                                      args |-> Behind(t, arguments)]
<1> DEFINE t == Before(s, n)
<1>1. /\ t \in Seq(STRING) /\ Len(t) = n /\ Len(s) \in Nat
      /\ \A k \in 1 .. n : t[k] = s[k]
  BY DropIs, LenProperties
<1>2. t = SubSeq(s, 1, n)
  BY DEF Before
<1> DEFINE i == Leading(s, DigitSet)
<1>3. Field(s, arguments) =
        IF i > 0
        THEN [value |-> _atoi(SubSeq(s, 1, i)), rest |-> Drop(s, i), args |-> arguments]
        ELSE IF s[1] = "*"
        THEN [value |-> Head(arguments), rest |-> Drop(s, 1), args |-> Tail(arguments)]
        ELSE [value |-> 0, rest |-> s, args |-> arguments]
  BY DEF Field
<1>4. CASE t = <<"*">>
  <2>1. n = 1 /\ s[1] = "*"
    BY <1>1, <1>4
  <2>2. 0 \in 0 .. Len(s) /\ s[0 + 1] \notin DigitSet
    BY <1>1, <2>1, DigitsKnown
  <2>3. i = 0
    BY <2>2, LeadingIs
  <2> HIDE DEF i, t
  <2>4. Field(s, arguments) = [value |-> Head(arguments), rest |-> Drop(s, 1), args |-> Tail(arguments)]
    BY <1>3, <2>1, <2>3
  <2>5. NumberOf(t, arguments) = Head(arguments) /\ Behind(t, arguments) = Tail(arguments)
    BY <1>4 DEF NumberOf, Behind
  <2> QED BY <2>1, <2>4, <2>5 DEF t
<1>5. CASE t # <<"*">>
  <2>1. \A k \in 1 .. Len(t) : t[k] \in DigitSet
    BY <1>5 DEF IsNumber
  <2>2. i = n
    <3>1. \A k \in 1 .. n : s[k] \in DigitSet
      BY <1>1, <2>1
    <3> QED BY <3>1, LeadingIs
  <2> HIDE DEF i, t
  <2>3. _atoi(t) = Decimal(t) % Power(2, INT_BITS)
    BY <1>1, <2>1, AtoiReads
  <2>4. NumberOf(t, arguments) = Decimal(t) % Power(2, INT_BITS) /\ Behind(t, arguments) = arguments
    BY <1>5 DEF NumberOf, Behind
  <2>5. CASE n > 0
    BY <1>2, <1>3, <2>2, <2>3, <2>4, <2>5 DEF t
  <2>6. CASE n = 0
    <3>1. s[1] # "*"
      BY <2>6
    <3>2. Field(s, arguments) = [value |-> 0, rest |-> s, args |-> arguments]
      BY <1>3, <2>2, <2>6, <3>1
    <3>3. Drop(s, 0) = s
      <4>1. /\ Drop(s, 0) \in Seq(STRING) /\ Len(Drop(s, 0)) = Len(s)
            /\ \A k \in 1 .. Len(s) : Drop(s, 0)[k] = s[k]
        BY <1>1, DropIs
      <4> QED BY <4>1, SeqEqual
    <3>4. Decimal(t) % Power(2, INT_BITS) = 0
      <4>1. _atoi(t) = 0
        <5>1. PICK g : /\ _atoi(t) = g[Len(t)]
                       /\ \A k \in 0 .. Len(t) : g[k] = Digit(TRUE, t, g, k)
          <6>1. Len(t) \in Nat
            BY <1>1
          <6> QED BY <6>1, NumbersRead
        <5>2. Len(t) = 0 /\ 0 \in 0 .. Len(t)
          BY <1>1, <2>6
        <5> QED BY <5>1, <5>2, Zenon DEF Digit
      <4> QED BY <2>3, <4>1
    <3> QED BY <2>4, <2>6, <3>2, <3>3, <3>4 DEF t
  <2> QED BY <2>5, <2>6
<1> QED BY <1>4, <1>5 DEF t

PrefixOf(l, s) == Len(l) <= Len(s) /\ \A k \in 1 .. Len(l) : l[k] = s[k]

LEMMA LengthKinds ==
    ASSUME NEW l \in Lengths
    PROVE  /\ \/ l = << >> \/ l = <<"h", "h">> \/ l = <<"l", "l">>
              \/ l = <<"h">> \/ l = <<"l">> \/ l = <<"t">> \/ l = <<"j">> \/ l = <<"z">>
           /\ IsSeq(l) /\ Len(l) \in {0, 1, 2}
<1>1. IsSeq(<< >>) /\ Len(<< >>) = 0
  BY DEF IsSeq
<1>2. ASSUME NEW x
      PROVE  IsSeq(<<x>>) /\ Len(<<x>>) = 1
  BY DEF IsSeq
<1>3. ASSUME NEW x, NEW y
      PROVE  IsSeq(<<x, y>>) /\ Len(<<x, y>>) = 2
  <2>1. <<x, y>> = [k \in 1 .. 2 |-> <<x, y>>[k]] /\ Len(<<x, y>>) = 2
    OBVIOUS
  <2> QED BY <2>1 DEF IsSeq
<1>4. \/ l = << >> \/ l = <<"h", "h">> \/ l = <<"l", "l">>
      \/ l = <<"h">> \/ l = <<"l">> \/ l = <<"t">> \/ l = <<"j">> \/ l = <<"z">>
  BY Zenon DEF Lengths
<1>5. IsSeq(l) /\ Len(l) \in {0, 1, 2}
  BY <1>1, <1>2, <1>3, <1>4
<1> QED BY <1>4, <1>5

LEMMA SameStart ==
    ASSUME NEW s, IsSeq(s), NEW n \in 0 .. Len(s)
    PROVE  /\ IsSeq(SubSeq(s, 1, n)) /\ Len(SubSeq(s, 1, n)) = n
           /\ \A k \in 1 .. n : SubSeq(s, 1, n)[k] = s[k]
<1> DEFINE S == {s[k] : k \in 1 .. Len(s)}
           t == SubSeq(s, 1, n)
<1>1. Len(s) \in Nat
  BY DEF IsSeq
<1>2. s \in Seq(S)
  <2>1. s \in [1 .. Len(s) -> S]
    BY DEF IsSeq
  <2> HIDE DEF S
  <2> QED BY <1>1, <2>1, SeqDef
<1> HIDE DEF S
<1>3. Len(t) = n /\ \A k \in 1 .. n : t[k] = s[k]
  <2>1. 1 \in 1 .. Len(s) + 1 /\ n \in 0 .. Len(s)
    BY <1>1
  <2> QED BY <1>1, <1>2, <2>1, SubSeqProperties
<1>4. IsSeq(t)
  BY BeginningIs
<1> QED BY <1>3, <1>4

\* s begins with l.
Begins(s, l) == Len(l) <= Len(s) /\ \A k \in 1 .. Len(l) : l[k] = s[k]

LEMMA PrefixMeans ==
    ASSUME NEW s \in Seq(STRING), NEW l \in Lengths
    PROVE  IsPrefix(l, s) <=> Begins(s, l)
<1>1. IsSeq(l) /\ Len(l) \in Nat
  BY LengthKinds
<1>2. IsSeq(s) /\ Len(s) \in Nat
  BY LenProperties DEF IsSeq
<1>3. IsPrefix(l, s) <=> Len(l) <= Len(s) /\ SubSeq(l, 1, Len(l)) = SubSeq(s, 1, Len(l))
  BY DEF IsPrefix
<1>4. ASSUME Len(l) <= Len(s)
      PROVE  SubSeq(l, 1, Len(l)) = SubSeq(s, 1, Len(l))
                <=> \A k \in 1 .. Len(l) : l[k] = s[k]
  <2> DEFINE u == SubSeq(l, 1, Len(l))
             t == SubSeq(s, 1, Len(l))
  <2>1. IsSeq(u) /\ Len(u) = Len(l) /\ \A k \in 1 .. Len(l) : u[k] = l[k]
    BY <1>1, SameStart
  <2>2. IsSeq(t) /\ Len(t) = Len(l) /\ \A k \in 1 .. Len(l) : t[k] = s[k]
    BY <1>1, <1>2, <1>4, SameStart
  <2> HIDE DEF u, t
  <2>3. u = t <=> \A k \in 1 .. Len(l) : u[k] = t[k]
    BY <2>1, <2>2 DEF IsSeq
  <2>4. (\A k \in 1 .. Len(l) : u[k] = t[k]) <=> (\A k \in 1 .. Len(l) : l[k] = s[k])
    BY <2>1, <2>2
  <2> QED BY <2>3, <2>4 DEF u, t
<1> QED BY <1>3, <1>4, Zenon DEF Begins

Specs == IntegerSpecs \cup FloatSpecs \cup {"c", "s", "%"}

\* What a length and a specifier begin with is nothing else.
LEMMA NothingElse ==
    ASSUME NEW s \in Seq(STRING), NEW l \in LengthsOf(s)
    PROVE  /\ Len(s) > 0
           /\ s[1] \in {"h", "l", "t", "j", "z"} \cup Specs
           /\ s[1] \notin FlagChars \cup DigitSet \cup {"*", "."}
           /\ LengthField(s) = l
<1>1. l \in Lengths /\ Len(l) < Len(s) /\ Begins(s, l) /\ s[Len(l) + 1] \in Specs
  BY PrefixMeans DEF LengthsOf, Specs
<1>2. Len(s) \in Nat
  BY LenProperties
<1>3. \/ l = << >> /\ Len(l) = 0
      \/ l = <<"h", "h">> /\ Len(l) = 2 /\ l[1] = "h" /\ l[2] = "h"
      \/ l = <<"l", "l">> /\ Len(l) = 2 /\ l[1] = "l" /\ l[2] = "l"
      \/ \E x \in {"h", "l", "t", "j", "z"} : l = <<x>> /\ Len(l) = 1 /\ l[1] = x
  BY <1>1, LengthKinds
<1>4. \/ Len(l) = 0 /\ s[1] \in Specs
      \/ Len(l) > 0 /\ s[1] \in {"h", "l", "t", "j", "z"}
  <2>1. Len(l) > 0 => l[1] = s[1]
    BY <1>1, <1>3 DEF Begins
  <2> QED BY <1>1, <1>3, <2>1
<1>5. {"h", "l", "t", "j", "z"} \cap Specs = {}
  BY DEF Specs, IntegerSpecs, FloatSpecs
<1>6. ({"h", "l", "t", "j", "z"} \cup Specs) \cap (FlagChars \cup DigitSet \cup {"*", "."}) = {}
  BY DigitsKnown DEF Specs, IntegerSpecs, FloatSpecs, FlagChars
<1>7. ASSUME NEW o \in Lengths, Begins(s, o), o # l
      PROVE  Len(o) < Len(l)
  <2>1. \/ o = << >> /\ Len(o) = 0
        \/ o = <<"h", "h">> /\ Len(o) = 2 /\ o[1] = "h" /\ o[2] = "h"
        \/ o = <<"l", "l">> /\ Len(o) = 2 /\ o[1] = "l" /\ o[2] = "l"
        \/ \E x \in {"h", "l", "t", "j", "z"} : o = <<x>> /\ Len(o) = 1 /\ o[1] = x
    BY LengthKinds
  <2>2. Len(o) > 0 => o[1] = s[1]
    BY <1>7, <2>1 DEF Begins
  <2>3. Len(o) = 2 => o[2] = s[2]
    BY <1>7, <2>1 DEF Begins
  <2>4. Len(l) = 1 => s[2] \in Specs
    BY <1>1
  <2>5. Len(l) > 0 => l[1] = s[1]
    BY <1>1, <1>3 DEF Begins
  <2> HIDE DEF Specs
  <2> QED BY <1>3, <1>4, <1>5, <1>7, <2>1, <2>2, <2>3, <2>4, <2>5
<1>8. LengthField(s) = l
  <2>1. \A o \in Lengths : IsPrefix(o, s) => Len(o) <= Len(l)
    <3> SUFFICES ASSUME NEW o \in Lengths, IsPrefix(o, s)
                 PROVE  Len(o) <= Len(l)
      OBVIOUS
    <3>1. Len(o) \in Nat /\ Len(l) \in Nat /\ Begins(s, o)
      BY <1>1, LengthKinds, PrefixMeans
    <3> QED BY <1>7, <3>1
  <2>2. IsPrefix(l, s)
    BY <1>1, PrefixMeans
  <2>3. ASSUME NEW o \in Lengths, IsPrefix(o, s),
               \A other \in Lengths : IsPrefix(other, s) => Len(other) <= Len(o)
        PROVE  o = l
    <3>1. Len(o) \in Nat /\ Len(l) \in Nat /\ Begins(s, o) /\ Len(l) <= Len(o)
      BY <1>1, <2>2, <2>3, LengthKinds, PrefixMeans
    <3> QED BY <1>7, <3>1
  <2> QED BY <1>1, <2>1, <2>2, <2>3, Zenon DEF LengthField
<1> QED BY <1>1, <1>2, <1>4, <1>6, <1>8
\* A point and its digits, taken apart in either order.
LEMMA PointApart ==
    ASSUME NEW s \in Seq(STRING), NEW d \in 1 .. Len(s)
    PROVE  /\ Drop(Drop(s, 1), d - 1) = Drop(s, d)
           /\ Drop(Before(s, d), 1) = Before(Drop(s, 1), d - 1)
           /\ Before(s, d) # << >>
<1>1. Len(s) \in Nat /\ 1 \in 0 .. Len(s) /\ d \in 0 .. Len(s)
  BY LenProperties
<1> DEFINE t == Drop(s, 1)
           p == Before(s, d)
           rest == Drop(s, d)
<1>2. t \in Seq(STRING) /\ Len(t) = Len(s) - 1 /\ \A k \in 1 .. Len(s) - 1 : t[k] = s[1 + k]
  BY <1>1, DropIs
<1>3. /\ p \in Seq(STRING) /\ Len(p) = d /\ \A k \in 1 .. d : p[k] = s[k]
      /\ rest \in Seq(STRING) /\ Len(rest) = Len(s) - d
      /\ \A k \in 1 .. Len(s) - d : rest[k] = s[d + k]
  BY <1>1, DropIs
<1> HIDE DEF t, p, rest
<1> DEFINE u == Drop(t, d - 1)
           v == Before(t, d - 1)
           w == Drop(p, 1)
<1>4. /\ u \in Seq(STRING) /\ Len(u) = Len(s) - d
      /\ \A k \in 1 .. Len(s) - d : u[k] = t[(d - 1) + k]
      /\ v \in Seq(STRING) /\ Len(v) = d - 1 /\ \A k \in 1 .. d - 1 : v[k] = t[k]
  <2>1. d - 1 \in 0 .. Len(t) /\ Len(t) - (d - 1) = Len(s) - d
    BY <1>1, <1>2
  <2>2. /\ u \in Seq(STRING) /\ Len(u) = Len(t) - (d - 1)
        /\ \A k \in 1 .. Len(t) - (d - 1) : u[k] = t[(d - 1) + k]
        /\ v \in Seq(STRING) /\ Len(v) = d - 1 /\ \A k \in 1 .. d - 1 : v[k] = t[k]
    BY <1>2, <2>1, DropIs
  <2> HIDE DEF u, v
  <2> QED BY <2>1, <2>2
<1>5. w \in Seq(STRING) /\ Len(w) = d - 1 /\ \A k \in 1 .. d - 1 : w[k] = p[1 + k]
  <2>1. 1 \in 0 .. Len(p)
    BY <1>3
  <2> QED BY <1>3, <2>1, DropIs
<1> HIDE DEF u, v, w
<1>6. u = rest
  <2>1. ASSUME NEW k \in 1 .. Len(s) - d
        PROVE  u[k] = rest[k]
    <3>1. (d - 1) + k \in 1 .. Len(s) - 1 /\ 1 + ((d - 1) + k) = d + k
      BY <1>1
    <3>2. u[k] = t[(d - 1) + k] /\ rest[k] = s[d + k]
      BY <1>3, <1>4
    <3>3. t[(d - 1) + k] = s[1 + ((d - 1) + k)]
      BY <1>2, <3>1
    <3> QED BY <3>1, <3>2, <3>3
  <2> QED BY <1>3, <1>4, <2>1, SeqEqual
<1>7. w = v
  <2>1. ASSUME NEW k \in 1 .. d - 1
        PROVE  w[k] = v[k]
    <3>1. 1 + k \in 1 .. d /\ k \in 1 .. Len(s) - 1
      BY <1>1
    <3> QED BY <1>2, <1>3, <1>4, <1>5, <3>1
  <2> QED BY <1>4, <1>5, <2>1, SeqEqual
<1>8. p # << >>
  BY <1>3
<1> QED BY <1>6, <1>7, <1>8 DEF u, v, w, t, p, rest

\* Two conversions that differ in their precision.
LEMMA WithoutPrecision ==
    ASSUME NEW flags, NEW width, NEW p, NEW q, NEW length, NEW spec, NEW arg, NEW rest, NEW arguments
    PROVE  [flags |-> flags, width |-> width, precision |-> q, length |-> length, spec |-> spec,
            arg |-> arg, rest |-> rest, args |-> arguments]
              = [[flags |-> flags, width |-> width, precision |-> p, length |-> length,
                  spec |-> spec, arg |-> arg, rest |-> rest, args |-> arguments]
                    EXCEPT !.precision = q]
OBVIOUS

\* Every conversion of C's grammar is read as C means it, but for a negative
\* precision from the arguments.
LEMMA Parses ==
    ASSUME NEW s \in Seq(STRING), NEW arguments
    PROVE  ReadAsWritten(s, arguments)
<1> SUFFICES ASSUME NEW a \in FlagEnds(s), NEW b \in WidthEnds(Drop(s, a)),
                    NEW d \in PrecisionEnds(Drop(Drop(s, a), b)),
                    NEW l \in LengthsOf(Drop(Drop(Drop(s, a), b), d))
             PROVE  LET meant == Meaning(Before(s, a), Before(Drop(s, a), b),
                                         Before(Drop(Drop(s, a), b), d),
                                         l, Drop(Drop(Drop(s, a), b), d), arguments)
                    IN  Conversion(s, arguments) =
                          IF TakenForZero(Before(Drop(Drop(s, a), b), d),
                                          Behind(Before(Drop(s, a), b), arguments))
                          THEN [meant EXCEPT !.precision = 0] ELSE meant
  BY Zenon DEF ReadAsWritten
<1> DEFINE s1 == Drop(s, a)
           s2 == Drop(s1, b)
           s3 == Drop(s2, d)
           width == Before(s1, b)
           precision == Before(s2, d)
           flags == Before(s, a)
<1>1. /\ Len(s) \in Nat /\ a \in 0 .. Len(s) /\ \A k \in 1 .. a : s[k] \in FlagChars
  BY LenProperties DEF FlagEnds
<1>2. /\ s1 \in Seq(STRING) /\ Len(s1) = Len(s) - a /\ \A k \in 1 .. Len(s) - a : s1[k] = s[a + k]
      /\ Len(flags) = a /\ \A k \in 1 .. a : flags[k] = s[k]
  BY <1>1, DropIs
<1>3. b \in 0 .. Len(s1) /\ IsNumber(width) /\ (b > 0 => s1[1] # "0")
  BY DEF WidthEnds
<1> HIDE DEF s1, flags
<1>4. /\ s2 \in Seq(STRING) /\ Len(s2) = Len(s1) - b /\ \A k \in 1 .. Len(s1) - b : s2[k] = s1[b + k]
      /\ Len(width) = b /\ \A k \in 1 .. b : width[k] = s1[k]
  BY <1>2, <1>3, DropIs
<1>5. /\ d \in 0 .. Len(s2)
      /\ d > 0 => s2[1] = "." /\ IsNumber(Before(Drop(s2, 1), d - 1))
  BY DEF PrecisionEnds, s1
<1> HIDE DEF s2, width
<1>6. /\ s3 \in Seq(STRING) /\ Len(s3) = Len(s2) - d /\ \A k \in 1 .. Len(s2) - d : s3[k] = s2[d + k]
      /\ Len(precision) = d
  BY <1>4, <1>5, DropIs
<1>7. l \in LengthsOf(s3)
  BY DEF s1, s2
<1> HIDE DEF s3, precision
<1>8. /\ Len(s3) > 0
      /\ s3[1] \notin FlagChars \cup DigitSet \cup {"*", "."}
      /\ LengthField(s3) = l
  BY <1>6, <1>7, NothingElse
\* The character behind the width, and the one behind the flags.
<1>9. /\ Len(s2) > 0 /\ s2[1] \notin FlagChars \cup DigitSet \cup {"*"}
      /\ s2[1] = "." <=> d > 0
      /\ s2[d + 1] = s3[1] /\ d < Len(s2)
  <2>1. s2[d + 1] = s3[1] /\ d < Len(s2) /\ d \in Nat /\ Len(s2) \in Nat
    BY <1>2, <1>3, <1>4, <1>5, <1>6, <1>8, LenProperties
  <2>2. "." \notin FlagChars \cup DigitSet \cup {"*"}
    BY DigitsKnown DEF FlagChars
  <2>3. CASE d = 0
    BY <1>8, <2>1, <2>3
  <2>4. CASE d > 0
    BY <1>5, <2>1, <2>2, <2>4
  <2> QED BY <2>1, <2>3, <2>4
<1>10. s1[b + 1] = s2[1] /\ b < Len(s1) /\ b \in Nat /\ Len(s1) \in Nat
  BY <1>2, <1>3, <1>4, <1>9, LenProperties
<1>11. s1[1] \notin FlagChars
  <2>1. CASE b = 0
    BY <1>9, <1>10, <2>1
  <2>2. CASE b > 0
    <3>1. s1[1] = "*" \/ s1[1] \in DigitSet
      <4>1. 1 \in 1 .. b
        BY <1>10, <2>2
      <4>2. width[1] = s1[1] /\ 1 \in 1 .. Len(width)
        BY <1>4, <4>1
      <4> QED BY <1>3, <4>2 DEF IsNumber
    <3> QED BY <1>3, <2>2, <3>1, DigitsKnown DEF FlagChars
  <2> QED BY <1>10, <2>1, <2>2
\* The three fields.
<1>12. Leading(s, FlagChars) = a
  <2>1. s[a + 1] = s1[1]
    BY <1>1, <1>2, <1>10
  <2> QED BY <1>1, <1>11, <2>1, LeadingIs
<1>13. {s[k] : k \in 1 .. a} = {flags[k] : k \in 1 .. Len(flags)}
  BY <1>2
<1> DEFINE w == NumberOf(width, arguments)
           behind == Behind(width, arguments)
           f == [value |-> w, rest |-> s2, args |-> behind]
<1>14. Field(s1, arguments) = f
  <2>1. s1[b + 1] \notin DigitSet \cup {"*"}
    BY <1>9, <1>10
  <2>2. IsNumber(Before(s1, b))
    BY <1>3 DEF width
  <2>3. Field(s1, arguments) = [value |-> NumberOf(Before(s1, b), arguments), rest |-> Drop(s1, b),
                                args |-> Behind(Before(s1, b), arguments)]
    <3>1. s1 \in Seq(STRING) /\ b \in 0 .. Len(s1) /\ b < Len(s1)
      BY <1>2, <1>3, <1>10
    <3> QED BY <2>1, <2>2, <3>1, FieldIs, Zenon
  <2> QED BY <2>3, Zenon DEF width, s2
<1> DEFINE set == {s[k] : k \in 1 .. a}
<1>15. Conversion(s, arguments) = WithWidth(set, f)
  BY <1>12, <1>14, Zenon DEF Conversion, s1
<1> HIDE DEF w, behind
<1>16. f.value = w /\ f.rest = s2 /\ f.args = behind
  OBVIOUS
<1> HIDE DEF f, set
<1> DEFINE digits == Drop(precision, 1)
           p == NumberOf(digits, behind)
           left == IF precision = << >> THEN behind ELSE Behind(digits, behind)
           asked == IF precision = << >> THEN NONE ELSE IF p < 0 THEN 0 ELSE p
           g == [value |-> p, rest |-> s3, args |-> Behind(digits, behind)]
<1>17. ASSUME d > 0
       PROVE  /\ precision # << >>
              /\ Field(Drop(s2, 1), behind) = g
  <2>1. d \in 1 .. Len(s2) /\ Len(s2) \in Nat
    BY <1>4, <1>5, <1>17, LenProperties
  <2>2. /\ Drop(Drop(s2, 1), d - 1) = s3
        /\ digits = Before(Drop(s2, 1), d - 1)
        /\ precision # << >>
    BY <1>4, <2>1, PointApart DEF s3, precision
  <2> DEFINE t == Drop(s2, 1)
  <2>3. t \in Seq(STRING) /\ Len(t) = Len(s2) - 1 /\ \A k \in 1 .. Len(s2) - 1 : t[k] = s2[1 + k]
    <3>1. 1 \in 0 .. Len(s2)
      BY <2>1
    <3> QED BY <1>4, <3>1, DropIs
  <2>4. IsNumber(Before(t, d - 1))
    BY <1>5, <1>17
  <2> HIDE DEF t
  <2>5. d - 1 \in 0 .. Len(t) /\ d - 1 < Len(t) /\ t[(d - 1) + 1] \notin DigitSet \cup {"*"}
    <3>1. d \in 1 .. Len(s2) - 1 /\ t[d] = s2[1 + d] /\ 1 + d = d + 1 /\ (d - 1) + 1 = d
      BY <1>9, <2>1, <2>3
    <3> QED BY <1>8, <1>9, <2>3, <3>1
  <2>6. Field(t, behind) = [value |-> NumberOf(Before(t, d - 1), behind), rest |-> Drop(t, d - 1),
                            args |-> Behind(Before(t, d - 1), behind)]
    BY <2>3, <2>4, <2>5, FieldIs
  <2> QED BY <2>2, <2>6 DEF t
<1>18. ASSUME d = 0
       PROVE  precision = << >> /\ s2 = s3
  <2>1. precision = << >>
    BY <1>4, <1>6, <1>18, DropIs DEF precision
  <2>2. s2 = s3
    <3>1. \A k \in 1 .. Len(s2) : s3[k] = s2[k]
      BY <1>4, <1>6, <1>18, LenProperties
    <3> QED BY <1>4, <1>6, <1>18, <3>1, SeqEqual, LenProperties
  <2> QED BY <2>1, <2>2
\* What WithWidth makes of them.
<1> DEFINE h == IF d > 0 THEN g ELSE f
<1>19. WithWidth(set, f) = WithSpecifier(h, set, w, asked, l)
  <2>1. CASE d > 0
    <3>1. f.rest[1] = "." /\ Field(Drop(f.rest, 1), f.args) = g
      BY <1>9, <1>16, <1>17, <2>1
    <3>2. WithWidth(set, f) = WithPrecision(set, w, g)
      BY <1>16, <3>1, Zenon DEF WithWidth
    <3>3. g.value = p /\ g.rest = s3
      OBVIOUS
    <3> HIDE DEF g
    <3>4. WithPrecision(set, w, g) = WithSpecifier(g, set, w, IF p < 0 THEN 0 ELSE p, l)
      BY <1>8, <3>3, Zenon DEF WithPrecision
    <3>5. asked = IF p < 0 THEN 0 ELSE p
      BY <1>17, <2>1
    <3> HIDE DEF asked
    <3> QED BY <2>1, <3>2, <3>4, <3>5
  <2>2. CASE ~ (d > 0)
    <3>1. d = 0
      BY <1>5, <2>2, <1>4, LenProperties
    <3>2. f.rest[1] # "." /\ LengthField(f.rest) = l /\ asked = NONE
      BY <1>8, <1>9, <1>16, <1>18, <2>2, <3>1
    <3> HIDE DEF asked
    <3>3. WithWidth(set, f) = WithSpecifier(f, set, w, asked, l)
      BY <1>16, <3>2, Zenon DEF WithWidth
    <3> QED BY <2>2, <3>3
  <2> QED BY <2>1, <2>2
<1>20. h.rest = s3 /\ h.args = left
  <2>1. CASE d > 0
    BY <1>17, <2>1
  <2>2. CASE ~ (d > 0)
    <3>1. d = 0
      BY <1>5, <2>2, <1>4, LenProperties
    <3> QED BY <1>16, <1>18, <2>2, <3>1
  <2> QED BY <2>1, <2>2
<1> HIDE DEF h, asked, left
<1> DEFINE spec == s3[Len(l) + 1]
           more == IF w < 0 THEN {"-"} ELSE {}
           meaning == [flags |-> set \cup more,
                       width |-> IF w < 0 THEN -w ELSE w,
                       precision |-> asked,
                       length |-> LengthNames[l],
                       spec |-> spec,
                       arg |-> IF TakesArgument(spec) THEN Head(left) ELSE NONE,
                       rest |-> Drop(s3, Len(l) + 1),
                       args |-> IF TakesArgument(spec) THEN Tail(left) ELSE left]
<1>21. WithSpecifier(h, set, w, asked, l) = meaning
  <2>1. FlagsWithWidth(set, w) = set \cup more
    BY DEF FlagsWithWidth
  <2> QED BY <1>20, <2>1, Zenon DEF WithSpecifier
<1>22. Conversion(s, arguments) = meaning
  BY <1>15, <1>19, <1>21
\* What C means: they differ where the precision is negative.
<1> DEFINE wanted == IF precision = << >> \/ p < 0 THEN NONE ELSE p
           meant == [flags |-> set \cup more,
                     width |-> IF w < 0 THEN -w ELSE w,
                     precision |-> wanted,
                     length |-> LengthNames[l],
                     spec |-> spec,
                     arg |-> IF TakesArgument(spec) THEN Head(left) ELSE NONE,
                     rest |-> Drop(s3, Len(l) + 1),
                     args |-> IF TakesArgument(spec) THEN Tail(left) ELSE left]
<1>23. meant = Meaning(flags, width, precision, l, s3, arguments)
  BY <1>13, Zenon DEF Meaning, left, behind, w, set
<1> HIDE DEF more, spec
\* A precision that is not left out.
<1>24. ASSUME precision # << >>
       PROVE  /\ d \in 1 .. Len(s2) /\ Len(s2) \in Nat /\ precision[1] = "."
              /\ digits = Before(Drop(s2, 1), d - 1)
              /\ Len(digits) = d - 1 /\ \A k \in 1 .. d - 1 : digits[k] = precision[1 + k]
              /\ IsNumber(digits)
  <2>1. d \in 1 .. Len(s2) /\ Len(s2) \in Nat
    BY <1>4, <1>5, <1>18, <1>24, LenProperties
  <2>2. precision \in Seq(STRING) /\ precision[1] = s2[1]
    <3>1. Before(s2, d) \in Seq(STRING) /\ \A k \in 1 .. d : Before(s2, d)[k] = s2[k]
      BY <1>4, <1>5, DropIs
    <3> QED BY <2>1, <3>1 DEF precision
  <2>3. Len(digits) = d - 1 /\ \A k \in 1 .. d - 1 : digits[k] = precision[1 + k]
    <3>1. 1 \in 0 .. Len(precision)
      BY <1>6, <2>1
    <3> QED BY <1>6, <2>2, <3>1, DropIs
  <2>4. digits = Before(Drop(s2, 1), d - 1)
    BY <1>4, <2>1, PointApart DEF precision
  <2>5. IsNumber(digits)
    BY <1>5, <2>1, <2>4
  <2>6. precision[1] = "."
    BY <1>9, <2>1, <2>2
  <2> QED BY <2>1, <2>3, <2>4, <2>5, <2>6
<1>25. CASE TakenForZero(precision, behind)
  <2>1. precision # << >> /\ digits = <<"*">> /\ Head(behind) < 0
    <3>1. precision = <<".", "*">> /\ Head(behind) < 0
      BY <1>25 DEF TakenForZero
    <3>2. precision # << >> /\ Len(precision) = 2 /\ precision[2] = "*"
      BY <3>1
    <3>3. Len(digits) = 1 /\ digits[1] = "*"
      BY <1>6, <1>24, <3>2
    <3>4. digits \in Seq(STRING)
      <4>1. Drop(s2, 1) \in Seq(STRING) /\ Len(Drop(s2, 1)) = Len(s2) - 1
        <5>1. 1 \in 0 .. Len(s2)
          BY <1>24, <3>2
        <5> QED BY <1>4, <5>1, DropIs
      <4>2. d - 1 \in 0 .. Len(Drop(s2, 1))
        BY <1>24, <3>2, <4>1, <1>4, LenProperties
      <4> QED BY <1>24, <3>2, <4>1, <4>2, DropIs
    <3> HIDE DEF digits
    <3>5. digits = <<"*">>
      BY <3>3, <3>4
    <3> QED BY <3>1, <3>2, <3>5
  <2>2. p = Head(behind)
    BY <2>1, Zenon DEF NumberOf
  <2>3. asked = 0
    BY <2>1, <2>2 DEF asked
  <2> HIDE DEF wanted
  <2>4. meaning = [meant EXCEPT !.precision = 0]
    <3> DEFINE set2 == set \cup more
               width2 == IF w < 0 THEN -w ELSE w
               length == LengthNames[l]
               arg == IF TakesArgument(spec) THEN Head(left) ELSE NONE
               rest == Drop(s3, Len(l) + 1)
               args2 == IF TakesArgument(spec) THEN Tail(left) ELSE left
    <3> HIDE DEF set2, width2, length, arg, rest, args2
    <3>1. meaning = [flags |-> set2, width |-> width2, precision |-> 0, length |-> length,
                     spec |-> spec, arg |-> arg, rest |-> rest, args |-> args2]
      BY <2>3, Zenon DEF set2, width2, length, arg, rest, args2
    <3>2. meant = [flags |-> set2, width |-> width2, precision |-> wanted, length |-> length,
                   spec |-> spec, arg |-> arg, rest |-> rest, args |-> args2]
      BY Zenon DEF set2, width2, length, arg, rest, args2
    <3> HIDE DEF meaning, meant
    <3> QED BY <3>1, <3>2, WithoutPrecision
  <2> QED BY <1>22, <1>23, <1>25, <2>4 DEF flags, width, precision, behind, s3, s2, s1
<1>26. CASE ~ TakenForZero(precision, behind)
  <2>1. asked = wanted
    <3>1. CASE precision = << >>
      BY <3>1 DEF asked
    <3>2. CASE precision # << >> /\ digits = <<"*">>
      <4>1. p = Head(behind)
        BY <3>2, Zenon DEF NumberOf
      <4>2. precision = <<".", "*">>
        <5>1. Len(digits) = 1 /\ digits[1] = "*"
          BY <3>2
        <5>2. precision \in Seq(STRING)
          BY <1>4, <1>5, DropIs DEF precision
        <5>3. d = 2 /\ precision[1] = "." /\ precision[2] = "*" /\ Len(precision) = 2
          <6> HIDE DEF digits
          <6>1. d \in 1 .. Len(s2) /\ Len(s2) \in Nat /\ Len(digits) = d - 1
            BY <1>24, <3>2
          <6>2. d = 2
            <7> DEFINE x == Len(digits)
                       y == Len(s2)
            <7>1. x = 1 /\ y \in Nat /\ x = d - 1 /\ d \in 1 .. y
              BY <5>1, <6>1
            <7> HIDE DEF x, y
            <7> QED BY <7>1
          <6>3. digits[1] = precision[1 + 1]
            BY <1>24, <3>2, <6>2
          <6> QED BY <1>6, <1>24, <3>2, <5>1, <6>2, <6>3
        <5> QED BY <5>2, <5>3
      <4>3. ~ (p < 0)
        BY <1>26, <4>1, <4>2, Zenon DEF TakenForZero
      <4> HIDE DEF p
      <4> QED BY <3>2, <4>3 DEF asked
    <3>3. CASE precision # << >> /\ digits # <<"*">>
      <4>1. /\ \A k \in 1 .. Len(digits) : digits[k] \in DigitSet
            /\ Len(digits) \in Nat
        <5> HIDE DEF digits
        <5>1. IsNumber(digits) /\ Len(digits) = d - 1 /\ d \in 1 .. Len(s2) /\ Len(s2) \in Nat
          BY <1>4, <1>24, <3>3, LenProperties
        <5> QED BY <3>3, <5>1 DEF IsNumber
      <4> DEFINE n == Decimal(digits)
                 m == Power(2, INT_BITS)
      <4>2. p = n % m
        BY <3>3, Zenon DEF NumberOf
      <4>3. n \in Nat /\ m \in Nat \ {0}
        <5>1. INT_BITS \in Nat
          BY TypesAssumption
        <5> HIDE DEF digits
        <5> QED BY <4>1, <5>1, AtoiReads, PowersOf2
      <4>4. ~ (p < 0)
        <5> HIDE DEF n, m, p
        <5> QED BY <4>2, <4>3
      <4> HIDE DEF p
      <4> QED BY <3>3, <4>4 DEF asked
    <3> QED BY <3>1, <3>2, <3>3
  <2> HIDE DEF wanted
  <2>2. meaning = meant
    BY <2>1
  <2> QED BY <1>22, <1>23, <1>26, <2>2 DEF flags, width, precision, behind, s3, s2, s1
<1> QED BY <1>25, <1>26

\* What is left behind a conversion is the end of the format.
LEMMA LengthFieldType ==
    ASSUME NEW s \in Seq(STRING)
    PROVE  LengthField(s) \in Lengths
<1> DEFINE B == {l \in Lengths : IsPrefix(l, s)}
<1>1. \A l \in B : Len(l) \in {0, 1, 2}
  BY LengthKinds
<1>2. << >> \in B
  <2>1. << >> \in Lengths
    BY DEF Lengths
  <2>2. Begins(s, << >>)
    BY LenProperties DEF Begins
  <2> QED BY <2>1, <2>2, PrefixMeans
<1> HIDE DEF B
<1>3. \E l \in B : \A o \in B : Len(o) <= Len(l)
  <2>1. CASE \E l \in B : Len(l) = 2
    BY <1>1, <2>1
  <2>2. CASE (\A l \in B : Len(l) # 2) /\ \E l \in B : Len(l) = 1
    BY <1>1, <2>2
  <2>3. CASE (\A l \in B : Len(l) # 2) /\ (\A l \in B : Len(l) # 1)
    BY <1>1, <1>2, <2>3
  <2> QED BY <2>1, <2>2, <2>3
<1>4. \E l \in Lengths : /\ IsPrefix(l, s)
                         /\ \A o \in Lengths : IsPrefix(o, s) => Len(o) <= Len(l)
  BY <1>3 DEF B
<1> QED BY <1>4, Zenon DEF LengthField

LEMMA FieldRest ==
    ASSUME NEW s \in Seq(STRING), NEW arguments
    PROVE  Field(s, arguments).rest \in Seq(STRING)
<1> DEFINE n == Leading(s, DigitSet)
<1>1. n \in Nat
  BY LeadingType, LenProperties
<1>2. Drop(s, n) \in Seq(STRING) /\ Drop(s, 1) \in Seq(STRING)
  BY <1>1, DropType
<1>3. Field(s, arguments).rest = IF n > 0 THEN Drop(s, n) ELSE IF s[1] = "*" THEN Drop(s, 1) ELSE s
  BY DEF Field
<1> HIDE DEF n
<1> QED BY <1>2, <1>3

LEMMA ConversionRest ==
    ASSUME NEW s \in Seq(STRING), NEW arguments
    PROVE  Conversion(s, arguments).rest \in Seq(STRING)
<1> DEFINE n == Leading(s, FlagChars)
           f == Field(Drop(s, n), arguments)
           flags == {s[k] : k \in 1 .. n}
<1>1. Conversion(s, arguments) = WithWidth(flags, f)
  BY DEF Conversion
<1>2. f.rest \in Seq(STRING)
  <2>1. n \in Nat
    BY LeadingType, LenProperties
  <2> HIDE DEF n
  <2>2. Drop(s, n) \in Seq(STRING)
    BY <2>1, DropType
  <2> QED BY <2>2, FieldRest
<1> HIDE DEF f, flags
<1>3. ASSUME NEW g, g.rest \in Seq(STRING), NEW w, NEW p
      PROVE  WithSpecifier(g, flags, w, p, LengthField(g.rest)).rest \in Seq(STRING)
  <2> DEFINE l == LengthField(g.rest)
  <2>1. Len(l) + 1 \in Nat
    <3>1. l \in Lengths
      BY <1>3, LengthFieldType
    <3>2. Len(l) \in {0, 1, 2}
      BY <3>1, LengthKinds
    <3> HIDE DEF l
    <3> QED BY <3>2
  <2> HIDE DEF l
  <2>2. WithSpecifier(g, flags, w, p, l).rest = Drop(g.rest, Len(l) + 1)
    BY DEF WithSpecifier
  <2>3. Drop(g.rest, Len(l) + 1) \in Seq(STRING)
    BY <1>3, <2>1, DropType
  <2> QED BY <2>2, <2>3 DEF l
<1> DEFINE g == Field(Drop(f.rest, 1), f.args)
<1>4. g.rest \in Seq(STRING)
  <2>1. Drop(f.rest, 1) \in Seq(STRING)
    BY <1>2, DropType
  <2> QED BY <2>1, FieldRest
<1> HIDE DEF g
<1>5. WithPrecision(flags, f.value, g).rest \in Seq(STRING)
  BY <1>3, <1>4, Zenon DEF WithPrecision
<1>6. WithSpecifier(f, flags, f.value, NONE, LengthField(f.rest)).rest \in Seq(STRING)
  BY <1>2, <1>3, Zenon
<1>7. WithWidth(flags, f) = IF f.rest[1] = "." THEN WithPrecision(flags, f.value, g)
                            ELSE WithSpecifier(f, flags, f.value, NONE, LengthField(f.rest))
  BY Zenon DEF WithWidth, g
<1> QED BY <1>1, <1>5, <1>6, <1>7, Zenon

\* What is left of a format is one, at every conversion of a call.
FormatInv == format \in Seq(STRING)

LEMMA FormatKept ==
    /\ Init => FormatInv
    /\ FormatInv /\ [Next]_vars => FormatInv'
<1>1. Init => FormatInv
  BY CallsAssumption DEF Init, FormatInv
<1>2. ASSUME FormatInv, [Next]_vars
      PROVE  FormatInv'
  <2>1. format # << >> => Tail(format) \in Seq(STRING)
    BY <1>2, HeadTailProperties DEF FormatInv
  <2>2. CASE Copy
    BY <2>1, <2>2 DEF Copy, FormatInv
  <2>3. CASE Convert
    <3> DEFINE c == Conversion(Tail(format), args)
    <3>1. format # << >> /\ format' = c.rest
      BY <2>3, Zenon DEF Convert
    <3>2. c.rest \in Seq(STRING)
      BY <2>1, <3>1, ConversionRest
    <3> HIDE DEF c
    <3> QED BY <3>1, <3>2 DEF FormatInv
  <2>4. CASE Terminate
    BY <1>2, <2>4 DEF Terminate, FormatInv
  <2>5. CASE UNCHANGED vars
    BY <1>2, <2>5 DEF vars, FormatInv
  <2> QED BY <1>2, <2>2, <2>3, <2>4, <2>5, Zenon DEF Next
<1> QED BY <1>1, <1>2

\* Wherever a conversion is in a format, and whatever the numbers, the lengths
\* and the arguments in it: the parser finds what C's grammar means by it, and
\* uses up no more of the format and of the arguments (_vsnprintf, _atoi); but it
\* takes a negative precision for 0 where C takes it for none.
THEOREM FormatsParsed == Spec => []ParsesAsWritten
<1>1. FormatInv => ParsesAsWritten
  <2> SUFFICES ASSUME FormatInv, format # << >>
               PROVE  ReadAsWritten(Tail(format), args)
    BY DEF ParsesAsWritten
  <2>1. Tail(format) \in Seq(STRING)
    BY HeadTailProperties DEF FormatInv
  <2> QED BY <2>1, Parses
<1> QED BY <1>1, FormatKept, PTL DEF Spec

-----------------------------------------------------------------------------
(***************************************************************************)
(* Reading numbers back (Scan).                                             *)
(***************************************************************************)
\* g[k] is what has been found after k characters.
Read(r, text, g, k) == IF k = 0 THEN r ELSE After(g[k - 1], text[k])

\* A text has been read up to every one of its characters.
LEMMA ScansSome ==
    ASSUME NEW r, NEW text, NEW L \in Nat
    PROVE  \E p : p = [k \in 0 .. L |-> Read(r, text, p, k)]
<1> DEFINE Up(p, n) == p = [k \in 0 .. n |-> Read(r, text, p, k)]
           T == {n \in Nat : \E p : Up(p, n)}
<1>1. 0 \in T
  <2> DEFINE p == [k \in 0 .. 0 |-> r]
  <2>1. \A k \in 0 .. 0 : p[k] = Read(r, text, p, k)
    BY DEF Read
  <2>2. p = [k \in 0 .. 0 |-> p[k]]
    OBVIOUS
  <2> HIDE DEF p
  <2>3. Up(p, 0)
    BY <2>1, <2>2
  <2> QED BY <2>3
<1>2. ASSUME NEW n \in Nat, n \in T
      PROVE  n + 1 \in T
  <2>1. PICK p : Up(p, n)
    BY <1>2
  <2>2. \A k \in 0 .. n : p[k] = Read(r, text, p, k)
    BY <2>1, Zenon
  <2> DEFINE h == [k \in 0 .. n + 1 |-> IF k = n + 1 THEN Read(r, text, p, n + 1) ELSE p[k]]
  <2>3. \A k \in 0 .. n : h[k] = p[k]
    <3>1. \A k \in 0 .. n : k \in 0 .. n + 1 /\ k # n + 1
      BY <1>2
    <3> QED BY <3>1
  <2>4. h[n + 1] = Read(r, text, p, n + 1)
    BY <1>2
  <2>5. h = [k \in 0 .. n + 1 |-> h[k]]
    OBVIOUS
  <2> HIDE DEF h
  <2>6. ASSUME NEW k \in 0 .. n + 1
        PROVE  h[k] = Read(r, text, h, k)
    <3>1. k = 0 \/ k - 1 \in 0 .. n
      OBVIOUS
    <3>2. Read(r, text, h, k) = Read(r, text, p, k)
      BY <2>3, <3>1, Zenon DEF Read
    <3>3. k \in 0 .. n \/ k = n + 1
      OBVIOUS
    <3> QED BY <2>2, <2>3, <2>4, <3>2, <3>3
  <2>7. Up(h, n + 1)
    BY <2>5, <2>6
  <2> QED BY <1>2, <2>7
<1> HIDE DEF T
<1>3. L \in T
  BY <1>1, <1>2, Induction
<1> QED BY <1>3 DEF T

\* Scan, character by character.
Finds(r, text, g) ==
    /\ Scan(r, text) = g[Len(text)] /\ g[0] = r
    /\ \A k \in 1 .. Len(text) : g[k] = After(g[k - 1], text[k])

LEMMA Scans ==
    ASSUME NEW r, NEW text, Len(text) \in Nat
    PROVE  \E g : Finds(r, text, g)
<1> DEFINE g == CHOOSE f : f = [k \in 0 .. Len(text) |->
                                  IF k = 0 THEN r ELSE After(f[k - 1], text[k])]
<1>1. Scan(r, text) = g[Len(text)]
  BY DEF Scan
<1>2. g = [k \in 0 .. Len(text) |-> IF k = 0 THEN r ELSE After(g[k - 1], text[k])]
  <2>1. PICK p : p = [k \in 0 .. Len(text) |-> Read(r, text, p, k)]
    BY ScansSome
  <2>2. p = [k \in 0 .. Len(text) |-> IF k = 0 THEN r ELSE After(p[k - 1], text[k])]
    BY <2>1, Zenon DEF Read
  <2> QED BY <2>2, Zenon
<1> HIDE DEF g
<1>3. \A k \in 0 .. Len(text) : g[k] = Read(r, text, g, k)
  BY <1>2, Zenon DEF Read
<1>4. 0 \in 0 .. Len(text) /\ \A k \in 1 .. Len(text) : k \in 0 .. Len(text) /\ k # 0
  OBVIOUS
<1>5. g[0] = r
  BY <1>3, <1>4, Zenon DEF Read
<1>6. \A k \in 1 .. Len(text) : g[k] = After(g[k - 1], text[k])
  BY <1>3, <1>4, Zenon DEF Read
<1> QED BY <1>1, <1>5, <1>6 DEF Finds

\* Whatever holds at the beginning of a text holds at its end, if every character
\* keeps it (P: the places where it holds).
LEMMA Keeps ==
    ASSUME NEW n \in Nat, NEW P, 0 \in P, \A k \in 1 .. n : k - 1 \in P => k \in P
    PROVE  n \in P
<1> DEFINE T == {k \in Nat : k <= n => k \in P}
<1>1. 0 \in T
  OBVIOUS
<1>2. ASSUME NEW k \in Nat, k \in T
      PROVE  k + 1 \in T
  <2> SUFFICES ASSUME k + 1 <= n
               PROVE  k + 1 \in P
    OBVIOUS
  <2>1. k + 1 \in 1 .. n /\ (k + 1) - 1 = k /\ k <= n
    OBVIOUS
  <2>2. k \in P
    BY <1>2, <2>1
  <2>3. (k + 1) - 1 \in P => k + 1 \in P
    BY <2>1
  <2> QED BY <2>1, <2>2, <2>3, Zenon
<1> HIDE DEF T
<1>3. Nat \subseteq T
  BY <1>1, <1>2, Induction
<1> QED BY <1>3 DEF T

\* Two texts one after the other are read as one.
LEMMA ScanConcat ==
    ASSUME NEW r, NEW s, NEW t, IsSeq(s), IsSeq(t)
    PROVE  Scan(r, s \o t) = Scan(Scan(r, s), t)
<1> DEFINE st == s \o t
           m == Len(s)
           n == Len(t)
<1>0. m \in Nat /\ n \in Nat
  BY DEF IsSeq
<1>1. /\ IsSeq(st) /\ Len(st) = m + n
      /\ \A k \in 1 .. m : st[k] = s[k]
      /\ \A k \in m + 1 .. m + n : st[k] = t[k - m]
  BY Concat
<1> HIDE DEF st
<1>2. PICK f : /\ Scan(r, st) = f[m + n] /\ f[0] = r
               /\ \A k \in 1 .. m + n : f[k] = After(f[k - 1], st[k])
  <2>1. Len(st) \in Nat
    BY <1>0, <1>1
  <2>2. PICK f : Finds(r, st, f)
    BY <2>1, Scans
  <2> QED BY <1>1, <2>2 DEF Finds
<1>3. PICK g : /\ Scan(r, s) = g[m] /\ g[0] = r
               /\ \A k \in 1 .. m : g[k] = After(g[k - 1], s[k])
  <2>1. PICK g : Finds(r, s, g)
    BY <1>0, Scans
  <2> QED BY <2>1 DEF Finds
<1>4. PICK h : /\ Scan(Scan(r, s), t) = h[n] /\ h[0] = Scan(r, s)
               /\ \A k \in 1 .. n : h[k] = After(h[k - 1], t[k])
  <2> DEFINE q == Scan(r, s)
  <2>1. Len(t) \in Nat
    BY <1>0
  <2> HIDE DEF q
  <2>2. \E h : /\ Scan(q, t) = h[Len(t)] /\ h[0] = q
               /\ \A k \in 1 .. Len(t) : h[k] = After(h[k - 1], t[k])
    <3>1. PICK h : Finds(q, t, h)
      BY <2>1, Scans
    <3> QED BY <3>1 DEF Finds
  <2> QED BY <2>2 DEF q
<1> HIDE DEF m, n
<1>5. f[m] = g[m]
  <2> DEFINE P == {k \in 0 .. m : f[k] = g[k]}
  <2>1. 0 \in P
    BY <1>0, <1>2, <1>3
  <2>2. ASSUME NEW k \in 1 .. m, k - 1 \in P
        PROVE  k \in P
    <3>1. k \in 0 .. m /\ k - 1 \in 0 .. m /\ k \in 1 .. m + n
      BY <1>0
    <3>2. f[k - 1] = g[k - 1]
      BY <2>2, <3>1
    <3>3. f[k] = g[k]
      BY <1>1, <1>2, <1>3, <3>1, <3>2
    <3> QED BY <3>1, <3>3
  <2>3. m \in P
    <3> HIDE DEF P
    <3> QED BY <1>0, <2>1, <2>2, Keeps
  <2> QED BY <1>0, <2>3
<1>6. f[m + n] = h[n]
  <2> DEFINE P == {k \in 0 .. n : f[m + k] = h[k]}
  <2>1. 0 \in P
    BY <1>0, <1>3, <1>4, <1>5
  <2>2. ASSUME NEW k \in 1 .. n, k - 1 \in P
        PROVE  k \in P
    <3>1. /\ k \in 0 .. n /\ k - 1 \in 0 .. n /\ m + k \in 1 .. m + n
          /\ m + k \in m + 1 .. m + n /\ (m + k) - 1 = m + (k - 1) /\ (m + k) - m = k
      BY <1>0
    <3>2. f[m + (k - 1)] = h[k - 1]
      BY <2>2, <3>1
    <3>3. f[m + k] = After(f[(m + k) - 1], st[m + k]) /\ st[m + k] = t[k]
      BY <1>1, <1>2, <3>1
    <3>4. f[m + k] = h[k]
      BY <1>4, <3>1, <3>2, <3>3
    <3> QED BY <3>1, <3>4
  <2>3. n \in P
    <3> HIDE DEF P
    <3> QED BY <1>0, <2>1, <2>2, Keeps
  <2> QED BY <1>0, <2>3
<1> QED BY <1>2, <1>4, <1>6 DEF st

\* What is no digit and no point is passed over.
LEMMA ScanSkip ==
    ASSUME NEW r, NEW t, IsSeq(t), \A k \in 1 .. Len(t) : t[k] \notin DigitSet \cup {"."}
    PROVE  Scan(r, t) = r
<1> DEFINE n == Len(t)
<1>0. n \in Nat
  BY DEF IsSeq
<1>1. PICK g : /\ Scan(r, t) = g[n] /\ g[0] = r
               /\ \A k \in 1 .. n : g[k] = After(g[k - 1], t[k])
  <2>1. PICK g : Finds(r, t, g)
    BY <1>0, Scans
  <2> QED BY <2>1 DEF Finds
<1> HIDE DEF n
<1> DEFINE P == {k \in 0 .. n : g[k] = r}
<1>2. 0 \in P
  BY <1>0, <1>1
<1>3. ASSUME NEW k \in 1 .. n, k - 1 \in P
      PROVE  k \in P
  <2>1. k \in 0 .. n /\ k - 1 \in 0 .. n
    BY <1>0
  <2>2. g[k - 1] = r
    BY <1>3, <2>1
  <2>3. t[k] # "." /\ t[k] \notin DigitSet
    BY DEF n
  <2>4. g[k] = r
    BY <1>1, <2>2, <2>3, Zenon DEF After
  <2> QED BY <2>1, <2>4
<1>4. n \in P
  <2> HIDE DEF P
  <2> QED BY <1>0, <1>2, <1>3, Keeps
<1>5. g[n] = r
  BY <1>0, <1>4
<1> QED BY <1>1, <1>5

\* Quotient and remainder are what they are in one way only.
LEMMA DivUnique ==
    ASSUME NEW x \in Int, NEW m \in Nat \ {0}, NEW a \in Int, NEW c \in 0 .. m - 1, x = m * a + c
    PROVE  x \div m = a /\ x % m = c
<1> DEFINE r == x % m
           q == x \div m
<1>1. x = m * q + r /\ r \in 0 .. m - 1 /\ q \in Int
  OBVIOUS
<1> HIDE DEF r, q
<1> DEFINE z == q - a
<1>2. m * z = c - r /\ z \in Int /\ r \in Int
  BY <1>1
<1>3. z = 0
  <2> HIDE DEF z
  <2>1. CASE z >= 1
    <3>1. m * z >= m
      BY <1>2, <2>1
    <3> QED BY <1>1, <1>2, <3>1
  <2>2. CASE z <= -1
    <3>1. m * z <= -m
      BY <1>2, <2>2
    <3> QED BY <1>1, <1>2, <3>1
  <2> QED BY <1>2, <2>1, <2>2
<1>4. q = a
  BY <1>1, <1>3
<1>5. r = c
  BY <1>1, <1>4
<1> QED BY <1>4, <1>5 DEF r, q

\* A digit is what is left of the number's higher digits.
LEMMA NextDigit ==
    ASSUME NEW v \in Nat, NEW p \in Nat \ {0}
    PROVE  /\ v \div p = 10 * (v \div (10 * p)) + ((v \div p) % 10)
           /\ v \div (10 * p) \in Nat
           /\ (v \div p) % 10 \in 0 .. 9
<1> DEFINE q == v \div p
           r == v % p
<1>1. v = p * q + r /\ r \in 0 .. p - 1 /\ q \in Nat
  OBVIOUS
<1> HIDE DEF r, q
<1> DEFINE a == q \div 10
           d == q % 10
<1>2. q = 10 * a + d /\ d \in 0 .. 9 /\ a \in Nat
  BY <1>1
<1>6. q = 10 * a + (q % 10) /\ q % 10 \in 0 .. 9
  BY <1>1
<1> HIDE DEF a, d
<1>3. v = (10 * p) * a + (p * d + r)
  <2>1. p * q = (10 * p) * a + p * d
    BY <1>1, <1>2
  <2>2. p * d \in Int /\ (10 * p) * a \in Int
    BY <1>2
  <2> QED BY <1>1, <2>1, <2>2
<1>4. p * d + r \in 0 .. 10 * p - 1
  <2>1. p * d \in Nat /\ p * d <= 9 * p
    BY <1>2
  <2> QED BY <1>1, <2>1
<1>5. v \div (10 * p) = a
  <2> DEFINE m == 10 * p
             c == p * d + r
  <2>1. m \in Nat \ {0} /\ c \in 0 .. m - 1 /\ v = m * a + c /\ a \in Int
    BY <1>2, <1>3, <1>4
  <2> HIDE DEF m, c
  <2>2. v \div m = a
    BY <2>1, DivUnique
  <2> QED BY <2>2 DEF m
<1>8. v \div (10 * p) \in Nat
  BY <1>2, <1>5
<1>9. q = 10 * (v \div (10 * p)) + (q % 10)
  BY <1>5, <1>6, Zenon
<1> QED BY <1>6, <1>8, <1>9 DEF q

\* The value of a digit's character.
LEMMA DigitValueIs ==
    ASSUME NEW d \in 0 .. 9
    PROVE  DigitChars[d + 1] \in DigitSet /\ DigitChars[d + 1] # "." /\ DigitValue(DigitChars[d + 1]) = d
<1> DEFINE D == DigitChars
<1>1. /\ D[1] = "0" /\ D[2] = "1" /\ D[3] = "2" /\ D[4] = "3" /\ D[5] = "4" /\ D[6] = "5"
      /\ D[7] = "6" /\ D[8] = "7" /\ D[9] = "8" /\ D[10] = "9"
  BY DEF DigitChars
<1> HIDE DEF D
<1>2. \A x, y \in {1, 2, 3, 4, 5, 6, 7, 8, 9, 10} : D[x] = D[y] => x = y
  BY <1>1
<1>3. \A x \in 0 .. 9 : x + 1 \in {1, 2, 3, 4, 5, 6, 7, 8, 9, 10}
  OBVIOUS
<1>4. \A x \in 0 .. 9 : D[x + 1] = D[d + 1] => x = d
  <2> SUFFICES ASSUME NEW x \in 0 .. 9, D[x + 1] = D[d + 1]
               PROVE  x = d
    OBVIOUS
  <2>1. x + 1 = d + 1
    BY <1>2, <1>3, Zenon
  <2> QED BY <2>1
<1>5. DigitValue(D[d + 1]) = d
  BY <1>4, Zenon DEF DigitValue, D
<1>6. D[d + 1] \in DigitSet
  <2>1. d + 1 \in 1 .. 10
    OBVIOUS
  <2> QED BY <2>1 DEF DigitSet, D
<1>7. D[d + 1] # "."
  BY <1>6, DigitsKnown
<1> QED BY <1>5, <1>6, <1>7 DEF D

Found(n, d) == [number |-> n, decimals |-> d]
DecimalsAfter(places, m) == IF places = NONE THEN NONE ELSE places + m

\* The digit of v at ten to the power of e, and that t is v in m digits.
Place(v, e) == DigitChars[((v \div Power(10, e)) % 10) + 1]
Shows(t, v, m) ==
    /\ IsSeq(t) /\ Len(t) = m /\ v < Power(10, m)
    /\ \A j \in 1 .. m : t[j] = Place(v, m - j)

\* Digits are read as the number they are the digits of.
LEMMA ScanDigits ==
    ASSUME NEW n \in Nat, NEW places \in Nat \cup {NONE},
           NEW m \in Nat, NEW v \in Nat, NEW t, Shows(t, v, m)
    PROVE  Scan(Found(n, places), t) = Found(n * Power(10, m) + v, DecimalsAfter(places, m))
<1> DEFINE r == Found(n, places)
           Num(j) == n * Power(10, j) + v \div Power(10, m - j)
           Pl(j) == DecimalsAfter(places, j)
<1>0. /\ IsSeq(t) /\ Len(t) = m /\ v < Power(10, m)
      /\ \A j \in 1 .. m : t[j] = Place(v, m - j)
  BY DEF Shows
<1>1. PICK g : /\ Scan(r, t) = g[m] /\ g[0] = r
               /\ \A k \in 1 .. m : g[k] = After(g[k - 1], t[k])
  <2> HIDE DEF r
  <2>1. Len(t) = m
    BY <1>0
  <2>2. \E g : /\ Scan(r, t) = g[Len(t)] /\ g[0] = r
               /\ \A k \in 1 .. Len(t) : g[k] = After(g[k - 1], t[k])
    <3>1. PICK g : Finds(r, t, g)
      BY <2>1, Scans
    <3> QED BY <3>1 DEF Finds
  <2> QED BY <2>1, <2>2
<1> DEFINE P == {j \in 0 .. m : g[j] = Found(Num(j), Pl(j))}
<1>2. 0 \in P
  <2> DEFINE big == Power(10, m)
  <2>1. big \in Nat \ {0} /\ v < big /\ Power(10, 0) = 1 /\ m - 0 = m
    BY <1>0, PowersOf2
  <2>2. v \div big = 0
    <3> HIDE DEF big
    <3> DEFINE a == 0
    <3>1. v = big * a + v /\ v \in 0 .. big - 1 /\ a \in Int
      BY <2>1
    <3> HIDE DEF a
    <3>2. v \div big = a
      BY <2>1, <3>1, DivUnique
    <3> QED BY <3>2 DEF a
  <2>3. Num(0) = n /\ Pl(0) = places
    BY <2>1, <2>2 DEF DecimalsAfter, NONE
  <2> QED BY <1>1, <2>3
<1>3. ASSUME NEW k \in 1 .. m, k - 1 \in P
      PROVE  k \in P
  <2> DEFINE j == k - 1
             p == Power(10, m - k)
             x == Power(10, j)
             d == (v \div p) % 10
  <2>1. j \in Nat /\ j + 1 = k /\ m - k \in Nat /\ m - j = (m - k) + 1 /\ k \in 0 .. m /\ k \in Nat
    OBVIOUS
  <2>2. /\ Power(10, m - j) = 10 * p /\ p \in Nat \ {0}
        /\ Power(10, k) = 10 * x /\ x \in Nat \ {0}
    BY <2>1, PowersOf2
  <2>3. g[j] = Found(Num(j), Pl(j))
    BY <1>3
  <2>4. t[k] = DigitChars[d + 1]
    BY <1>0, Zenon DEF Place
  <2>5. d \in 0 .. 9 /\ v \div p = 10 * (v \div (10 * p)) + d /\ v \div (10 * p) \in Nat
    <3> HIDE DEF p
    <3> QED BY <2>2, NextDigit
  <2>6. t[k] \in DigitSet /\ t[k] # "." /\ DigitValue(t[k]) = d
    <3> HIDE DEF d
    <3> QED BY <2>4, <2>5, DigitValueIs
  <2> DEFINE old == Found(Num(j), Pl(j))
  <2>7. After(old, t[k]) = Found(10 * Num(j) + d, DecimalsAfter(Pl(j), 1))
    <3>1. old.number = Num(j) /\ old.decimals = Pl(j)
      BY DEF Found
    <3> HIDE DEF old, d
    <3> QED BY <2>6, <3>1, Zenon DEF After, Found, DecimalsAfter
  <2>8. 10 * Num(j) + d = Num(k)
    <3> DEFINE high == v \div (10 * p)
               low == v \div p
    <3>1. Num(j) = n * x + high /\ Num(k) = n * (10 * x) + low
      BY <2>2
    <3>2. low = 10 * high + d /\ high \in Nat /\ d \in Nat
      BY <2>5
    <3> HIDE DEF high, low, d, x, p
    <3> HIDE DEF Num
    <3>3. n * (10 * x) = 10 * (n * x) /\ n * x \in Int
      BY <2>2
    <3> QED BY <3>1, <3>2, <3>3
  <2>9. DecimalsAfter(Pl(j), 1) = Pl(k)
    BY <2>1 DEF DecimalsAfter, NONE
  <2>10. g[k] = After(g[j], t[k])
    BY <1>1
  <2> HIDE DEF Num, Pl
  <2>11. g[k] = Found(Num(k), Pl(k))
    BY <2>3, <2>7, <2>8, <2>9, <2>10
  <2> QED BY <2>1, <2>11
<1>4. m \in P
  <2> HIDE DEF P
  <2> QED BY <1>2, <1>3, Keeps
<1>5. Num(m) = n * Power(10, m) + v
  <2>1. Power(10, m - m) = 1
    <3>1. m - m = 0
      OBVIOUS
    <3> QED BY <3>1, PowersOf2
  <2>2. v \div 1 = v
    OBVIOUS
  <2> QED BY <2>1, <2>2
<1> HIDE DEF Num
<1>6. g[m] = Found(Num(m), Pl(m))
  BY <1>4
<1> QED BY <1>1, <1>5, <1>6 DEF r

\* Zeros are the digits of 0.
LEMMA ShowsZeros ==
    ASSUME NEW m \in Nat
    PROVE  Shows(Times("0", m), 0, m)
<1> DEFINE t == Times("0", m)
<1>1. IsSeq(t) /\ Len(t) = m /\ \A j \in 1 .. m : t[j] = "0"
  BY TimesIs
<1> HIDE DEF t
<1>2. \A p \in Nat \ {0} : 0 \div p = 0
  <2> TAKE p \in Nat \ {0}
  <2>1. 0 = p * 0 + 0 /\ 0 \in 0 .. p - 1
    OBVIOUS
  <2> QED BY <2>1, DivUnique
<1>3. \A j \in 1 .. m : t[j] = Place(0, m - j)
  <2> TAKE j \in 1 .. m
  <2> DEFINE p == Power(10, m - j)
  <2>1. m - j \in Nat
    OBVIOUS
  <2>2. p \in Nat \ {0}
    BY <2>1, PowersOf2
  <2>3. Place(0, m - j) = DigitChars[((0 \div p) % 10) + 1]
    BY Zenon DEF Place
  <2> HIDE DEF p
  <2>4. ((0 \div p) % 10) + 1 = 1
    <3>1. 0 \div p = 0
      BY <1>2, <2>2
    <3> QED BY <3>1
  <2>5. DigitChars[1] = "0"
    BY DEF DigitChars
  <2> QED BY <1>1, <2>3, <2>4, <2>5, Zenon
<1>4. 0 < Power(10, m)
  BY PowersOf2
<1>5. Shows(t, 0, m)
  BY <1>1, <1>3, <1>4 DEF Shows
<1> QED BY <1>5 DEF t

\* Zeros behind a number multiply it.
LEMMA ScanZeros ==
    ASSUME NEW n \in Nat, NEW places \in Nat \cup {NONE}, NEW m \in Nat
    PROVE  Scan(Found(n, places), Times("0", m)) = Found(n * Power(10, m), DecimalsAfter(places, m))
<1> DEFINE t == Times("0", m)
           v == 0
<1>1. Shows(t, v, m) /\ v \in Nat
  BY ShowsZeros
<1> HIDE DEF t, v
<1>2. Scan(Found(n, places), t) = Found(n * Power(10, m) + v, DecimalsAfter(places, m))
  BY <1>1, ScanDigits
<1>3. n * Power(10, m) + v = n * Power(10, m)
  BY PowersOf2 DEF v
<1> QED BY <1>2, <1>3 DEF t

\* The digits, the lowest first.
LEMMA DigitAt ==
    ASSUME NEW value, NEW base, NEW max \in Nat \ {0}, NEW chars,
           NEW k \in 1 .. Len(DigitsOf(value, base, max, chars))
    PROVE  DigitsOf(value, base, max, chars)[k] = chars[((value \div Power(base, k - 1)) % base) + 1]
<1> DEFINE d == DigitsOf(value, base, max, chars)
<1>1. PICK n : d = [i \in 1 .. n |-> chars[((value \div Power(base, i - 1)) % base) + 1]]
  BY DEF DigitsOf
<1>2. \A i \in 1 .. Len(d) : i \in DOMAIN d
  <2>1. IsSeq(d)
    BY SomeDigits
  <2> HIDE DEF d
  <2> QED BY <2>1 DEF IsSeq
<1> HIDE DEF d
<1>3. k \in DOMAIN d
  BY <1>2 DEF d
<1>4. k \in 1 .. n
  BY <1>1, <1>3
<1>5. d[k] = chars[((value \div Power(base, k - 1)) % base) + 1]
  BY <1>1, <1>4, Zenon
<1> QED BY <1>5 DEF d

\* The digits of a number, in the order in which they are printed.
LEMMA ShowsNumber ==
    ASSUME NEW v \in Nat, NEW max \in Nat \ {0}, NEW m \in Nat,
           m = Len(DigitsOf(v, 10, max, DigitChars)), v < Power(10, m)
    PROVE  Shows(Reverse(DigitsOf(v, 10, max, DigitChars)), v, m)
<1> DEFINE s == DigitsOf(v, 10, max, DigitChars)
           t == Reverse(s)
<1>1. IsSeq(s) /\ m = Len(s)
  BY SomeDigits
<1>2. \A k \in 1 .. m : s[k] = Place(v, k - 1)
  BY DigitAt DEF Place
<1> HIDE DEF s
<1>4. IsSeq(t) /\ Len(t) = m /\ \A k \in 1 .. m : t[k] = s[(m - k) + 1]
  BY <1>1, Reversed
<1> HIDE DEF t
<1>5. ASSUME NEW j \in 1 .. m
      PROVE  t[j] = Place(v, m - j)
  <2>1. (m - j) + 1 \in 1 .. m /\ ((m - j) + 1) - 1 = m - j
    OBVIOUS
  <2> QED BY <1>2, <1>4, <2>1
<1>7. Shows(t, v, m)
  BY <1>4, <1>5, Zenon DEF Shows
<1> QED BY <1>7 DEF t, s

\* A text of one character.
LEMMA ScanOne ==
    ASSUME NEW r, NEW x
    PROVE  Scan(r, <<x>>) = After(r, x)
<1> DEFINE t == <<x>>
<1>1. Len(t) = 1 /\ t[1] = x
  OBVIOUS
<1> HIDE DEF t
<1>2. PICK g : /\ Scan(r, t) = g[1] /\ g[0] = r
               /\ \A k \in 1 .. 1 : g[k] = After(g[k - 1], t[k])
  <2>1. Len(t) \in Nat
    BY <1>1
  <2>2. PICK g : /\ Scan(r, t) = g[Len(t)] /\ g[0] = r
                 /\ \A k \in 1 .. Len(t) : g[k] = After(g[k - 1], t[k])
    <3>1. PICK g : Finds(r, t, g)
      BY <2>1, Scans
    <3> QED BY <3>1 DEF Finds
  <2> QED BY <1>1, <2>2
<1>3. g[1] = After(g[1 - 1], t[1]) /\ 1 - 1 = 0
  BY <1>2
<1> QED BY <1>1, <1>2, <1>3 DEF t

\* A point begins the decimals.
LEMMA ScanPoint ==
    ASSUME NEW n
    PROVE  Scan(Found(n, NONE), <<".">>) = Found(n, 0)
<1>1. \A d, x : [Found(n, d) EXCEPT !.decimals = x] = Found(n, x)
  BY SMT DEF Found
<1>2. After(Found(n, NONE), ".") = Found(n, 0)
  BY <1>1, Zenon DEF After
<1> QED BY <1>2, ScanOne

\* Powers of a sum.
LEMMA PowerSum ==
    ASSUME NEW a \in Nat, NEW b \in Nat
    PROVE  /\ Power(10, a + b) = Power(10, a) * Power(10, b)
           /\ Power(2, a + b) = Power(2, a) * Power(2, b)
<1> DEFINE T == {n \in Nat : /\ Power(10, a + n) = Power(10, a) * Power(10, n)
                             /\ Power(2, a + n) = Power(2, a) * Power(2, n)}
<1>1. 0 \in T
  <2>1. a + 0 = a
    OBVIOUS
  <2> QED BY <2>1, PowersOf2
<1>2. ASSUME NEW n \in Nat, n \in T
      PROVE  n + 1 \in T
  <2>1. a + (n + 1) = (a + n) + 1 /\ a + n \in Nat
    OBVIOUS
  <2> DEFINE p == Power(10, a)
             q == Power(10, n)
             x == Power(2, a)
             y == Power(2, n)
  <2>2. /\ p \in Nat /\ q \in Nat /\ x \in Nat /\ y \in Nat
        /\ Power(10, a + n) = p * q /\ Power(2, a + n) = x * y
    BY <1>2, PowersOf2
  <2>3. /\ Power(10, a + (n + 1)) = 10 * (p * q) /\ Power(10, n + 1) = 10 * q
        /\ Power(2, a + (n + 1)) = 2 * (x * y) /\ Power(2, n + 1) = 2 * y
    BY <2>1, <2>2, PowersOf2
  <2> HIDE DEF p, q, x, y
  <2>4. 10 * (p * q) = p * (10 * q) /\ 2 * (x * y) = x * (2 * y)
    BY <2>2
  <2> QED BY <2>3, <2>4 DEF p, x
<1> HIDE DEF T
<1>3. b \in T
  BY <1>1, <1>2, Induction
<1> QED BY <1>3 DEF T

\* Larger exponents, larger powers.
LEMMA PowerGrows ==
    ASSUME NEW a \in Nat, NEW b \in Nat, a <= b
    PROVE  Power(10, a) <= Power(10, b) /\ Power(2, a) <= Power(2, b)
<1>1. b - a \in Nat /\ a + (b - a) = b
  OBVIOUS
<1> DEFINE c == b - a
           p == Power(10, a)
           q == Power(10, c)
           x == Power(2, a)
           y == Power(2, c)
<1>2. /\ Power(10, b) = p * q /\ Power(2, b) = x * y
      /\ p \in Nat /\ x \in Nat /\ q \in Nat \ {0} /\ y \in Nat \ {0}
  <2> HIDE DEF c
  <2>1. c \in Nat /\ a + c = b
    BY <1>1 DEF c
  <2> QED BY <2>1, PowerSum, PowersOf2
<1> HIDE DEF c, p, q, x, y
<1>3. p <= p * q /\ x <= x * y
  BY <1>2
<1> QED BY <1>2, <1>3 DEF p, x

-----------------------------------------------------------------------------
(***************************************************************************)
(* What _ftoa puts around the digits, and the digits in its buffer.        *)
(***************************************************************************)
\* The characters of a number without an exponent.
Characters == DigitSet \cup {".", "-", "+", " "}
Numeric(t) == IsSeq(t) /\ \A k \in 1 .. Len(t) : t[k] \in Characters

\* Texts made of such characters: two together, backwards, one repeated, digits.
LEMMA NumericConcat ==
    ASSUME NEW s, NEW t, Numeric(s), Numeric(t)
    PROVE  Numeric(s \o t)
<1> DEFINE st == s \o t
<1>1. /\ IsSeq(st) /\ Len(st) = Len(s) + Len(t)
      /\ \A k \in 1 .. Len(s) : st[k] = s[k]
      /\ \A k \in Len(s) + 1 .. Len(s) + Len(t) : st[k] = t[k - Len(s)]
  BY Concat DEF Numeric
<1>2. Len(s) \in Nat /\ Len(t) \in Nat
  BY DEF Numeric, IsSeq
<1> HIDE DEF st
<1>3. ASSUME NEW k \in 1 .. Len(st)
      PROVE  st[k] \in Characters
  <2>1. CASE k \in 1 .. Len(s)
    BY <1>1, <2>1 DEF Numeric
  <2>2. CASE k \in Len(s) + 1 .. Len(s) + Len(t)
    <3>1. k - Len(s) \in 1 .. Len(t)
      BY <1>2, <2>2
    <3> QED BY <1>1, <2>2, <3>1 DEF Numeric
  <2> QED BY <1>1, <1>2, <2>1, <2>2
<1>4. Numeric(st)
  BY <1>1, <1>3 DEF Numeric
<1> QED BY <1>4 DEF st

LEMMA NumericReverse ==
    ASSUME NEW s, Numeric(s)
    PROVE  Numeric(Reverse(s))
<1> DEFINE r == Reverse(s)
<1>1. IsSeq(r) /\ Len(r) = Len(s) /\ \A k \in 1 .. Len(s) : r[k] = s[(Len(s) - k) + 1]
  BY Reversed DEF Numeric
<1>2. Len(s) \in Nat
  BY DEF Numeric, IsSeq
<1> HIDE DEF r
<1>3. \A k \in 1 .. Len(s) : (Len(s) - k) + 1 \in 1 .. Len(s)
  BY <1>2
<1>4. Numeric(r)
  BY <1>1, <1>3 DEF Numeric
<1> QED BY <1>4 DEF r

LEMMA NumericTimes ==
    ASSUME NEW x \in Characters, NEW n \in Nat
    PROVE  Numeric(Times(x, n))
BY TimesIs DEF Numeric

LEMMA NumericDigits ==
    ASSUME NEW v \in Nat, NEW max \in Nat \ {0}
    PROVE  Numeric(DigitsOf(v, 10, max, DigitChars))
<1> DEFINE s == DigitsOf(v, 10, max, DigitChars)
<1>1. IsSeq(s)
  BY SomeDigits
<1>2. ASSUME NEW k \in 1 .. Len(s)
      PROVE  s[k] \in Characters
  <2> DEFINE p == Power(10, k - 1)
             d == (v \div p) % 10
  <2>1. s[k] = DigitChars[d + 1]
    BY DigitAt
  <2>2. k - 1 \in Nat
    BY <1>1 DEF IsSeq
  <2>3. p \in Nat \ {0}
    BY <2>2, PowersOf2
  <2> HIDE DEF p, s
  <2>4. d \in 0 .. 9
    BY <2>3, NextDigit
  <2> HIDE DEF d
  <2>5. DigitChars[d + 1] \in DigitSet
    BY <2>4, DigitValueIs
  <2> QED BY <2>1, <2>5 DEF Characters
<1> HIDE DEF s
<1>3. Numeric(s)
  BY <1>1, <1>2 DEF Numeric
<1> QED BY <1>3 DEF s

\* Zeros for the width are added if there is room for them.
LEMMA FillAdds ==
    ASSUME NEW s, IsSeq(s), NEW n \in Int, NEW size \in Nat, Len(s) <= size
    PROVE  \E z \in Nat : Fill(s, n, size) = s \o Times("0", z) /\ Len(s) + z <= size
<1> DEFINE len == Least(n, size)
<1>0. Len(s) \in Nat /\ len \in Int /\ len <= size
  BY DEF IsSeq, Least
<1>1. Fill(s, n, size) = IF Len(s) < len THEN s \o Times("0", len - Len(s)) ELSE s
  BY DEF Fill
<1> HIDE DEF len
<1>2. CASE Len(s) < len
  <2>1. len - Len(s) \in Nat /\ Len(s) + (len - Len(s)) <= size
    BY <1>0, <1>2
  <2> QED BY <1>1, <1>2, <2>1
<1>3. CASE ~ (Len(s) < len)
  <2>1. s \o Times("0", 0) = s
    BY TimesIs, ConcatEmpty
  <2>2. Fill(s, n, size) = s
    BY <1>1, <1>3
  <2>3. Len(s) + 0 <= size /\ 0 \in Nat
    BY <1>0
  <2> QED BY <2>1, <2>2, <2>3
<1> QED BY <1>2, <1>3

\* A buffer takes one character if it has room for it.
LEMMA FitOne ==
    ASSUME NEW s, IsSeq(s), NEW size \in Nat, Len(s) <= size, NEW x
    PROVE  \E m \in 0 .. 1 : Fit(s \o <<x>>, size) = s \o Times(x, m)
<1> DEFINE sign == <<x>>
           st == s \o sign
           most == Least(Len(s) + 1, size)
           m == most - Len(s)
<1>0. Len(s) \in Nat
  BY DEF IsSeq
<1>1. IsSeq(sign) /\ Len(sign) = 1 /\ \A k \in 1 .. 1 : sign[k] = x
  BY DEF IsSeq
<1> HIDE DEF sign
<1>2. IsSeq(st) /\ Len(st) = Len(s) + 1
  <2>1. IsSeq(st) /\ Len(st) = Len(s) + Len(sign)
    BY <1>1, Concat
  <2> QED BY <1>1, <2>1
<1>3. m \in 0 .. 1 /\ Len(s) + m = Least(Len(s) + 1, size)
  BY <1>0 DEF Least
<1> HIDE DEF m
<1>4. SubSeq(st, 1, Len(s) + m) = s \o Times(x, m)
  BY <1>1, <1>3, FirstPart
<1> HIDE DEF st
<1>5. Fit(st, size) = s \o Times(x, m)
  BY <1>2, <1>3, <1>4 DEF Fit
<1> QED BY <1>3, <1>5 DEF st, sign

\* Signs and spaces are no part of a number ...
LEMMA Silent ==
    \A x \in {"-", "+", " "} : x \in Characters /\ x \notin DigitSet \cup {"."}
<1>1. DigitSet = {"0", "1", "2", "3", "4", "5", "6", "7", "8", "9"}
  BY DigitsKnown
<1> QED BY <1>1 DEF Characters

\* t is s and n times x, which stands for nothing.
AddsSilent(t, s, x, n) ==
    t = s \o Times(x, n) /\ n \in Nat /\ x \in Characters /\ x \notin DigitSet \cup {"."}

\* The sign is added so.
LEMMA SignAdds ==
    ASSUME NEW flags, NEW negative, NEW s, IsSeq(s), NEW size \in Nat, Len(s) <= size
    PROVE  \E x, m : AddsSilent(WithSign(flags, negative, s, size), s, x, m)
<1> DEFINE sign == IF negative THEN <<"-">>
                   ELSE IF "+" \in flags THEN <<"+">>
                   ELSE IF " " \in flags THEN <<" ">> ELSE << >>
<1> DEFINE signed == WithSign(flags, negative, s, size)
<1>0. Len(s) \in Nat
  BY DEF IsSeq
<1>1. signed = Fit(s \o sign, size)
  BY DEF WithSign
<1> HIDE DEF signed
<1>2. sign \in {<<"-">>, <<"+">>, <<" ">>, << >>}
  OBVIOUS
<1> HIDE DEF sign
<1>3. ASSUME sign = << >>
      PROVE  \E x, m : AddsSilent(signed, s, x, m)
  <2>1. s \o sign = s
    BY <1>3, ConcatEmpty
  <2>2. Fit(s, size) = s
    BY FitAll
  <2>3. s \o Times("-", 0) = s
    BY TimesIs, ConcatEmpty
  <2>4. signed = s \o Times("-", 0)
    BY <1>1, <2>1, <2>2, <2>3
  <2>5. "-" \in Characters /\ "-" \notin DigitSet \cup {"."} /\ 0 \in Nat
    BY Silent, Zenon
  <2>6. AddsSilent(signed, s, "-", 0)
    BY <2>4, <2>5, Zenon DEF AddsSilent
  <2> QED BY <2>6
<1>5. \A m \in 0 .. 1 : m \in Nat
  OBVIOUS
<1>4. ASSUME NEW x \in {"-", "+", " "}, sign = <<x>>
      PROVE  \E m : AddsSilent(signed, s, x, m)
  <2>1. \E m \in 0 .. 1 : Fit(s \o <<x>>, size) = s \o Times(x, m)
    BY FitOne
  <2> QED BY <1>1, <1>4, <1>5, <2>1, Silent, Zenon DEF AddsSilent
<1> QED BY <1>2, <1>3, <1>4, Zenon DEF signed

\* ... and are passed over, as are zeros before a number.
LEMMA ScanSilent ==
    ASSUME NEW x, x \notin DigitSet \cup {"."}, NEW n \in Nat, NEW r
    PROVE  Scan(r, Times(x, n)) = r
<1> DEFINE t == Times(x, n)
<1>1. IsSeq(t) /\ Len(t) = n /\ \A k \in 1 .. n : t[k] = x
  BY TimesIs
<1> HIDE DEF t
<1>2. \A k \in 1 .. Len(t) : t[k] \notin DigitSet \cup {"."}
  BY <1>1
<1>3. Scan(r, t) = r
  BY <1>1, <1>2, ScanSkip
<1> QED BY <1>3 DEF t

LEMMA ScanLeading ==
    ASSUME NEW z \in Nat
    PROVE  Scan(Nothing, Times("0", z)) = Nothing
<1> DEFINE a == 0
           p == NONE
<1>1. a = 0 /\ a \in Nat /\ p \in Nat \cup {NONE} /\ p = NONE
  OBVIOUS
<1>2. Nothing = Found(a, p)
  BY Zenon DEF Nothing, Found
<1> HIDE DEF p, a
<1>3. Scan(Found(a, p), Times("0", z)) = Found(a * Power(10, z), DecimalsAfter(p, z))
  BY <1>1, ScanZeros
<1>4. a * Power(10, z) = a
  BY <1>1, PowersOf2
<1>5. DecimalsAfter(p, z) = p
  BY <1>1, Zenon DEF DecimalsAfter
<1> QED BY <1>2, <1>3, <1>4, <1>5, Zenon

\* Digits without a point.
LEMMA ScanWhole ==
    ASSUME NEW v \in Nat, NEW m \in Nat, NEW t, Shows(t, v, m)
    PROVE  Scan(Nothing, t) = Found(v, NONE)
<1> DEFINE a == 0
           p == NONE
<1>1. a = 0 /\ a \in Nat /\ p \in Nat \cup {NONE} /\ p = NONE
  OBVIOUS
<1>2. Nothing = Found(a, p)
  BY Zenon DEF Nothing, Found
<1> HIDE DEF p, a
<1>3. Scan(Found(a, p), t) = Found(a * Power(10, m) + v, DecimalsAfter(p, m))
  BY <1>1, ScanDigits
<1>4. a * Power(10, m) + v = v
  <2> DEFINE x == Power(10, m)
  <2>1. x \in Nat
    BY PowersOf2
  <2> HIDE DEF x
  <2>2. a * x + v = v
    BY <1>1, <2>1
  <2> QED BY <2>2 DEF x
<1>5. DecimalsAfter(p, m) = p
  BY <1>1, Zenon DEF DecimalsAfter
<1> QED BY <1>1, <1>2, <1>3, <1>4, <1>5, Zenon

\* The text has the digits, and around them nothing that is a part of a number.
Surrounds(text, digits) ==
    \E pre, post :
       /\ text = (pre \o digits) \o post
       /\ Numeric(pre) /\ Numeric(post)
       /\ Scan(Nothing, pre) = Nothing /\ \A r : Scan(r, post) = r

\* The number stands in the text as it is in the buffer: around it are spaces,
\* a sign and zeros.
LEMMA PrintedAround ==
    ASSUME NEW buf, Numeric(buf), Len(buf) <= FTOA_BUFFER,
           NEW negative, NEW width \in Int, NEW flags
    PROVE  Surrounds(FixedText(buf, negative, width, flags), Reverse(buf))
<1> DEFINE n == IF Zeroed(flags) THEN width ELSE 0
           padded == Fill(buf, n, FTOA_BUFFER)
           signed == WithSign(flags, negative, padded, FTOA_BUFFER)
           q == IF Len(signed) < width THEN width - Len(signed) ELSE 0
           spaces == Times(" ", q)
           rev == Reverse(signed)
           rbuf == Reverse(buf)
<1>0. IsSeq(buf) /\ FTOA_BUFFER \in Nat /\ n \in Int
  BY FloatAssumption DEF Numeric
<1>1. FixedText(buf, negative, width, flags)
        = IF "-" \in flags THEN rev \o spaces ELSE IF "0" \in flags THEN rev ELSE spaces \o rev
  BY Zenon DEF FixedText, _out_rev
<1> HIDE DEF n
<1>2. PICK z \in Nat : padded = buf \o Times("0", z) /\ Len(buf) + z <= FTOA_BUFFER
  BY <1>0, FillAdds
<1> HIDE DEF padded
<1> DEFINE zs == Times("0", z)
<1>3. IsSeq(zs) /\ Reverse(zs) = zs /\ Numeric(zs) /\ Len(zs) = z
  <2>1. "0" \in Characters
    BY DigitsKnown DEF Characters
  <2> QED BY <2>1, TimesIs, NumericTimes
<1>4. IsSeq(padded) /\ Len(padded) <= FTOA_BUFFER
  <2> HIDE DEF zs
  <2>1. padded = buf \o zs
    BY <1>2 DEF zs
  <2> QED BY <1>0, <1>2, <1>3, <2>1, Concat
<1>5. PICK x, m : AddsSilent(signed, padded, x, m)
  BY <1>0, <1>4, SignAdds
<1> HIDE DEF signed
<1>6. /\ signed = padded \o Times(x, m) /\ m \in Nat
      /\ x \in Characters /\ x \notin DigitSet \cup {"."}
  BY <1>5 DEF AddsSilent
<1> DEFINE xs == Times(x, m)
<1>7. /\ IsSeq(xs) /\ Reverse(xs) = xs /\ Numeric(xs)
      /\ \A r : Scan(r, xs) = r
  BY <1>6, TimesIs, NumericTimes, ScanSilent
<1>8. Scan(Nothing, zs) = Nothing
  BY ScanLeading
<1>9. IsSeq(rbuf) /\ Numeric(rbuf)
  BY NumericReverse DEF Numeric
<1>10. signed = padded \o xs /\ padded = buf \o zs
  BY <1>2, <1>6
<1> HIDE DEF zs, xs, rbuf
<1>11. IsSeq(signed)
  BY <1>4, <1>7, <1>10, Concat
<1> DEFINE pre == xs \o zs
<1>12. rev = pre \o rbuf
  <2>1. Reverse(signed) = xs \o Reverse(padded)
    BY <1>4, <1>7, <1>10, ReverseConcat
  <2>2. Reverse(padded) = zs \o rbuf
    BY <1>0, <1>3, <1>10, ReverseConcat DEF rbuf
  <2>3. xs \o (zs \o rbuf) = (xs \o zs) \o rbuf
    <3> HIDE DEF pre, rev, spaces, q
    <3>1. IsSeq(zs) /\ IsSeq(xs) /\ IsSeq(rbuf)
      BY <1>3, <1>7, <1>9
    <3>2. (xs \o zs) \o rbuf = xs \o (zs \o rbuf)
      BY <3>1, JoinAssociative
    <3> QED BY <3>2
  <2> QED BY <2>1, <2>2, <2>3
<1>13. /\ Numeric(pre) /\ IsSeq(pre) /\ Scan(Nothing, pre) = Nothing
  <2>1. Numeric(pre)
    BY <1>3, <1>7, NumericConcat
  <2>2. Scan(Nothing, pre) = Scan(Scan(Nothing, xs), zs)
    BY <1>3, <1>7, ScanConcat
  <2> QED BY <1>7, <1>8, <2>1, <2>2 DEF Numeric
<1>14. /\ IsSeq(spaces) /\ Numeric(spaces) /\ \A r : Scan(r, spaces) = r
  <2>1. q \in Nat
    BY <1>11 DEF IsSeq
  <2> HIDE DEF q
  <2>2. " " \in Characters /\ " " \notin DigitSet \cup {"."}
    BY Silent, Zenon
  <2> QED BY <2>1, <2>2, TimesIs, NumericTimes, ScanSilent
<1>15. /\ Numeric(<< >>) /\ IsSeq(<< >>) /\ \A r : Scan(r, << >>) = r
  <2>1. IsSeq(<< >>) /\ Len(<< >>) = 0
    BY DEF IsSeq
  <2>2. \A k \in 1 .. Len(<< >>) : FALSE
    BY <2>1
  <2>3. Numeric(<< >>)
    BY <2>1, <2>2 DEF Numeric
  <2>4. \A r : Scan(r, << >>) = r
    BY <2>1, <2>2, ScanSkip
  <2> QED BY <2>1, <2>3, <2>4
<1> HIDE DEF pre, rev, spaces
<1>16. rev = (pre \o rbuf) \o << >>
  <2>1. IsSeq(pre \o rbuf)
    BY <1>9, <1>13, Concat
  <2> QED BY <1>12, <2>1, ConcatEmpty
<1>17. spaces \o rev = ((spaces \o pre) \o rbuf) \o << >>
  <2>1. spaces \o (pre \o rbuf) = (spaces \o pre) \o rbuf
    BY <1>9, <1>13, <1>14, JoinAssociative
  <2>2. IsSeq((spaces \o pre) \o rbuf)
    <3>1. IsSeq(spaces \o pre)
      BY <1>13, <1>14, Concat
    <3> QED BY <1>9, <3>1, Concat
  <2> QED BY <1>12, <2>1, <2>2, ConcatEmpty
<1>18. Numeric(spaces \o pre) /\ Scan(Nothing, spaces \o pre) = Nothing
  <2>1. Scan(Nothing, spaces \o pre) = Scan(Scan(Nothing, spaces), pre)
    BY <1>13, <1>14, ScanConcat
  <2>2. Scan(Nothing, spaces) = Nothing
    BY <1>14
  <2> QED BY <1>13, <1>14, <2>1, <2>2, NumericConcat
<1>19. CASE "-" \in flags
  <2>1. FixedText(buf, negative, width, flags) = (pre \o rbuf) \o spaces
    BY <1>1, <1>12, <1>19
  <2> QED BY <1>13, <1>14, <2>1, Zenon DEF rbuf, Surrounds
<1>20. CASE "-" \notin flags /\ "0" \in flags
  <2>1. FixedText(buf, negative, width, flags) = (pre \o rbuf) \o << >>
    BY <1>1, <1>16, <1>20
  <2> QED BY <1>13, <1>15, <2>1, Zenon DEF rbuf, Surrounds
<1>21. CASE "-" \notin flags /\ "0" \notin flags
  <2>1. FixedText(buf, negative, width, flags) = ((spaces \o pre) \o rbuf) \o << >>
    BY <1>1, <1>17, <1>21
  <2> QED BY <1>15, <1>18, <2>1, Zenon DEF rbuf, Surrounds
<1> QED BY <1>19, <1>20, <1>21

\* A minus in a text, wherever it is.
Minus(t) == \E k \in 1 .. Len(t) : t[k] = "-"

LEMMA MinusConcat ==
    ASSUME NEW s, NEW t, IsSeq(s), IsSeq(t)
    PROVE  Minus(s \o t) <=> Minus(s) \/ Minus(t)
<1> DEFINE st == s \o t
<1>0. Len(s) \in Nat /\ Len(t) \in Nat
  BY DEF IsSeq
<1>1. /\ Len(st) = Len(s) + Len(t)
      /\ \A k \in 1 .. Len(s) : st[k] = s[k]
      /\ \A k \in Len(s) + 1 .. Len(s) + Len(t) : st[k] = t[k - Len(s)]
  BY Concat
<1> HIDE DEF st
<1>2. ASSUME NEW k \in 1 .. Len(st), st[k] = "-"
      PROVE  Minus(s) \/ Minus(t)
  <2>1. CASE k \in 1 .. Len(s)
    BY <1>1, <1>2, <2>1 DEF Minus
  <2>2. CASE k \notin 1 .. Len(s)
    <3>1. k \in Len(s) + 1 .. Len(s) + Len(t) /\ k - Len(s) \in 1 .. Len(t)
      BY <1>0, <1>1, <2>2
    <3>2. t[k - Len(s)] = "-"
      BY <1>1, <1>2, <3>1
    <3> QED BY <3>1, <3>2 DEF Minus
  <2> QED BY <2>1, <2>2
<1>3. ASSUME NEW k \in 1 .. Len(s), s[k] = "-"
      PROVE  Minus(st)
  <2>1. k \in 1 .. Len(st) /\ st[k] = "-"
    BY <1>0, <1>1, <1>3
  <2> QED BY <2>1 DEF Minus
<1>4. ASSUME NEW k \in 1 .. Len(t), t[k] = "-"
      PROVE  Minus(st)
  <2>1. k + Len(s) \in Len(s) + 1 .. Len(s) + Len(t) /\ (k + Len(s)) - Len(s) = k
    BY <1>0
  <2>2. k + Len(s) \in 1 .. Len(st) /\ st[k + Len(s)] = "-"
    BY <1>0, <1>1, <1>4, <2>1
  <2> QED BY <2>2 DEF Minus
<1>5. Minus(st) => Minus(s) \/ Minus(t)
  BY <1>2, Zenon DEF Minus
<1>6. Minus(s) \/ Minus(t) => Minus(st)
  BY <1>3, <1>4, Zenon DEF Minus
<1> QED BY <1>5, <1>6 DEF st

LEMMA MinusReverse ==
    ASSUME NEW s, IsSeq(s)
    PROVE  Minus(Reverse(s)) <=> Minus(s)
<1> DEFINE u == Reverse(s)
<1>1. /\ Len(s) \in Nat /\ Len(u) = Len(s)
      /\ \A k \in 1 .. Len(s) : u[k] = s[(Len(s) - k) + 1]
  BY Reversed DEF IsSeq
<1> HIDE DEF u
<1>2. ASSUME NEW k \in 1 .. Len(u), u[k] = "-"
      PROVE  Minus(s)
  <2>1. (Len(s) - k) + 1 \in 1 .. Len(s) /\ s[(Len(s) - k) + 1] = "-"
    BY <1>1, <1>2
  <2> QED BY <2>1 DEF Minus
<1>3. ASSUME NEW k \in 1 .. Len(s), s[k] = "-"
      PROVE  Minus(u)
  <2> DEFINE j == (Len(s) - k) + 1
  <2>1. j \in 1 .. Len(s) /\ (Len(s) - j) + 1 = k
    BY <1>1
  <2> HIDE DEF j
  <2>2. j \in 1 .. Len(u) /\ u[j] = "-"
    BY <1>1, <1>3, <2>1
  <2> QED BY <2>2 DEF Minus
<1>4. Minus(u) <=> Minus(s)
  BY <1>2, <1>3, Zenon DEF Minus
<1> QED BY <1>4 DEF u

LEMMA MinusTimes ==
    ASSUME NEW x, x # "-", NEW n \in Nat
    PROVE  ~ Minus(Times(x, n))
<1>1. Len(Times(x, n)) = n /\ \A k \in 1 .. n : Times(x, n)[k] = x
  BY TimesIs
<1> QED BY <1>1, Zenon DEF Minus

LEMMA MinusFit ==
    ASSUME NEW s, IsSeq(s), NEW size \in Nat, ~ Minus(s)
    PROVE  ~ Minus(Fit(s, size))
<1> DEFINE m == Least(Len(s), size)
           f == Fit(s, size)
           S == {s[k] : k \in 1 .. Len(s)}
<1>1. Len(s) \in Nat /\ m \in 0 .. Len(s)
  BY DEF IsSeq, Least
<1>2. s \in Seq(S)
  <2>1. s \in [1 .. Len(s) -> S]
    BY DEF IsSeq
  <2> HIDE DEF S
  <2> QED BY <1>1, <2>1, SeqDef
<1>3. f = SubSeq(s, 1, m)
  BY DEF Fit
<1> HIDE DEF m, f, S
<1>4. Len(f) = m /\ \A k \in 1 .. m : f[k] = s[k]
  <2>1. /\ Len(f) = IF 1 <= m THEN m - 1 + 1 ELSE 0
        /\ \A k \in 1 .. m - 1 + 1 : f[k] = s[1 + k - 1]
    BY <1>1, <1>2, <1>3, SubSeqProperties
  <2> QED BY <1>1, <2>1
<1>5. \A k \in 1 .. m : k \in 1 .. Len(s)
  BY <1>1
<1>6. ~ Minus(f)
  BY <1>4, <1>5, Zenon DEF Minus
<1> QED BY <1>6 DEF f

LEMMA MinusDigits ==
    ASSUME NEW v \in Nat, NEW max \in Nat \ {0}
    PROVE  ~ Minus(DigitsOf(v, 10, max, DigitChars))
<1> DEFINE s == DigitsOf(v, 10, max, DigitChars)
<1>1. IsSeq(s)
  BY SomeDigits
<1>2. ASSUME NEW k \in 1 .. Len(s)
      PROVE  s[k] # "-"
  <2> DEFINE p == Power(10, k - 1)
             d == (v \div p) % 10
  <2>1. s[k] = DigitChars[d + 1]
    BY DigitAt
  <2>2. k - 1 \in Nat
    BY <1>1 DEF IsSeq
  <2>3. p \in Nat \ {0}
    BY <2>2, PowersOf2
  <2> HIDE DEF p, s
  <2>4. d \in 0 .. 9
    BY <2>3, NextDigit
  <2> HIDE DEF d
  <2>5. DigitChars[d + 1] \in DigitSet
    BY <2>4, DigitValueIs
  <2> QED BY <2>1, <2>5, Silent
<1> HIDE DEF s
<1>3. ~ Minus(s)
  BY <1>2, Zenon DEF Minus
<1> QED BY <1>3 DEF s

\* The buffer of _ftoa has none before the sign is stored.
LEMMA BufferUnsigned ==
    ASSUME NEW halves, halves.whole \in Nat, halves.frac \in Nat,
           NEW prec \in Nat, NEW asked \in Nat, prec <= asked
    PROVE  ~ Minus(FixedBuffer(halves, prec, asked))
<1> DEFINE s == DigitsOf(halves.whole, 10, FTOA_BUFFER, DigitChars)
           t == DigitsOf(halves.frac, 10, FTOA_BUFFER, DigitChars)
           count == IF Len(t) <= prec THEN prec - Len(t) ELSE FTOA_BUFFER
           zeros == Times("0", asked - prec)
           added == Times("0", count)
           point == <<".">>
           after == IF prec = 0 THEN << >> ELSE t \o added \o point
           all == zeros \o after \o s
<1>0. FTOA_BUFFER \in Nat \ {0} /\ FTOA_BUFFER \in Nat /\ "0" # "-" /\ "." # "-"
  BY FloatAssumption
<1>1. FixedBuffer(halves, prec, asked) = Fit(all, FTOA_BUFFER)
  BY DEF FixedBuffer
<1>2. IsSeq(s) /\ ~ Minus(s) /\ IsSeq(t) /\ ~ Minus(t)
  BY <1>0, MinusDigits, SomeDigits
<1>3. count \in Nat /\ asked - prec \in Nat
  <2>1. Len(t) \in Nat
    BY <1>2 DEF IsSeq
  <2> HIDE DEF t
  <2> QED BY <1>0, <2>1
<1> HIDE DEF s, t, count
<1>4. IsSeq(zeros) /\ ~ Minus(zeros) /\ IsSeq(added) /\ ~ Minus(added)
  BY <1>0, <1>3, MinusTimes, TimesIs
<1>5. IsSeq(point) /\ ~ Minus(point) /\ IsSeq(<< >>) /\ ~ Minus(<< >>)
  BY DEF IsSeq, Minus
<1> HIDE DEF zeros, added, point
<1>6. IsSeq(after) /\ ~ Minus(after)
  <2> DEFINE ta == t \o added
  <2>1. IsSeq(ta) /\ ~ Minus(ta)
    BY <1>2, <1>4, Concat, MinusConcat
  <2> HIDE DEF ta
  <2>2. IsSeq(ta \o point) /\ ~ Minus(ta \o point)
    BY <1>5, <2>1, Concat, MinusConcat
  <2> QED BY <1>5, <2>2 DEF ta
<1> HIDE DEF after
<1>7. IsSeq(all) /\ ~ Minus(all)
  <2> DEFINE za == zeros \o after
  <2>1. IsSeq(za) /\ ~ Minus(za)
    BY <1>4, <1>6, Concat, MinusConcat
  <2> HIDE DEF za
  <2>2. IsSeq(za \o s) /\ ~ Minus(za \o s)
    BY <1>2, <2>1, Concat, MinusConcat
  <2> QED BY <2>2 DEF za
<1> HIDE DEF all
<1> QED BY <1>0, <1>1, <1>7, MinusFit

\* The sign is in the text if the number has one and the zeros of the width leave
\* room for it.
LEMMA MinusPrinted ==
    ASSUME NEW buf, IsSeq(buf), ~ Minus(buf), Len(buf) < FTOA_BUFFER,
           NEW negative, NEW width \in Int, NEW flags,
           negative /\ Zeroed(flags) => width < FTOA_BUFFER
    PROVE  Minus(FixedText(buf, negative, width, flags)) <=> negative
<1> DEFINE n == IF Zeroed(flags) THEN width ELSE 0
           padded == Fill(buf, n, FTOA_BUFFER)
           sign == IF negative THEN <<"-">>
                   ELSE IF "+" \in flags THEN <<"+">>
                   ELSE IF " " \in flags THEN <<" ">> ELSE << >>
           signed == WithSign(flags, negative, padded, FTOA_BUFFER)
           q == IF Len(signed) < width THEN width - Len(signed) ELSE 0
           spaces == Times(" ", q)
           rev == Reverse(signed)
<1>0. FTOA_BUFFER \in Nat \ {0} /\ n \in Int /\ Len(buf) \in Nat /\ "0" # "-" /\ " " # "-"
  BY FloatAssumption DEF IsSeq
<1>1. FixedText(buf, negative, width, flags)
        = IF "-" \in flags THEN rev \o spaces ELSE IF "0" \in flags THEN rev ELSE spaces \o rev
  BY Zenon DEF FixedText, _out_rev
<1>2. signed = Fit(padded \o sign, FTOA_BUFFER)
  BY DEF WithSign
<1> HIDE DEF signed
<1>3. negative => n < FTOA_BUFFER
  BY <1>0
<1> HIDE DEF n
<1>4. IsSeq(padded) /\ ~ Minus(padded) /\ (negative => Len(padded) < FTOA_BUFFER)
  <2>1. PICK z \in Nat : padded = buf \o Times("0", z)
    <3>1. Len(buf) <= FTOA_BUFFER /\ FTOA_BUFFER \in Nat
      BY <1>0
    <3> QED BY <1>0, <3>1, FillAdds
  <2> DEFINE zs == Times("0", z)
  <2>2. IsSeq(zs) /\ ~ Minus(zs)
    BY <1>0, TimesIs, MinusTimes
  <2> HIDE DEF zs
  <2>3. IsSeq(buf \o zs) /\ ~ Minus(buf \o zs)
    BY <2>2, Concat, MinusConcat
  <2>4. ASSUME negative
        PROVE  Len(padded) < FTOA_BUFFER
    <3>1. Least(n, FTOA_BUFFER) = n
      BY <1>0, <1>3, <2>4 DEF Least
    <3>2. padded = IF Len(buf) < n THEN buf \o Times("0", n - Len(buf)) ELSE buf
      BY <3>1 DEF Fill
    <3>3. CASE Len(buf) < n
      <4> DEFINE m == n - Len(buf)
                 ms == Times("0", m)
      <4>1. m \in Nat
        BY <1>0, <3>3
      <4>2. IsSeq(ms) /\ Len(ms) = m
        <5> HIDE DEF m
        <5> QED BY <4>1, TimesIs
      <4> HIDE DEF ms
      <4>3. Len(buf \o ms) = Len(buf) + m
        BY <4>2, Concat
      <4>4. Len(padded) = n
        BY <1>0, <3>2, <3>3, <4>3 DEF ms
      <4> QED BY <1>3, <2>4, <4>4
    <3>4. CASE ~ (Len(buf) < n)
      BY <3>2, <3>4
    <3> QED BY <3>3, <3>4
  <2> QED BY <2>1, <2>3, <2>4 DEF zs
<1> HIDE DEF padded
<1>5. /\ IsSeq(sign) /\ Len(sign) <= 1
      /\ Minus(sign) <=> negative
  <2>1. /\ \A x : IsSeq(<<x>>) /\ Len(<<x>>) = 1 /\ (Minus(<<x>>) <=> x = "-")
        /\ IsSeq(<< >>) /\ Len(<< >>) = 0 /\ ~ Minus(<< >>)
    BY DEF IsSeq, Minus
  <2>2. CASE negative
    <3>1. sign = <<"-">>
      BY <2>2
    <3> HIDE DEF sign
    <3>2. IsSeq(sign) /\ Len(sign) = 1 /\ Minus(sign)
      BY <2>1, <3>1, Zenon
    <3> QED BY <2>2, <3>2
  <2>3. CASE ~ negative
    <3>1. sign \in {<<"+">>, <<" ">>, << >>}
      BY <2>3
    <3> HIDE DEF sign
    <3>2. IsSeq(sign) /\ (Len(sign) = 1 \/ Len(sign) = 0) /\ ~ Minus(sign)
      <4>1. "+" # "-" /\ " " # "-"
        OBVIOUS
      <4> QED BY <2>1, <3>1, <4>1, Zenon
    <3> QED BY <2>3, <3>2
  <2> QED BY <2>2, <2>3
<1> HIDE DEF sign
<1> DEFINE ps == padded \o sign
<1>6. IsSeq(ps) /\ Len(ps) = Len(padded) + Len(sign) /\ (Minus(ps) <=> negative)
  <2>1. IsSeq(ps) /\ Len(ps) = Len(padded) + Len(sign)
    BY <1>4, <1>5, Concat
  <2>2. Minus(ps) <=> Minus(padded) \/ Minus(sign)
    BY <1>4, <1>5, MinusConcat
  <2> HIDE DEF ps
  <2> QED BY <1>4, <1>5, <2>1, <2>2, Zenon
<1> HIDE DEF ps
<1>7. FTOA_BUFFER \in Nat /\ Len(padded) \in Nat /\ Len(sign) \in Nat
  BY <1>0, <1>4, <1>5 DEF IsSeq
<1>8. IsSeq(signed) /\ (Minus(signed) <=> negative)
  <2>1. signed = Fit(ps, FTOA_BUFFER)
    BY <1>2 DEF ps
  <2>2. CASE negative
    <3>1. Len(ps) <= FTOA_BUFFER
      BY <1>4, <1>5, <1>6, <1>7, <2>2
    <3>2. signed = ps
      BY <1>6, <1>7, <2>1, <3>1, FitAll
    <3> QED BY <1>6, <3>2
  <2>3. CASE ~ negative
    <3>1. IsSeq(signed)
      BY <1>6, <1>7, <2>1, FitIs
    <3>2. ~ Minus(signed)
      BY <1>6, <1>7, <2>1, <2>3, MinusFit
    <3> QED BY <2>3, <3>1, <3>2
  <2> QED BY <2>2, <2>3
<1>9. IsSeq(rev) /\ (Minus(rev) <=> negative)
  <2>1. IsSeq(rev)
    BY <1>8, Reversed
  <2>2. Minus(rev) <=> Minus(signed)
    BY <1>8, MinusReverse
  <2> HIDE DEF rev
  <2> QED BY <1>8, <2>1, <2>2, Zenon
<1>10. IsSeq(spaces) /\ ~ Minus(spaces)
  <2>1. q \in Nat
    BY <1>8 DEF IsSeq
  <2> HIDE DEF q
  <2> QED BY <1>0, <2>1, TimesIs, MinusTimes
<1> HIDE DEF rev, spaces
<1>11. Minus(rev \o spaces) <=> Minus(rev) \/ Minus(spaces)
  BY <1>9, <1>10, MinusConcat
<1>12. Minus(spaces \o rev) <=> Minus(rev) \/ Minus(spaces)
  BY <1>9, <1>10, MinusConcat
<1> QED BY <1>1, <1>9, <1>10, <1>11, <1>12, Zenon

\* There are no more digits than the number needs.
LEMMA DigitsFit ==
    ASSUME NEW v \in Nat, NEW max \in Nat, NEW m \in 1 .. max - 1, v < Power(10, m)
    PROVE  /\ Len(DigitsOf(v, 10, max, DigitChars)) \in 1 .. m
           /\ v < Power(10, Len(DigitsOf(v, 10, max, DigitChars)))
<1> DEFINE l == Len(DigitsOf(v, 10, max, DigitChars))
<1>0. max \in Nat \ {0}
  OBVIOUS
<1>1. l \in 1 .. max
  BY <1>0, SomeDigits
<1>2. l = max \/ v < Power(10, l)
  BY <1>0, SomeDigits
<1>3. \A j \in 1 .. l - 1 : ~ (v < Power(10, j))
  BY <1>0, SomeDigits
<1> HIDE DEF l
<1>4. l <= m
  <2> SUFFICES ASSUME l > m
               PROVE  FALSE
    BY <1>1
  <2>1. m \in 1 .. l - 1
    BY <1>1
  <2> QED BY <1>3, <2>1
<1>5. l \in 1 .. m /\ l # max
  BY <1>1, <1>4
<1>6. v < Power(10, l)
  BY <1>2, <1>5
<1> QED BY <1>5, <1>6 DEF l

\* One character, as a repetition.
LEMMA OneChar ==
    ASSUME NEW x
    PROVE  <<x>> = Times(x, 1)
<1> DEFINE s == <<x>>
           t == Times(x, 1)
<1>1. IsSeq(s) /\ Len(s) = 1 /\ s[1] = x
  BY DEF IsSeq
<1>2. IsSeq(t) /\ Len(t) = 1 /\ \A k \in 1 .. 1 : t[k] = x
  BY TimesIs
<1> HIDE DEF s, t
<1>3. \A k \in 1 .. Len(s) : s[k] = t[k]
  BY <1>1, <1>2
<1>4. s = t
  BY <1>1, <1>2, <1>3, SameSeq
<1> QED BY <1>4 DEF s, t

\* The number in the buffer of _ftoa if it has room for it: no precision.
LEMMA WholeBuffer ==
    ASSUME NEW halves, halves.whole \in Nat, FTOA_BUFFER >= 3,
           halves.whole < Power(10, FTOA_BUFFER - 2)
    PROVE  /\ Numeric(FixedBuffer(halves, 0, 0)) /\ Len(FixedBuffer(halves, 0, 0)) < FTOA_BUFFER
           /\ Scan(Nothing, Reverse(FixedBuffer(halves, 0, 0))) = Found(halves.whole, NONE)
<1> DEFINE W == halves.whole
           s == DigitsOf(W, 10, FTOA_BUFFER, DigitChars)
           buf == FixedBuffer(halves, 0, 0)
           zeros == Times("0", 0 - 0)
<1>0. FTOA_BUFFER \in Nat \ {0} /\ FTOA_BUFFER - 2 \in 1 .. FTOA_BUFFER - 1
  BY FloatAssumption
<1>1. buf = Fit(zeros \o << >> \o s, FTOA_BUFFER)
  BY DEF FixedBuffer
<1>2. zeros = << >>
  BY TimesIs
<1>3. /\ Len(s) \in 1 .. FTOA_BUFFER - 2 /\ W < Power(10, Len(s))
      /\ Numeric(s) /\ IsSeq(s)
  BY <1>0, DigitsFit, NumericDigits DEF Numeric
<1>4. Scan(Nothing, Reverse(s)) = Found(W, NONE)
  <2> DEFINE m == Len(s)
  <2>1. m \in Nat /\ W < Power(10, m) /\ FTOA_BUFFER \in Nat \ {0} /\ W \in Nat
    BY <1>0, <1>3
  <2>2. Shows(Reverse(s), W, m)
    BY <2>1, ShowsNumber
  <2> HIDE DEF m, W, s
  <2> QED BY <2>1, <2>2, ScanWhole
<1> HIDE DEF zeros, s, buf
<1>5. buf = s
  <2>1. zeros \o << >> \o s = s
    BY <1>2, <1>3, ConcatEmpty
  <2>2. Fit(s, FTOA_BUFFER) = s
    BY <1>0, <1>3, FitAll
  <2> QED BY <1>1, <2>1, <2>2
<1>7. Scan(Nothing, Reverse(buf)) = Found(W, NONE)
  BY <1>4, <1>5, Zenon
<1>8. Numeric(buf) /\ Len(buf) < FTOA_BUFFER
  BY <1>0, <1>3, <1>5
<1> QED BY <1>7, <1>8 DEF buf

\* And with one.
LEMMA PointBuffer ==
    ASSUME NEW halves, halves.whole \in Nat, halves.frac \in Nat,
           NEW asked \in Nat, NEW prec \in 1 .. asked, halves.frac < Power(10, prec),
           asked + 3 <= FTOA_BUFFER, halves.whole < Power(10, (FTOA_BUFFER - asked) - 2)
    PROVE  /\ Numeric(FixedBuffer(halves, prec, asked))
           /\ Len(FixedBuffer(halves, prec, asked)) < FTOA_BUFFER
           /\ Scan(Nothing, Reverse(FixedBuffer(halves, prec, asked)))
                = Found((halves.whole * Power(10, prec) + halves.frac) * Power(10, asked - prec), asked)
<1> DEFINE W == halves.whole
           F == halves.frac
           s == DigitsOf(W, 10, FTOA_BUFFER, DigitChars)
           t == DigitsOf(F, 10, FTOA_BUFFER, DigitChars)
           m == Len(s)
           n == Len(t)
           count == IF n <= prec THEN prec - n ELSE FTOA_BUFFER
           added == Times("0", count)
           after == t \o added \o <<".">>
           buf == FixedBuffer(halves, prec, asked)
           zeros == Times("0", asked - prec)
<1>0. /\ FTOA_BUFFER \in Nat \ {0} /\ (FTOA_BUFFER - asked) - 2 \in 1 .. FTOA_BUFFER - 1
      /\ prec \in 1 .. FTOA_BUFFER - 1 /\ asked - prec \in Nat /\ prec \in Nat /\ prec # 0
  BY FloatAssumption
<1>1. buf = Fit(zeros \o after \o s, FTOA_BUFFER)
  BY <1>0 DEF FixedBuffer
<1>2. m \in 1 .. (FTOA_BUFFER - asked) - 2 /\ W < Power(10, m) /\ m \in Nat
  <2> DEFINE most == (FTOA_BUFFER - asked) - 2
  <2>1. W \in Nat /\ most \in 1 .. FTOA_BUFFER - 1 /\ W < Power(10, most)
    BY <1>0
  <2> HIDE DEF W, most
  <2>2. m \in 1 .. most /\ W < Power(10, m)
    BY <1>0, <2>1, DigitsFit
  <2>3. m \in Nat
    BY <1>0, <2>1, <2>2
  <2> QED BY <2>2, <2>3 DEF most
<1>3. n \in 1 .. prec /\ F < Power(10, n) /\ n \in Nat
  <2>1. F \in Nat /\ F < Power(10, prec)
    OBVIOUS
  <2> HIDE DEF F
  <2>2. n \in 1 .. prec /\ F < Power(10, n)
    BY <1>0, <2>1, DigitsFit
  <2>3. n \in Nat
    BY <1>0, <2>2
  <2> QED BY <2>2, <2>3
<1>4. Shows(Reverse(s), W, m) /\ Shows(Reverse(t), F, n)
  <2>1. Shows(Reverse(s), W, m)
    BY <1>0, <1>2, ShowsNumber
  <2>2. Shows(Reverse(t), F, n)
    BY <1>0, <1>3, ShowsNumber
  <2> QED BY <2>1, <2>2
<1>5. Numeric(s) /\ IsSeq(s) /\ Numeric(t) /\ IsSeq(t)
  BY <1>0, NumericDigits DEF Numeric
<1>6. m = Len(s) /\ n = Len(t) /\ W \in Nat /\ F \in Nat
  OBVIOUS
<1>7. count = prec - n /\ count \in Nat /\ count + n = prec
  BY <1>0, <1>3
<1> HIDE DEF W, F, s, t, m, n, count, buf
<1>8. /\ IsSeq(added) /\ Len(added) = count /\ Reverse(added) = added /\ Numeric(added)
      /\ IsSeq(zeros) /\ Len(zeros) = asked - prec /\ Reverse(zeros) = zeros /\ Numeric(zeros)
  <2>1. "0" \in Characters
    BY DigitsKnown DEF Characters
  <2> QED BY <1>0, <1>7, <2>1, TimesIs, NumericTimes
<1>9. /\ IsSeq(<<".">>) /\ Len(<<".">>) = 1 /\ Reverse(<<".">>) = <<".">> /\ Numeric(<<".">>)
  <2>1. "." \in Characters
    BY DEF Characters
  <2>2. <<".">> = Times(".", 1)
    BY OneChar
  <2> QED BY <2>1, <2>2, TimesIs, NumericTimes
<1> DEFINE point == <<".">>
           ta == t \o added
           za == zeros \o after
           all == za \o s
<1>10. IsSeq(point) /\ Len(point) = 1 /\ Reverse(point) = point /\ Numeric(point)
  BY <1>9
<1>11. after = ta \o point
  OBVIOUS
<1> HIDE DEF added, zeros, point, after
<1>12. IsSeq(ta) /\ Len(ta) = n + count /\ Numeric(ta) /\ Reverse(ta) = added \o Reverse(t)
  BY <1>5, <1>6, <1>8, Concat, NumericConcat, ReverseConcat
<1> HIDE DEF ta
<1>13. IsSeq(after) /\ Len(after) = prec + 1 /\ Numeric(after) /\ Reverse(after) = point \o Reverse(ta)
  <2>0. IsSeq(ta \o point) /\ Len(ta \o point) = Len(ta) + Len(point)
    BY <1>10, <1>12, Concat
  <2>1. IsSeq(after) /\ Len(after) = (n + count) + 1
    BY <1>10, <1>11, <1>12, <2>0
  <2>2. Numeric(after)
    BY <1>10, <1>11, <1>12, NumericConcat
  <2>3. Reverse(after) = point \o Reverse(ta)
    BY <1>10, <1>11, <1>12, ReverseConcat
  <2>4. (n + count) + 1 = prec + 1
    BY <1>3, <1>7
  <2> QED BY <2>1, <2>2, <2>3, <2>4
<1>14. IsSeq(za) /\ Len(za) = asked + 1 /\ Numeric(za) /\ Reverse(za) = Reverse(after) \o zeros
  <2>0. IsSeq(zeros \o after) /\ Len(zeros \o after) = Len(zeros) + Len(after)
    BY <1>8, <1>13, Concat
  <2>1. IsSeq(za) /\ Len(za) = (asked - prec) + (prec + 1)
    BY <1>8, <1>13, <2>0
  <2>2. Numeric(za)
    BY <1>8, <1>13, NumericConcat
  <2>3. Reverse(za) = Reverse(after) \o zeros
    BY <1>8, <1>13, ReverseConcat
  <2>4. (asked - prec) + (prec + 1) = asked + 1
    OBVIOUS
  <2> QED BY <2>1, <2>2, <2>3, <2>4
<1> HIDE DEF za
<1>15. IsSeq(all) /\ Len(all) < FTOA_BUFFER /\ Numeric(all) /\ Reverse(all) = Reverse(s) \o Reverse(za)
  <2>0. IsSeq(za \o s) /\ Len(za \o s) = Len(za) + Len(s)
    BY <1>5, <1>14, Concat, Zenon
  <2>1. IsSeq(all) /\ Len(all) = (asked + 1) + m
    BY <1>6, <1>14, <2>0
  <2>2. Numeric(all)
    BY <1>5, <1>14, NumericConcat
  <2>3. Reverse(all) = Reverse(s) \o Reverse(za)
    BY <1>5, <1>14, ReverseConcat
  <2>4. (asked + 1) + m < FTOA_BUFFER
    BY <1>0, <1>2
  <2> QED BY <2>1, <2>2, <2>3, <2>4
<1>16. buf = all
  <2>1. zeros \o after \o s = all
    BY DEF za
  <2> HIDE DEF all
  <2>2. Fit(all, FTOA_BUFFER) = all
    <3>1. Len(all) <= FTOA_BUFFER
      BY <1>0, <1>15 DEF IsSeq
    <3> QED BY <1>0, <1>15, <3>1, FitAll
  <2> QED BY <1>1, <2>1, <2>2
<1> DEFINE P == Power(10, count)
           Q == Power(10, n)
           R == Power(10, asked - prec)
<1>17. /\ P \in Nat /\ Q \in Nat /\ R \in Nat
  BY <1>0, <1>3, <1>7, PowersOf2
<1>18. Scan(Nothing, Reverse(s)) = Found(W, NONE)
  BY <1>2, <1>4, <1>6, ScanWhole
<1>19. Scan(Found(W, NONE), point) = Found(W, 0)
  BY ScanPoint DEF point
<1>20. Scan(Found(W, 0), added) = Found(W * P, count)
  <2>1. Scan(Found(W, 0), added) = Found(W * P, DecimalsAfter(0, count))
    BY <1>6, <1>7, ScanZeros DEF added
  <2>2. DecimalsAfter(0, count) = count
    BY <1>7 DEF DecimalsAfter, NONE
  <2> QED BY <2>1, <2>2
<1> DEFINE V == W * P
<1>21. Scan(Found(V, count), Reverse(t)) = Found(V * Q + F, prec)
  <2>1. V \in Nat
    <3> HIDE DEF P
    <3> QED BY <1>6, <1>17
  <2> HIDE DEF V
  <2>2. Scan(Found(V, count), Reverse(t)) = Found(V * Q + F, DecimalsAfter(count, n))
    BY <1>3, <1>4, <1>6, <1>7, <2>1, ScanDigits
  <2>3. DecimalsAfter(count, n) = prec
    BY <1>7 DEF DecimalsAfter, NONE
  <2> QED BY <2>2, <2>3
<1> DEFINE X == V * Q + F
<1>22. Scan(Found(X, prec), zeros) = Found(X * R, asked)
  <2>1. X \in Nat
    <3> HIDE DEF P, Q
    <3> QED BY <1>6, <1>17
  <2> HIDE DEF X
  <2>2. Scan(Found(X, prec), zeros) = Found(X * R, DecimalsAfter(prec, asked - prec))
    BY <1>0, <2>1, ScanZeros DEF zeros
  <2>3. DecimalsAfter(prec, asked - prec) = asked
    BY <1>0 DEF DecimalsAfter, NONE
  <2> QED BY <2>2, <2>3
<1>23. X = W * Power(10, prec) + F
  <2>1. Power(10, count + n) = P * Q
    BY <1>3, <1>7, PowerSum
  <2>2. Power(10, prec) = P * Q
    BY <1>7, <2>1
  <2>3. (W * P) * Q = W * (P * Q)
    BY <1>6, <1>17
  <2> QED BY <2>2, <2>3
<1> HIDE DEF P, Q, R, V, X
<1>24. Scan(Nothing, Reverse(all)) = Found(X * R, asked)
  <2> DEFINE ra == Reverse(after)
             rs == Reverse(s)
             rt == Reverse(t)
             rta == Reverse(ta)
             rza == Reverse(za)
  <2>1. IsSeq(ra) /\ IsSeq(rs) /\ IsSeq(rt) /\ IsSeq(rta) /\ IsSeq(rza)
    BY <1>5, <1>12, <1>13, <1>14, Reversed
  <2>2. rza = ra \o zeros /\ ra = point \o rta /\ rta = added \o rt /\ Reverse(all) = rs \o rza
    BY <1>12, <1>13, <1>14, <1>15
  <2> HIDE DEF ra, rs, rt, rta, rza
  <2>3. Scan(Found(W, 0), rta) = Found(X, prec)
    <3>1. Scan(Found(W, 0), rta) = Scan(Scan(Found(W, 0), added), rt)
      BY <1>8, <2>1, <2>2, ScanConcat
    <3> QED BY <1>20, <1>21, <3>1, Zenon DEF V, X, rt
  <2>4. Scan(Found(W, NONE), ra) = Found(X, prec)
    <3>1. Scan(Found(W, NONE), ra) = Scan(Scan(Found(W, NONE), point), rta)
      BY <1>10, <2>1, <2>2, ScanConcat
    <3> QED BY <1>19, <2>3, <3>1
  <2>5. Scan(Found(W, NONE), rza) = Found(X * R, asked)
    <3>1. Scan(Found(W, NONE), rza) = Scan(Scan(Found(W, NONE), ra), zeros)
      BY <1>8, <2>1, <2>2, ScanConcat
    <3> QED BY <1>22, <2>4, <3>1
  <2>6. Scan(Nothing, rs \o rza) = Scan(Scan(Nothing, rs), rza)
    BY <2>1, ScanConcat
  <2>7. Scan(Nothing, rs) = Found(W, NONE)
    BY <1>18 DEF rs
  <2> QED BY <2>2, <2>5, <2>6, <2>7
<1>25. Scan(Nothing, Reverse(buf)) = Found((W * Power(10, prec) + F) * R, asked)
  BY <1>16, <1>23, <1>24
<1>26. Numeric(buf) /\ Len(buf) < FTOA_BUFFER
  BY <1>15, <1>16
<1> QED BY <1>25, <1>26 DEF buf, W, F, R

-----------------------------------------------------------------------------
(***************************************************************************)
(* How far the digits of _ftoa are from the number to be printed.          *)
(***************************************************************************)
\* Rounding is off by at most half a unit.
LEMMA RoundedToEven ==
    ASSUME NEW a \in Nat, NEW b \in Nat \ {0}
    PROVE  /\ RoundToEven(a, b) \in Nat
           /\ 2 * (RoundToEven(a, b) * b) <= 2 * a + b
<1> DEFINE q == a \div b
           r == a % b
           x == RoundToEven(a, b)
<1>1. a = b * q + r /\ r \in 0 .. b - 1 /\ q \in Nat
  OBVIOUS
<1>2. x = IF 2 * r > b \/ (2 * r = b /\ q % 2 = 1) THEN q + 1 ELSE q
  BY DEF RoundToEven
<1> HIDE DEF q, r, x
<1>3. x = q \/ (x = q + 1 /\ 2 * r >= b)
  BY <1>1, <1>2
<1>4. CASE x = q
  <2>1. x * b = b * q
    BY <1>1, <1>4
  <2>2. b * q \in Nat
    BY <1>1
  <2> DEFINE y == b * q
  <2> HIDE DEF y
  <2>3. a = y + r /\ x * b = y /\ y \in Nat
    BY <1>1, <2>1, <2>2 DEF y
  <2>4. 2 * (x * b) <= 2 * a + b
    BY <1>1, <2>3
  <2> QED BY <1>1, <1>4, <2>4 DEF x
<1>5. CASE x = q + 1 /\ 2 * r >= b
  <2>1. x * b = b * q + b
    BY <1>1, <1>5
  <2>2. b * q \in Nat
    BY <1>1
  <2> DEFINE y == b * q
  <2> HIDE DEF y
  <2>3. a = y + r /\ x * b = y + b /\ y \in Nat
    BY <1>1, <2>1, <2>2 DEF y
  <2>4. 2 * (x * b) <= 2 * a + b
    BY <1>1, <1>5, <2>3
  <2> QED BY <1>1, <1>5, <2>4 DEF x
<1> QED BY <1>3, <1>4, <1>5

\* What rounding to the significand does to a number.
LEMMA RoundedIs ==
    ASSUME NEW m \in Nat
    PROVE  /\ Rounded(m) \in Nat
           /\ m < Power(2, SIGNIFICAND) => Rounded(m) = m
           /\ \E u \in Nat : 2 * Rounded(m) <= 2 * m + u /\ u * Power(2, SIGNIFICAND) <= 2 * m
<1> DEFINE S == Power(2, SIGNIFICAND)
<1>0. SIGNIFICAND \in Nat \ {0} /\ S \in Nat \ {0}
  BY FloatAssumption, PowersOf2
<1>1. CASE m < S
  <2>1. Rounded(m) = m
    BY <1>1 DEF Rounded
  <2>2. 0 \in Nat /\ 2 * m <= 2 * m + 0 /\ 0 * S <= 2 * m
    BY <1>0
  <2> HIDE DEF S
  <2>3. \E u \in Nat : 2 * Rounded(m) <= 2 * m + u /\ u * S <= 2 * m
    BY <2>1, <2>2
  <2> QED BY <2>1, <2>3 DEF S
<1>2. CASE ~ (m < S)
  <2> DEFINE l == Log2(m)
             ulp == Power(2, l + 1 - SIGNIFICAND)
             x == RoundToEven(m, ulp)
  <2>1. Rounded(m) = x * ulp
    BY <1>2 DEF Rounded
  <2>2. l \in Nat /\ Power(2, l) <= m /\ m < Power(2, l + 1)
    <3>1. m \in Nat \ {0}
      BY <1>0, <1>2
    <3> QED BY <3>1, Log2Is
  <2> HIDE DEF l
  <2>3. l + 1 - SIGNIFICAND \in Nat
    <3> SUFFICES ASSUME l + 1 < SIGNIFICAND
                 PROVE  FALSE
      BY <1>0, <2>2
    <3>1. l + 1 \in Nat /\ SIGNIFICAND \in Nat /\ l + 1 <= SIGNIFICAND
      BY <1>0, <2>2
    <3>2. Power(2, l + 1) <= S /\ Power(2, l + 1) \in Nat
      BY <3>1, PowerGrows, PowersOf2
    <3> QED BY <1>0, <1>2, <2>2, <3>2
  <2>4. ulp \in Nat \ {0}
    BY <2>3, PowersOf2
  <2>5. ulp * S <= 2 * m
    <3> DEFINE d == l + 1 - SIGNIFICAND
    <3>1. d \in Nat /\ d + SIGNIFICAND = l + 1
      BY <1>0, <2>2, <2>3
    <3>2. ulp = Power(2, d)
      OBVIOUS
    <3> HIDE DEF d, ulp
    <3>3. Power(2, d + SIGNIFICAND) = Power(2, d) * S
      BY <1>0, <3>1, PowerSum
    <3>4. Power(2, l + 1) = 2 * Power(2, l) /\ Power(2, l) \in Nat
      BY <2>2, PowersOf2
    <3>5. Power(2, l + 1) = ulp * S
      BY <3>1, <3>2, <3>3
    <3> QED BY <2>2, <3>4, <3>5
  <2> HIDE DEF ulp, S
  <2>6. x \in Nat /\ 2 * (x * ulp) <= 2 * m + ulp
    BY <2>4, RoundedToEven
  <2> HIDE DEF x
  <2>7. x * ulp \in Nat
    BY <2>4, <2>6
  <2>8. 2 * Rounded(m) <= 2 * m + ulp
    BY <2>1, <2>6
  <2> QED BY <1>2, <2>1, <2>4, <2>5, <2>7, <2>8 DEF S
<1> QED BY <1>1, <1>2

\* The product of what is behind the point stays below the next whole number.
LEMMA ProductIs ==
    ASSUME NEW v, v.n \in Nat, v.k \in Nat, v.n < Power(2, SIGNIFICAND), NEW prec \in Nat
    PROVE  /\ Product(v, prec) \in Nat
           /\ Product(v, prec) < Power(10, prec) * Power(2, v.k)
           /\ prec = 0 => Product(v, prec) = v.n % Power(2, v.k)
<1> DEFINE N == v.n
           U == Power(2, v.k)
           P == Power(10, prec)
           S == Power(2, SIGNIFICAND)
           x == N % U
           m == x * P
           T == Product(v, prec)
<1>0. N \in Nat /\ U \in Nat \ {0} /\ P \in Nat \ {0} /\ S \in Nat \ {0} /\ N < S /\ (prec = 0 => P = 1)
  BY FloatAssumption, PowersOf2
<1>1. T = Rounded(m)
  BY DEF Product
<1> HIDE DEF N, U, P, S
<1>2. x \in 0 .. U - 1 /\ x <= N /\ x \in Nat
  <2>1. \A n \in Nat, u \in Nat \ {0} : n % u \in 0 .. u - 1 /\ n % u <= n
    <3> SUFFICES ASSUME NEW n \in Nat, NEW u \in Nat \ {0}
                 PROVE  n % u \in 0 .. u - 1 /\ n % u <= n
      OBVIOUS
    <3> DEFINE q == n \div u
               r == n % u
    <3>1. n = u * q + r /\ r \in 0 .. u - 1 /\ q \in Nat
      OBVIOUS
    <3> HIDE DEF q, r
    <3>2. u * q >= 0
      BY <3>1
    <3>3. r <= n
      BY <3>1, <3>2
    <3> QED BY <3>1, <3>3 DEF r
  <2>2. x \in 0 .. U - 1 /\ x <= N
    BY <1>0, <2>1, Zenon
  <2> HIDE DEF x
  <2> QED BY <1>0, <2>2
<1> HIDE DEF x, T
<1>3. m \in Nat
  BY <1>0, <1>2
<1>4. /\ Rounded(m) \in Nat
      /\ m < S => Rounded(m) = m
      /\ \E u \in Nat : 2 * Rounded(m) <= 2 * m + u /\ u * S <= 2 * m
  BY <1>3, RoundedIs DEF S
<1>5. prec = 0 => T = x
  <2> SUFFICES ASSUME prec = 0
               PROVE  T = x
    OBVIOUS
  <2>1. m = x
    BY <1>0, <1>2
  <2> QED BY <1>0, <1>1, <1>2, <1>4, <2>1
<1>6. T < P * U
  <2>1. PICK u \in Nat : 2 * Rounded(m) <= 2 * m + u /\ u * S <= 2 * m
    BY <1>4
  <2>2. u < 2 * P
    <3> SUFFICES ASSUME u >= 2 * P
                 PROVE  FALSE
      BY <1>0
    <3>1. u * S >= (2 * P) * S
      BY <1>0
    <3>2. P * S >= P * (x + 1)
      BY <1>0, <1>2
    <3>3. (2 * P) * S = 2 * (P * S) /\ P * (x + 1) = m + P
      BY <1>0, <1>2
    <3> DEFINE a == u * S
               b == P * S
    <3>4. a \in Int /\ b \in Int
      BY <1>0
    <3> HIDE DEF a, b, m
    <3>5. a >= 2 * b /\ b >= m + P /\ a <= 2 * m
      BY <2>1, <3>1, <3>2, <3>3 DEF a, b
    <3> QED BY <1>0, <1>3, <3>4, <3>5
  <2>3. m + P <= P * U
    <3>1. m + P = P * (x + 1)
      BY <1>0, <1>2
    <3>2. P * (x + 1) <= P * U
      BY <1>0, <1>2
    <3> QED BY <3>1, <3>2
  <2> DEFINE b == P * U
             t == Rounded(m)
  <2>4. b \in Int
    BY <1>0
  <2> HIDE DEF b, m, t
  <2>5. t < b
    BY <1>0, <1>3, <1>4, <2>1, <2>2, <2>3, <2>4 DEF b, t
  <2> QED BY <1>1, <2>5 DEF b, t
<1>7. T \in Nat
  BY <1>1, <1>4
<1> QED BY <1>5, <1>6, <1>7 DEF T, P, U, x, N

\* Rounding the digits behind the point to the nearer of two numbers.
LEMMA NearerNumber ==
    ASSUME NEW W \in Nat, NEW x \in Nat, NEW U \in Nat \ {0}, NEW P \in Nat \ {0},
           NEW f \in Nat, NEW d \in 0 .. U - 1, NEW N \in Nat, N = U * W + x,
           NEW T \in Nat, T = U * f + d, NEW R \in Nat,
           \/ R = W * P + f /\ 2 * d <= U
           \/ R = (W * P + f) + 1 /\ 2 * d >= U
    PROVE  2 * Distance(R * U, N * P) <= U + 2 * Distance(T, x * P)
<1> DEFINE w == (W * P) * U
           g == U * f
           y == x * P
           a == R * U
           b == N * P
<1>1. b = w + y
  <2>1. (U * W + x) * P = (U * W) * P + x * P
    OBVIOUS
  <2>2. (U * W) * P = (W * P) * U
    OBVIOUS
  <2> QED BY <2>1, <2>2
<1>2. (W * P + f) * U = w + g
  <2> DEFINE z == W * P
  <2>1. z \in Nat
    OBVIOUS
  <2> HIDE DEF z
  <2>2. (z + f) * U = z * U + U * f
    BY <2>1
  <2> QED BY <2>2 DEF z
<1>3. ((W * P + f) + 1) * U = (w + g) + U
  <2> DEFINE z == W * P + f
  <2>1. z \in Nat
    OBVIOUS
  <2>2. z * U = w + g
    BY <1>2
  <2> HIDE DEF z, w, g
  <2>3. (z + 1) * U = z * U + U
    BY <2>1
  <2> QED BY <2>2, <2>3 DEF z
<1>4. w \in Int /\ g \in Int /\ y \in Int /\ T = g + d
  <2> QED OBVIOUS
<1>5. \/ a = w + g /\ 2 * d <= U
      \/ a = (w + g) + U /\ 2 * d >= U
  <2>1. CASE R = W * P + f /\ 2 * d <= U
    BY <1>2, <2>1
  <2>2. CASE R = (W * P + f) + 1 /\ 2 * d >= U
    BY <1>3, <2>2
  <2> QED BY <2>1, <2>2
<1> HIDE DEF w, g, y, a, b
<1>6. 2 * Distance(a, b) <= U + 2 * Distance(T, y)
  BY <1>1, <1>4, <1>5 DEF Distance
<1> QED BY <1>6 DEF a, b, y

\* The numbers the digits before and behind the point are: they have no more
\* digits than there is room for, and are close to the number to be printed.
LEMMA HalvesAre ==
    ASSUME NEW v, v.n \in Nat, v.k \in Nat, v.n < Power(2, SIGNIFICAND),
           NEW prec \in Nat \ {0}, NEW halves, halves = Halves(v, prec),
           ~ (/\ 2 * (Product(v, prec) % Power(2, v.k)) = Power(2, v.k)
              /\ (Product(v, prec) \div Power(2, v.k)) % 2 = 1
              /\ (Product(v, prec) \div Power(2, v.k)) + 1 = Power(10, prec))
    PROVE  /\ halves.whole \in Nat /\ halves.whole <= (v.n \div Power(2, v.k)) + 1
           /\ halves.frac \in Nat /\ halves.frac < Power(10, prec)
           /\ 2 * Distance((halves.whole * Power(10, prec) + halves.frac) * Power(2, v.k),
                           v.n * Power(10, prec))
                <= Power(2, v.k)
                     + 2 * Distance(Product(v, prec), (v.n % Power(2, v.k)) * Power(10, prec))
<1> DEFINE N == v.n
           U == Power(2, v.k)
           P == Power(10, prec)
           T == Product(v, prec)
           W == N \div U
           x == N % U
           f == T \div U
           d == T % U
           over == 2 * d > U /\ f + 1 >= P
           up == 2 * d > U \/ (2 * d = U /\ (f = 0 \/ f % 2 = 1))
<1>1. /\ N \in Nat /\ U \in Nat \ {0} /\ P \in Nat \ {0, 1} /\ T \in Nat /\ T < P * U
  <2>1. N \in Nat /\ U \in Nat \ {0} /\ T \in Nat /\ T < P * U
    BY PowersOf2, ProductIs
  <2>2. P \in Nat \ {0, 1}
    <3>1. prec - 1 \in Nat /\ (prec - 1) + 1 = prec
      OBVIOUS
    <3> DEFINE p == Power(10, prec - 1)
    <3>2. p \in Nat \ {0} /\ P = 10 * p
      BY <3>1, PowersOf2
    <3> HIDE DEF p, P
    <3> QED BY <3>2
  <2> QED BY <2>1, <2>2
<1>2. halves.whole = IF over THEN W + 1 ELSE W
  <2>1. prec # 0
    OBVIOUS
  <2> QED BY <2>1, Zenon DEF Halves, RollsOver
<1>3. halves.frac = IF over THEN 0 ELSE IF up THEN f + 1 ELSE f
  BY Zenon DEF Halves, RollsOver
<1>4. ~ (2 * d = U /\ f % 2 = 1 /\ f + 1 = P)
  OBVIOUS
<1> HIDE DEF N, U, P, T
<1>5. /\ N = U * W + x /\ W \in Nat /\ x \in Nat
      /\ T = U * f + d /\ f \in Nat /\ d \in 0 .. U - 1
  <2>1. \A n \in Nat : /\ n = U * (n \div U) + (n % U)
                       /\ n \div U \in Nat /\ n % U \in Nat /\ n % U \in 0 .. U - 1
    BY <1>1
  <2>2. N = U * W + x /\ W \in Nat /\ x \in Nat
    BY <1>1, <2>1, Zenon
  <2>3. T = U * f + d /\ f \in Nat /\ d \in 0 .. U - 1
    BY <1>1, <2>1, Zenon
  <2> QED BY <2>2, <2>3
<1> DEFINE odd == f % 2 = 1
<1> HIDE DEF W, x, f, d
<1>6. f < P
  <2> SUFFICES ASSUME f >= P
               PROVE  FALSE
    BY <1>1, <1>5
  <2>1. U * f >= P * U
    BY <1>1, <1>5
  <2>2. U * f \in Nat /\ P * U \in Nat
    BY <1>1, <1>5
  <2> DEFINE a == U * f
             b == P * U
  <2>3. a >= b /\ a \in Nat /\ b \in Nat /\ T = a + d /\ T < b
    BY <1>1, <1>5, <2>1, <2>2
  <2> HIDE DEF a, b
  <2> QED BY <1>5, <2>3
<1>7. CASE over
  <2>1. halves.whole = W + 1 /\ halves.frac = 0 /\ f + 1 = P /\ 2 * d >= U
    BY <1>1, <1>2, <1>3, <1>5, <1>6, <1>7
  <2> DEFINE R == (W + 1) * P + 0
  <2>2. R = (W * P + f) + 1 /\ R \in Nat
    <3>1. (W + 1) * P = W * P + P /\ W * P \in Nat
      BY <1>1, <1>5
    <3> QED BY <1>1, <1>5, <2>1, <3>1
  <2> HIDE DEF R
  <2>3. 2 * Distance(R * U, N * P) <= U + 2 * Distance(T, x * P)
    <3>1. R = (W * P + f) + 1 /\ 2 * d >= U
      BY <2>1, <2>2
    <3>2. P \in Nat \ {0}
      BY <1>1
    <3> QED BY <1>1, <1>5, <2>2, <3>1, <3>2, NearerNumber, Zenon
  <2>4. 0 < P /\ W + 1 \in Nat
    BY <1>1, <1>5
  <2> QED BY <1>5, <2>1, <2>3, <2>4 DEF R, U, P, T, N, W, x
<1>8. CASE ~ over /\ up
  <2>1. halves.whole = W /\ halves.frac = f + 1 /\ 2 * d >= U
    BY <1>1, <1>2, <1>3, <1>5, <1>8
  <2>2. f + 1 < P
    <3> SUFFICES ASSUME f + 1 = P
                 PROVE  FALSE
      BY <1>1, <1>5, <1>6
    <3>1. 2 * d = U
      BY <1>1, <1>5, <1>8
    <3>2. f # 0
      BY <1>1
    <3>3. odd
      <4>1. up => odd
        <5>1. 2 * d = U => ~ (2 * d > U)
          BY <1>1, <1>5
        <5> QED BY <3>1, <3>2, <5>1, Zenon DEF odd
      <4> QED BY <1>8, <4>1
    <3> QED BY <1>4, <3>1, <3>3, Zenon DEF odd
  <2> DEFINE R == W * P + (f + 1)
  <2>3. R = (W * P + f) + 1 /\ R \in Nat
    <3>1. W * P \in Nat
      BY <1>1, <1>5
    <3> QED BY <1>5, <3>1
  <2> HIDE DEF R
  <2>4. 2 * Distance(R * U, N * P) <= U + 2 * Distance(T, x * P)
    BY <1>1, <1>5, <2>1, <2>3, NearerNumber
  <2>5. f + 1 \in Nat /\ W <= W + 1
    BY <1>5
  <2> QED BY <1>5, <2>1, <2>2, <2>4, <2>5 DEF R, U, P, T, N, W, x
<1>9. CASE ~ over /\ ~ up
  <2>1. halves.whole = W /\ halves.frac = f /\ 2 * d <= U
    BY <1>1, <1>2, <1>3, <1>5, <1>9
  <2> DEFINE R == W * P + f
  <2>3. R = W * P + f /\ R \in Nat
    <3>1. W * P \in Nat
      BY <1>1, <1>5
    <3> QED BY <1>5, <3>1
  <2> HIDE DEF R
  <2>4. 2 * Distance(R * U, N * P) <= U + 2 * Distance(T, x * P)
    BY <1>1, <1>5, <2>1, <2>3, NearerNumber
  <2>5. W <= W + 1
    BY <1>5
  <2> QED BY <1>5, <1>6, <2>1, <2>4, <2>5 DEF R, U, P, T, N, W, x
<1> QED BY <1>7, <1>8, <1>9

\* Without digits behind the point, the whole number is the nearer one.
LEMMA WholeIs ==
    ASSUME NEW v, v.n \in Nat, v.k \in Nat, v.n < Power(2, SIGNIFICAND),
           NEW halves, halves = Halves(v, 0)
    PROVE  /\ halves.whole \in Nat /\ halves.whole <= (v.n \div Power(2, v.k)) + 1
           /\ 2 * Distance(halves.whole * Power(2, v.k), v.n) <= Power(2, v.k)
<1> DEFINE N == v.n
           U == Power(2, v.k)
           T == Product(v, 0)
           W == N \div U
           x == N % U
           f == T \div U
           d == T % U
           over == 2 * d > U /\ f + 1 >= Power(10, 0)
           carried == IF over THEN W + 1 ELSE W
           rest == N - carried * U
           h == halves.whole
<1>1. N \in Nat /\ U \in Nat \ {0} /\ T = x /\ Power(10, 0) = 1
  BY PowersOf2, ProductIs
<1>2. h = IF 2 * rest >= U /\ carried % 2 = 1 THEN carried + 1 ELSE carried
  BY Zenon DEF Halves, RollsOver
<1> HIDE DEF N, U, T, h
<1>3. N = U * W + x /\ W \in Nat /\ x \in 0 .. U - 1
  BY <1>1
<1>4. f = 0 /\ d = x
  <2>1. \A u \in Nat \ {0}, r \in Nat : r < u => r \div u = 0 /\ r % u = r
    <3> SUFFICES ASSUME NEW u \in Nat \ {0}, NEW r \in 0 .. u - 1
                 PROVE  r \div u = 0 /\ r % u = r
      OBVIOUS
    <3>1. r = u * 0 + r /\ 0 \in Int /\ r \in Int
      OBVIOUS
    <3> QED BY <3>1, DivUnique
  <2> HIDE DEF x
  <2>2. T \in Nat /\ T < U
    BY <1>1, <1>3
  <2>3. T \div U = 0 /\ T % U = T
    BY <1>1, <2>1, <2>2
  <2> QED BY <1>1, <2>3
<1> HIDE DEF W, x, f, d
<1>5. over <=> 2 * x > U
  BY <1>1, <1>3, <1>4
<1> DEFINE g == U * W
           odd == W % 2 = 1
<1>6. g \in Int /\ W * U = g /\ (W + 1) * U = g + U
  BY <1>1, <1>3
<1>7. CASE 2 * x > U
  <2>1. over
    BY <1>5, <1>7
  <2> HIDE DEF over
  <2>2. carried = W + 1
    BY <2>1
  <2>3. rest = N - (W + 1) * U
    BY <2>2
  <2> HIDE DEF carried, rest, g
  <2>4. ~ (2 * rest >= U)
    BY <1>1, <1>3, <1>6, <2>3 DEF g
  <2>5. h = W + 1
    BY <1>2, <2>2, <2>4
  <2>6. h * U = g + U /\ N = g + x
    BY <1>3, <1>6, <2>5 DEF g
  <2> DEFINE a == h * U
  <2> HIDE DEF a
  <2>7. 2 * Distance(a, N) <= U
    BY <1>1, <1>3, <1>6, <1>7, <2>6 DEF Distance, a
  <2> QED BY <1>3, <2>5, <2>7 DEF a, h, N, U, W
<1>8. CASE ~ (2 * x > U)
  <2>1. ~ over
    BY <1>5, <1>8
  <2> HIDE DEF over
  <2>2. carried = W
    BY <2>1
  <2>3. rest = N - W * U
    BY <2>2
  <2> HIDE DEF carried, rest, g
  <2>4. rest = x /\ N = g + x
    BY <1>1, <1>3, <1>6, <2>3 DEF g
  <2>5. h = W \/ (h = W + 1 /\ 2 * x >= U)
    BY <1>2, <2>2, <2>4
  <2>6. h * U = g \/ (h * U = g + U /\ 2 * x >= U)
    BY <1>6, <2>5
  <2> DEFINE a == h * U
  <2> HIDE DEF a
  <2>7. a = g \/ (a = g + U /\ 2 * x >= U)
    BY <2>6 DEF a
  <2>8. 2 * Distance(a, N) <= U
    BY <1>1, <1>3, <1>6, <1>8, <2>4, <2>7 DEF Distance
  <2> QED BY <1>3, <2>5, <2>8 DEF a, h, N, U, W
<1> QED BY <1>7, <1>8

-----------------------------------------------------------------------------
(***************************************************************************)
(* Floating-point numbers without an exponent read back as themselves.     *)
(***************************************************************************)
\* A text without a letter has no exponent.
LEMMA ReadPlain ==
    ASSUME NEW t, Numeric(t), NEW n, NEW d, Scan(Nothing, t) = Found(n, d)
    PROVE  /\ ReadNumber(t).number = n
           /\ ReadNumber(t).decimals = IF d = NONE THEN 0 ELSE d
           /\ ReadNumber(t).exponent = 0
           /\ ReadNumber(t).negative <=> Minus(t)
<1> DEFINE e == SelectInSeq(t, LAMBDA x : x \in {"e", "E"})
           last == IF e = 0 THEN Len(t) ELSE e - 1
           digits == Scan(Nothing, SubSeq(t, 1, last))
           power == Scan(Nothing, SubSeq(t, last + 1, Len(t))).number
           letters == {k \in 1 .. Len(t) : t[k] \in {"e", "E"}}
<1>0. IsSeq(t) /\ Len(t) \in Nat /\ \A k \in 1 .. Len(t) : t[k] \in Characters
  BY DEF Numeric, IsSeq
<1>1. letters = {}
  <2>1. "e" \notin Characters /\ "E" \notin Characters
    BY DigitsKnown DEF Characters
  <2> QED BY <1>0, <2>1
<1>2. e = 0
  <2>1. e = IF letters # {} THEN Min(letters) ELSE 0
    BY DEF SelectInSeq
  <2> QED BY <1>1, <2>1
<1>3. /\ ReadNumber(t).number = digits.number
      /\ ReadNumber(t).decimals = IF digits.decimals = NONE THEN 0 ELSE digits.decimals
      /\ ReadNumber(t).exponent = IF e # 0 /\ t[e + 1] = "-" THEN -power ELSE power
  BY DEF ReadNumber
<1>10. ReadNumber(t).negative <=> \E k \in 1 .. last : t[k] = "-"
  BY DEF ReadNumber
<1> HIDE DEF e
<1>4. last = Len(t)
  BY <1>2
<1> HIDE DEF last
<1>5. SubSeq(t, 1, last) = t
  <2>1. Fit(t, Len(t)) = t
    BY <1>0, FitAll
  <2>2. Least(Len(t), Len(t)) = Len(t)
    BY DEF Least
  <2> QED BY <1>4, <2>1, <2>2 DEF Fit
<1>6. SubSeq(t, last + 1, Len(t)) = << >>
  <2>1. Len(t) < last + 1 /\ last + 1 \in Int /\ Len(t) \in Int
    BY <1>0, <1>4
  <2> QED BY <2>1, SubSeqEmpty
<1>7. Scan(Nothing, << >>) = Nothing
  <2>1. IsSeq(<< >>) /\ Len(<< >>) = 0
    BY DEF IsSeq
  <2> QED BY <2>1, ScanSkip
<1>8. power = 0
  <2>1. power = Nothing.number
    BY <1>6, <1>7, Zenon
  <2> QED BY <2>1 DEF Nothing
<1>9. digits.number = n /\ digits.decimals = d
  <2>1. digits = Found(n, d)
    BY <1>5, Zenon
  <2> HIDE DEF digits
  <2> QED BY <2>1 DEF Found
<1>11. ReadNumber(t).negative <=> Minus(t)
  BY <1>4, <1>10, Zenon DEF Minus
<1> QED BY <1>2, <1>3, <1>8, <1>9, <1>11

\* The text of _ftoa reads back as what its buffer has.
LEMMA ReadAround ==
    ASSUME NEW buf, Numeric(buf), Len(buf) <= FTOA_BUFFER, NEW n, NEW d,
           Scan(Nothing, Reverse(buf)) = Found(n, d),
           NEW negative, NEW width \in Int, NEW flags
    PROVE  /\ ReadNumber(FixedText(buf, negative, width, flags)).number = n
           /\ ReadNumber(FixedText(buf, negative, width, flags)).decimals = IF d = NONE THEN 0 ELSE d
           /\ ReadNumber(FixedText(buf, negative, width, flags)).exponent = 0
           /\ ReadNumber(FixedText(buf, negative, width, flags)).negative
                 <=> Minus(FixedText(buf, negative, width, flags))
<1> DEFINE text == FixedText(buf, negative, width, flags)
           rev == Reverse(buf)
<1>1. PICK pre, post : /\ text = (pre \o rev) \o post
                       /\ Numeric(pre) /\ Numeric(post)
                       /\ Scan(Nothing, pre) = Nothing /\ \A r : Scan(r, post) = r
  <2>1. Surrounds(text, rev)
    BY PrintedAround
  <2> QED BY <2>1 DEF Surrounds
<1>2. Numeric(rev)
  BY NumericReverse
<1> HIDE DEF text, rev
<1>3. Numeric(pre \o rev) /\ Numeric(text)
  BY <1>1, <1>2, NumericConcat
<1>4. Scan(Nothing, text) = Found(n, d)
  <2>1. Scan(Nothing, pre \o rev) = Scan(Scan(Nothing, pre), rev)
    BY <1>1, <1>2, ScanConcat DEF Numeric
  <2>2. Scan(Nothing, pre \o rev) = Found(n, d)
    BY <1>1, <2>1 DEF rev
  <2> DEFINE s == pre \o rev
  <2> HIDE DEF s
  <2>3. Scan(Nothing, s \o post) = Scan(Scan(Nothing, s), post)
    BY <1>1, <1>3, ScanConcat DEF Numeric, s
  <2> QED BY <1>1, <2>2, <2>3 DEF s
<1>5. /\ ReadNumber(text).number = n /\ ReadNumber(text).exponent = 0
      /\ ReadNumber(text).decimals = IF d = NONE THEN 0 ELSE d
      /\ ReadNumber(text).negative <=> Minus(text)
  BY <1>3, <1>4, ReadPlain
<1> QED BY <1>5 DEF text

\* The digits behind the point are a number, whatever they are.
LEMMA FracIs ==
    ASSUME NEW v, v.n \in Nat, v.k \in Nat, NEW prec \in Nat, Product(v, prec) \in Nat
    PROVE  Halves(v, prec).frac \in Nat
<1> DEFINE unit == Power(2, v.k)
           tmp == Product(v, prec)
           frac == tmp \div unit
           diff == tmp % unit
           over == 2 * diff > unit /\ RollsOver(frac, prec)
           up == 2 * diff > unit \/ (2 * diff = unit /\ (frac = 0 \/ frac % 2 = 1))
<1>1. Halves(v, prec).frac = IF over THEN 0 ELSE IF up THEN frac + 1 ELSE frac
  BY DEF Halves
<1>2. frac \in Nat
  <2>1. unit \in Nat \ {0} /\ tmp \in Nat
    BY PowersOf2
  <2> HIDE DEF unit, tmp
  <2> QED BY <2>1
<1> HIDE DEF frac, over, up
<1> QED BY <1>1, <1>2

\* What the buffer of _ftoa has: the nearest number with so many digits behind the
\* point as are computed, and zeros for the others.
LEMMA FixedBufferReads ==
    ASSUME NEW v, v.n \in Nat, v.k \in Nat, v.n < Power(2, SIGNIFICAND),
           NEW asked \in Nat, ~ Spills(v, asked),
           NEW prec, prec = Least(asked, MAX_PRECISION),
           NEW buf, buf = FixedBuffer(Halves(v, prec), prec, asked)
    PROVE  /\ Numeric(buf) /\ Len(buf) < FTOA_BUFFER /\ ~ Minus(buf)
           /\ \E R, d :
                 /\ R \in Nat
                 /\ Scan(Nothing, Reverse(buf)) = Found(R * Power(10, asked - prec), d)
                 /\ (IF d = NONE THEN 0 ELSE d) = asked
                 /\ 2 * Distance(R * Power(2, v.k), v.n * Power(10, prec))
                      <= Power(2, v.k)
                           + 2 * Distance(Product(v, prec), (v.n % Power(2, v.k)) * Power(10, prec))
<1> DEFINE N == v.n
           U == Power(2, v.k)
           P == Power(10, prec)
           T == Product(v, prec)
           x == N % U
           halves == Halves(v, prec)
           W == halves.whole
           F == halves.frac
           whole == N \div U
           spare == (FTOA_BUFFER - asked) - 3
           room == (FTOA_BUFFER - asked) - 2
           apart == 2 * Distance(T, x * P)
<1>0. /\ prec \in 0 .. asked /\ prec \in Nat /\ asked - prec \in Nat
      /\ prec = 0 => asked = 0
      /\ FTOA_BUFFER \in Nat
  BY FloatAssumption DEF Least
<1>1. /\ ~ (/\ 2 * (T % U) = U /\ (T \div U) % 2 = 1 /\ (T \div U) + 1 = P /\ prec > 0)
      /\ ~ (asked + 3 > FTOA_BUFFER)
      /\ ~ (whole >= Power(10, FTOA_BUFFER - asked - 3))
  BY Zenon DEF Spills
<1>2. N \in Nat /\ U \in Nat \ {0} /\ P \in Nat \ {0} /\ T \in Nat /\ T < P * U
  BY <1>0, PowersOf2, ProductIs
<1>3. spare \in Nat /\ room = spare + 1 /\ asked + 3 <= FTOA_BUFFER /\ FTOA_BUFFER >= 3
  BY <1>0, <1>1
<1>4. whole \in Nat /\ whole < Power(10, spare)
  <2> DEFINE s == Power(10, spare)
  <2>1. s \in Nat /\ ~ (whole >= s)
    <3>1. FTOA_BUFFER - asked - 3 = spare
      OBVIOUS
    <3> HIDE DEF spare
    <3>2. s \in Nat
      BY <1>3, PowersOf2
    <3> QED BY <1>1, <3>1, <3>2
  <2> HIDE DEF N, U, s
  <2>2. whole \in Nat
    BY <1>2
  <2> HIDE DEF whole
  <2>3. whole < s
    BY <2>1, <2>2
  <2> QED BY <2>2, <2>3 DEF s
<1>5. \A w \in Nat : w <= whole + 1 => w < Power(10, room)
  <2> DEFINE s == Power(10, spare)
             r == Power(10, room)
  <2>1. r = 10 * s /\ s \in Nat \ {0}
    <3> HIDE DEF spare, room
    <3> QED BY <1>3, PowersOf2
  <2>2. whole < s
    BY <1>4
  <2> HIDE DEF s, r, whole
  <2>3. \A w \in Nat : w <= whole + 1 => w < r
    BY <1>4, <2>1, <2>2
  <2> QED BY <2>3 DEF r
<1>6. CASE prec = 0
  <2>1. asked = 0 /\ P = 1 /\ asked - prec = 0 /\ Power(10, asked - prec) = 1
    <3>1. asked = 0 /\ asked - prec = 0
      BY <1>0, <1>6
    <3> QED BY <1>6, <3>1, PowersOf2
  <2>2. W \in Nat /\ W <= whole + 1 /\ 2 * Distance(W * U, N) <= U
    <3>1. halves = Halves(v, 0)
      BY <1>6
    <3> HIDE DEF halves
    <3> QED BY <3>1, WholeIs
  <2>3. W < Power(10, FTOA_BUFFER - 2)
    <3>1. room = FTOA_BUFFER - 2
      BY <1>0, <2>1
    <3> QED BY <1>5, <2>2, <3>1
  <2>4. buf = FixedBuffer(halves, 0, 0)
    BY <1>6, <2>1
  <2>5. /\ Numeric(buf) /\ Len(buf) < FTOA_BUFFER
        /\ Scan(Nothing, Reverse(buf)) = Found(W, NONE)
    <3> HIDE DEF halves
    <3> QED BY <1>3, <2>2, <2>3, <2>4, WholeBuffer
  <2> DEFINE near == 2 * Distance(W * U, N * P) <= U + apart
  <2>6. near
    <3>1. N * P = N
      BY <1>2, <2>1
    <3>2. T = x
      BY <1>0, <1>6, ProductIs
    <3>3. x * P = x
      BY <1>2, <2>1, <3>2
    <3> HIDE DEF x, T, W, N, U, P
    <3>4. Distance(T, x * P) = 0
      BY <1>2, <3>2, <3>3 DEF Distance
    <3>5. apart = 0
      BY <3>4
    <3> QED BY <1>2, <2>2, <3>1, <3>5
  <2>7. W * Power(10, asked - prec) = W /\ (IF NONE = NONE THEN 0 ELSE NONE) = asked
    BY <2>1, <2>2
  <2>8. Scan(Nothing, Reverse(buf)) = Found(W * Power(10, asked - prec), NONE)
    BY <2>5, <2>7
  <2>9. ~ Minus(buf)
    <3>1. halves.frac \in Nat
      BY <1>0, <1>2, FracIs
    <3> HIDE DEF halves
    <3> QED BY <1>0, <1>6, <2>1, <2>2, <2>4, <3>1, BufferUnsigned
  <2> HIDE DEF W
  <2> QED BY <2>2, <2>5, <2>6, <2>7, <2>8, <2>9, Zenon
<1>7. CASE prec # 0
  <2>1. prec \in Nat \ {0} /\ prec \in 1 .. asked /\ prec > 0
    BY <1>0, <1>7
  <2> DEFINE R == W * P + F
             near == 2 * Distance(R * U, N * P) <= U + apart
  <2>2. /\ W \in Nat /\ W <= whole + 1 /\ F \in Nat /\ F < P /\ near
    <3>1. ~ (/\ 2 * (T % U) = U /\ (T \div U) % 2 = 1 /\ (T \div U) + 1 = P)
      BY <1>1, <2>1, Zenon
    <3>2. halves = Halves(v, prec)
      OBVIOUS
    <3> HIDE DEF halves
    <3> QED BY <2>1, <3>1, <3>2, HalvesAre, Zenon
  <2>3. W < Power(10, room)
    BY <1>5, <2>2
  <2>4. /\ Numeric(buf) /\ Len(buf) < FTOA_BUFFER
        /\ Scan(Nothing, Reverse(buf)) = Found(R * Power(10, asked - prec), asked)
    <3>1. buf = FixedBuffer(halves, prec, asked)
      OBVIOUS
    <3> HIDE DEF halves
    <3> QED BY <1>3, <2>1, <2>2, <2>3, <3>1, PointBuffer
  <2>5. R \in Nat
    BY <1>2, <2>2
  <2>6. (IF asked = NONE THEN 0 ELSE asked) = asked
    BY <1>0 DEF NONE
  <2>8. ~ Minus(buf)
    <3>1. buf = FixedBuffer(halves, prec, asked) /\ prec <= asked
      BY <1>0
    <3> HIDE DEF halves
    <3> QED BY <1>0, <2>2, <3>1, BufferUnsigned
  <2> HIDE DEF R
  <2>7. near
    BY <2>2 DEF R
  <2> QED BY <2>4, <2>5, <2>6, <2>7, <2>8, Zenon
<1> QED BY <1>6, <1>7

\* _ftoa's text reads back as its number, to half a unit of the last place, and
\* with its sign.
LEMMA FixedReads ==
    ASSUME NEW v, v.n \in Nat, v.k \in Nat, v.n < Power(2, SIGNIFICAND),
           NEW asked \in Nat, NEW width \in Int, NEW flags
    PROVE  ReadsBackFixed(v, asked, width, flags, ReadNumber(Fixed(v, asked, width, flags)))
<1> DEFINE prec == Least(asked, MAX_PRECISION)
           buf == FixedBuffer(Halves(v, prec), prec, asked)
           negative == v.negative /\ v.n # 0
           w == WidthLeft(flags, width, negative)
           r == ReadNumber(Fixed(v, asked, width, flags))
           N == v.n
           U == Power(2, v.k)
           P == Power(10, prec)
           Q == Power(10, asked - prec)
           x == N % U
           T == Product(v, prec)
           apart == Distance(T, x * P)
<1> SUFFICES ASSUME ~ Spills(v, asked)
             PROVE  /\ r.decimals = asked /\ Near(r, v, HalfUnit(v, asked))
                    /\ SignLost(v, width, flags) \/ (r.negative <=> v.negative)
  BY DEF ReadsBackFixed
<1>1. PICK R, d :
         /\ R \in Nat
         /\ Scan(Nothing, Reverse(buf)) = Found(R * Q, d)
         /\ (IF d = NONE THEN 0 ELSE d) = asked
         /\ 2 * Distance(R * U, N * P) <= U + 2 * apart
  BY FixedBufferReads
<1>0. R \in Nat
  BY <1>1
<1>2. Numeric(buf) /\ Len(buf) < FTOA_BUFFER /\ ~ Minus(buf)
  BY FixedBufferReads
<1>14. Len(buf) <= FTOA_BUFFER /\ IsSeq(buf)
  <2> HIDE DEF buf
  <2> QED BY <1>2, FloatAssumption DEF Numeric, IsSeq
<1>3. Fixed(v, asked, width, flags) = FixedText(buf, negative, w, flags)
  BY Zenon DEF Fixed
<1>4. w \in Int
  BY DEF WidthLeft
<1>5. prec \in Nat /\ asked - prec \in Nat /\ prec + (asked - prec) = asked
  BY FloatAssumption DEF Least
<1>6. /\ N \in Nat /\ U \in Nat \ {0} /\ P \in Nat \ {0} /\ Q \in Nat \ {0} /\ T \in Nat
      /\ Power(10, asked) = P * Q
  <2>1. N \in Nat /\ U \in Nat \ {0} /\ T \in Nat
    BY <1>5, PowersOf2, ProductIs
  <2> HIDE DEF prec
  <2> DEFINE rest == asked - prec
  <2>2. rest \in Nat /\ prec + rest = asked
    BY <1>5
  <2> HIDE DEF rest
  <2>3. Power(10, prec + rest) = Power(10, prec) * Power(10, rest)
    BY <1>5, <2>2, PowerSum
  <2>4. P \in Nat \ {0} /\ Power(10, rest) \in Nat \ {0}
    BY <1>5, <2>2, PowersOf2
  <2> QED BY <2>1, <2>2, <2>3, <2>4 DEF rest
\* The sign, and the width that is left when it has been counted.
<1>15. SignLost(v, width, flags) \/ (Minus(FixedText(buf, negative, w, flags)) <=> v.negative)
  <2> SUFFICES ASSUME ~ SignLost(v, width, flags)
               PROVE  Minus(FixedText(buf, negative, w, flags)) <=> v.negative
    OBVIOUS
  <2>1. ~ (v.negative /\ (v.n = 0 \/ (Zeroed(flags) /\ width > FTOA_BUFFER)))
    BY Zenon DEF SignLost
  <2>2. negative <=> v.negative
    BY <2>1
  <2>3. negative /\ Zeroed(flags) => w < FTOA_BUFFER
    <3> SUFFICES ASSUME negative, Zeroed(flags)
                 PROVE  w < FTOA_BUFFER
      OBVIOUS
    <3>1. width <= FTOA_BUFFER /\ FTOA_BUFFER \in Nat \ {0}
      BY <2>1, <2>2, FloatAssumption
    <3>2. w = IF width > 0 THEN width - 1 ELSE width
      BY Zenon DEF WidthLeft
    <3> HIDE DEF w
    <3> QED BY <3>1, <3>2
  <2> HIDE DEF buf, w, negative
  <2>4. Minus(FixedText(buf, negative, w, flags)) <=> negative
    BY <1>2, <1>4, <1>14, <2>3, MinusPrinted
  <2> QED BY <2>2, <2>4, Zenon
<1> HIDE DEF buf, w, negative
<1>7. /\ r.number = R * Q /\ r.exponent = 0 /\ r.decimals = asked
      /\ r.negative <=> Minus(FixedText(buf, negative, w, flags))
  <2> DEFINE n == R * Q
  <2>1. Scan(Nothing, Reverse(buf)) = Found(n, d)
    BY <1>1
  <2> HIDE DEF n, Q
  <2>2. /\ r.number = n /\ r.exponent = 0
        /\ r.decimals = IF d = NONE THEN 0 ELSE d
        /\ r.negative <=> Minus(FixedText(buf, negative, w, flags))
    BY <1>2, <1>3, <1>4, <1>14, <2>1, ReadAround
  <2> QED BY <1>1, <2>2 DEF n
<1> HIDE DEF r
<1>8. Unit(r, v) = U
  <2>1. r.exponent - r.decimals = IF asked = 0 THEN 0 ELSE -asked
    BY <1>7
  <2>2. Pow10(r.exponent - r.decimals) = 1
    <3>1. Power(10, 0) = 1
      BY PowersOf2
    <3> QED BY <2>1, <3>1 DEF Pow10
  <2> HIDE DEF U
  <2>3. Unit(r, v) = Pow10(r.exponent - r.decimals) * U
    BY DEF Unit, U
  <2> QED BY <1>6, <2>2, <2>3
<1>9. Pow10(r.decimals - r.exponent) = P * Q
  <2>1. r.decimals - r.exponent = asked
    BY <1>7
  <2>2. Pow10(asked) = Power(10, asked)
    BY DEF Pow10
  <2> QED BY <1>6, <2>1, <2>2
<1>10. HalfUnit(v, asked) = Q * (U + 2 * apart)
  BY Zenon DEF HalfUnit
<1>11. x \in Nat
  <2> HIDE DEF N, U
  <2> QED BY <1>6
<1> HIDE DEF N, U, P, Q, x, T
<1>12. 2 * Distance((R * Q) * U, N * (P * Q)) <= Q * (U + 2 * apart)
  <2> DEFINE a == R * U
             b == N * P
             y == x * P
             s == U + 2 * apart
  <2>1. a \in Int /\ b \in Int /\ y \in Int
    BY <1>6, <1>11, <1>0
  <2>2. (R * Q) * U = Q * a /\ N * (P * Q) = Q * b
    BY <1>6, <1>0
  <2>3. s \in Int /\ 2 * Distance(a, b) <= s
    <3>1. apart \in Int
      <4>1. \A p, q \in Int : Distance(p, q) \in Int
        BY DEF Distance
      <4>2. T \in Int
        BY <1>6
      <4> QED BY <2>1, <4>1, <4>2, Zenon
    <3> HIDE DEF apart
    <3> QED BY <1>1, <1>6, <3>1
  <2> HIDE DEF a, b, y, s
  <2>4. Distance(Q * a, Q * b) = Q * Distance(a, b)
    <3>1. CASE a < b
      <4>1. Q * a < Q * b
        BY <1>6, <2>1, <3>1
      <4>2. Q * b - Q * a = Q * (b - a)
        BY <1>6, <2>1
      <4> QED BY <3>1, <4>1, <4>2 DEF Distance
    <3>2. CASE ~ (a < b)
      <4>1. Q * b <= Q * a
        BY <1>6, <2>1, <3>2
      <4>2. Q * a - Q * b = Q * (a - b)
        BY <1>6, <2>1
      <4>3. ~ (Q * a < Q * b)
        BY <1>6, <2>1, <4>1
      <4> QED BY <3>2, <4>2, <4>3 DEF Distance
    <3> QED BY <3>1, <3>2
  <2>5. 2 * (Q * Distance(a, b)) <= Q * s
    <3> DEFINE z == Distance(a, b)
    <3>1. z \in Int
      BY <2>1 DEF Distance
    <3>2. 2 * z <= s
      BY <2>3
    <3> HIDE DEF z
    <3>3. Q * (2 * z) <= Q * s
      BY <1>6, <2>3, <3>1, <3>2
    <3>4. Q * (2 * z) = 2 * (Q * z)
      BY <1>6, <3>1
    <3> QED BY <3>3, <3>4 DEF z
  <2> QED BY <2>2, <2>4, <2>5 DEF s
<1>13. Near(r, v, HalfUnit(v, asked))
  <2>1. Near(r, v, HalfUnit(v, asked))
          <=> 2 * Distance(r.number * Unit(r, v), N * Pow10(r.decimals - r.exponent))
                <= HalfUnit(v, asked)
    BY Zenon DEF Near, N
  <2> HIDE DEF apart
  <2> QED BY <1>7, <1>8, <1>9, <1>10, <1>12, <2>1
<1> QED BY <1>7, <1>13, <1>15

\* For numbers of any size that the significand has room for, every width,
\* precision and set of flags, and buffers of any size, a floating-point
\* conversion without an exponent prints the number to half a unit of the last
\* place computed and what the rounded product is off by, unless its digits spill,
\* and with its sign, unless it is 0 or the zeros of the width fill the buffer
\* (_ftoa, and _etoa where it falls back to it).
THEOREM FixedReadBack == Spec => [](ArgumentsFit => FixedReadsBack)
<1>1. ArgumentsFit => FixedReadsBack
  <2> SUFFICES ASSUME ArgumentsFit, NEW c \in Current,
                      c.spec \in FloatSpecs, c.arg.class = "finite", InFixed(c)
               PROVE  ReadsBackFixed(c.arg, Places(c), c.width, c.flags, ReadNumber(FloatText(c)))
    BY DEF FixedReadsBack
  <2>1. /\ c.width \in Int /\ c.precision \in Nat \cup {NONE}
        /\ c.arg.n \in Nat /\ c.arg.k \in Nat /\ c.arg.n < Power(2, SIGNIFICAND)
    BY DEF ArgumentsFit
  <2>2. Places(c) \in Nat
    BY <2>1, PlacesAre
  <2>3. FloatText(c) = Fixed(c.arg, Places(c), c.width, c.flags)
    <3>1. CASE FallsBack(c)
      <4>1. ~ PrintsFixed(c)
        BY <3>1 DEF FallsBack, PrintsFixed
      <4> QED BY <3>1, <4>1, Zenon DEF FloatText, _etoa, EtoaWith, Places
    <3>2. CASE ~ FallsBack(c)
      <4>1. PrintsFixed(c)
        BY <3>2 DEF InFixed
      <4> QED BY <3>2, <4>1, Zenon DEF FloatText, Places
    <3> QED BY <3>1, <3>2
  <2> QED BY <2>1, <2>2, <2>3, FixedReads
<1> QED BY <1>1, PTL
=============================================================================
