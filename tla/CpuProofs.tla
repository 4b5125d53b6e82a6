------------------------------ MODULE CpuProofs ------------------------------
(***************************************************************************)
(* Proofs about detect_cpu, for every set of processors: cpuid is executed    *)
(* only for leaves that the processor has, and a processor's name is reported *)
(* once, in its order and without its zeros.                               *)
(*                                                                         *)
(* The report has no name until the step that asks for the leaves of the      *)
(* name, and one from then on (ReportInv).  That the text is the name rests    *)
(* on where the first zero is: each leaf is cut at its own, and behind the     *)
(* leaf that has one there are only zeros.                                  *)
(***************************************************************************)
EXTENDS CpuDetect, SequenceTheorems, TLAPS

-----------------------------------------------------------------------------
(***************************************************************************)
(* Sequences of anything.                                                  *)
(***************************************************************************)
IsSeq(s) == Len(s) \in Nat /\ s = [k \in 1 .. Len(s) |-> s[k]]

\* What \o puts where.
LEMMA Concat ==
    ASSUME NEW s, NEW t, IsSeq(s), IsSeq(t)
    PROVE  /\ IsSeq(s \o t)
           /\ Len(s \o t) = Len(s) + Len(t)
           /\ \A k \in 1 .. Len(s) : (s \o t)[k] = s[k]
           /\ \A k \in Len(s) + 1 .. Len(s) + Len(t) : (s \o t)[k] = t[k - Len(s)]
<1> DEFINE S == {s[k] : k \in 1 .. Len(s)} \cup {t[k] : k \in 1 .. Len(t)}
<1>1. s \in Seq(S) /\ t \in Seq(S)
  <2>1. s \in [1 .. Len(s) -> S]
    BY DEF IsSeq
  <2>2. t \in [1 .. Len(t) -> S]
    BY DEF IsSeq
  <2> QED BY <2>1, <2>2, SeqDef DEF IsSeq
<1> HIDE DEF S
<1>2. /\ s \o t \in Seq(S) /\ Len(s \o t) = Len(s) + Len(t)
      /\ \A k \in 1 .. Len(s) + Len(t) :
            (s \o t)[k] = IF k <= Len(s) THEN s[k] ELSE t[k - Len(s)]
  BY <1>1, ConcatProperties
<1>3. s \o t = [k \in 1 .. Len(s \o t) |-> (s \o t)[k]] /\ Len(s \o t) \in Nat
  BY <1>2, LenProperties
<1> QED BY <1>2, <1>3 DEF IsSeq

-----------------------------------------------------------------------------
(***************************************************************************)
(* The name.  length is the number of its bytes before the zeros.            *)
(***************************************************************************)
Filled(length) == \A c \in 1 .. NAME_BYTES : NameByte(processor, c) = END <=> c > length

\* The first byte of a leaf, and how many of its bytes are not zero.
Offset(leaf) == 16 * (leaf - 2)
InLeaf(leaf, length) ==
    IF length <= Offset(leaf) THEN 0
    ELSE IF length >= Offset(leaf) + 16 THEN 16 ELSE length - Offset(leaf)

LEMMA MinIs ==
    ASSUME NEW S \in SUBSET Int, NEW m \in S, \A x \in S : m <= x
    PROVE  Min(S) = m
<1>1. Min(S) \in S /\ \A x \in S : Min(S) <= x
  BY DEF Min
<1> DEFINE n == Min(S)
<1>2. n \in Int /\ m \in Int /\ n <= m /\ m <= n
  BY <1>1
<1> HIDE DEF n
<1>3. n = m
  BY <1>2
<1> QED BY <1>3 DEF n

\* Byte c of a leaf is a byte of the name.
LEMMA ByteOfLeaf ==
    ASSUME NEW leaf \in 2 .. 4, NEW c \in 1 .. 16
    PROVE  ByteOf(RegistersOf(leaf)[((c - 1) \div REGISTER_BYTES) + 1],
                  (c - 1) % REGISTER_BYTES)
             = NameByte(processor, Offset(leaf) + c)
<1> DEFINE r == ((c - 1) \div 4) + 1
           x == (c - 1) % 4
<1>1. r \in 1 .. 4 /\ x \in 0 .. 3
  OBVIOUS
<1>2. /\ (((Offset(leaf) + c) - 1) \div 4) + 1 = 4 * (leaf - 2) + r
      /\ (((Offset(leaf) + c) - 1) % 4) + 1 = x + 1
  BY DEF Offset
<1>3. RegistersOf(leaf)[r] = processor.name[4 * (leaf - 2) + r]
  BY <1>1 DEF RegistersOf
<1> HIDE DEF r, x
<1>4. NameByte(processor, Offset(leaf) + c) = processor.name[4 * (leaf - 2) + r][x + 1]
  <2> DEFINE at == Offset(leaf) + c
  <2>1. ((at - 1) \div 4) + 1 = 4 * (leaf - 2) + r /\ ((at - 1) % 4) + 1 = x + 1
    BY <1>2, Zenon
  <2> HIDE DEF at
  <2>2. NameByte(processor, at) = processor.name[4 * (leaf - 2) + r][x + 1]
    BY <2>1, Zenon DEF NameByte, REGISTER_BYTES
  <2> QED BY <2>2 DEF at
<1>5. ByteOf(RegistersOf(leaf)[r], x) = processor.name[4 * (leaf - 2) + r][x + 1]
  BY <1>3 DEF ByteOf
<1> QED BY <1>4, <1>5 DEF r, x, REGISTER_BYTES

\* A leaf is printed up to its first zero.
LEMMA LeafPrinted ==
    ASSUME NEW leaf \in 2 .. 4, NEW length \in 0 .. NAME_BYTES, Filled(length)
    PROVE  LET text == PrintRegs(RegistersOf(leaf)) IN
           /\ IsSeq(text)
           /\ Len(text) = InLeaf(leaf, length)
           /\ \A c \in 1 .. Len(text) : text[c] = NameByte(processor, Offset(leaf) + c)
<1> DEFINE string == [c \in 1 .. 16 |->
                         ByteOf(RegistersOf(leaf)[((c - 1) \div REGISTER_BYTES) + 1],
                                (c - 1) % REGISTER_BYTES)]
           zeros == {c \in DOMAIN string : string[c] = END}
           size == IF zeros = {} THEN 16 ELSE Min(zeros) - 1
           text == [c \in 1 .. size |-> string[c]]
<1>1. PrintRegs(RegistersOf(leaf)) = text
  BY DEF PrintRegs, REGISTER_BYTES
<1>2. \A c \in 1 .. 16 : string[c] = NameByte(processor, Offset(leaf) + c)
  BY ByteOfLeaf
<1>3. \A c \in 1 .. 16 : Offset(leaf) + c \in 1 .. NAME_BYTES
  BY DEF Offset, NAME_BYTES, REGISTER_BYTES
<1>4. zeros = {c \in 1 .. 16 : Offset(leaf) + c > length}
  <2>1. DOMAIN string = 1 .. 16
    OBVIOUS
  <2> HIDE DEF string
  <2>2. \A c \in 1 .. 16 : string[c] = END <=> Offset(leaf) + c > length
    BY <1>2, <1>3 DEF Filled
  <2> QED BY <2>1, <2>2
<1> HIDE DEF string, zeros
<1>5. length \in Nat /\ Offset(leaf) \in Nat
  BY DEF Offset, NAME_BYTES, REGISTER_BYTES
<1>6. size = InLeaf(leaf, length) /\ size \in 0 .. 16
  <2>1. CASE length >= Offset(leaf) + 16
    <3>1. zeros = {}
      BY <1>4, <1>5, <2>1
    <3> QED BY <3>1, <1>5, <2>1 DEF InLeaf
  <2>2. CASE length < Offset(leaf) + 16
    <3> DEFINE first == IF length <= Offset(leaf) THEN 1 ELSE length - Offset(leaf) + 1
    <3>1. first \in 1 .. 16 /\ InLeaf(leaf, length) = first - 1
      BY <1>5, <2>2 DEF InLeaf
    <3>2. first \in zeros /\ (\A c \in zeros : first <= c) /\ zeros \subseteq Int
      BY <1>4, <1>5, <2>2
    <3> HIDE DEF first
    <3>3. Min(zeros) = first
      BY <3>2, MinIs
    <3> QED BY <3>1, <3>2, <3>3
  <2> QED BY <1>5, <2>1, <2>2
<1> HIDE DEF size
<1>7. Len(text) = size /\ \A c \in 1 .. size : text[c] = string[c]
  BY <1>6
<1>8. IsSeq(text)
  BY <1>6, <1>7 DEF IsSeq
<1>9. \A c \in 1 .. size : text[c] = NameByte(processor, Offset(leaf) + c)
  BY <1>2, <1>6, <1>7
<1> HIDE DEF text
<1> QED BY <1>1, <1>6, <1>7, <1>8, <1>9

\* The three leaves together are the name without its zeros.
LEMMA NameIsFull ==
    ASSUME processor \in Processors
    PROVE  IsFullName(ProcessorName)
<1>1. PICK length \in 0 .. NAME_BYTES : Filled(length)
  BY NameAssumption DEF Filled
<1> DEFINE a == PrintRegs(RegistersOf(2))
           b == PrintRegs(RegistersOf(3))
           c == PrintRegs(RegistersOf(4))
<1>2. /\ IsSeq(a) /\ Len(a) = InLeaf(2, length)
      /\ \A k \in 1 .. Len(a) : a[k] = NameByte(processor, Offset(2) + k)
  BY <1>1, LeafPrinted
<1>3. /\ IsSeq(b) /\ Len(b) = InLeaf(3, length)
      /\ \A k \in 1 .. Len(b) : b[k] = NameByte(processor, Offset(3) + k)
  BY <1>1, LeafPrinted
<1>4. /\ IsSeq(c) /\ Len(c) = InLeaf(4, length)
      /\ \A k \in 1 .. Len(c) : c[k] = NameByte(processor, Offset(4) + k)
  BY <1>1, LeafPrinted
<1>5. ProcessorName = a \o b \o c
  BY DEF ProcessorName
<1> HIDE DEF a, b, c
<1> DEFINE ab == a \o b
           text == ab \o c
<1>6. /\ IsSeq(ab) /\ Len(ab) = Len(a) + Len(b)
      /\ \A k \in 1 .. Len(a) : ab[k] = a[k]
      /\ \A k \in Len(a) + 1 .. Len(a) + Len(b) : ab[k] = b[k - Len(a)]
  BY <1>2, <1>3, Concat
<1> HIDE DEF ab
<1>7. /\ Len(text) = Len(ab) + Len(c)
      /\ \A k \in 1 .. Len(ab) : text[k] = ab[k]
      /\ \A k \in Len(ab) + 1 .. Len(ab) + Len(c) : text[k] = c[k - Len(ab)]
  BY <1>4, <1>6, Concat
<1> HIDE DEF text
<1>8. length \in 0 .. 48 /\ Offset(2) = 0 /\ Offset(3) = 16 /\ Offset(4) = 32
  BY DEF NAME_BYTES, REGISTER_BYTES, Offset
<1>9. Len(text) = length
  BY <1>2, <1>3, <1>4, <1>6, <1>7, <1>8 DEF InLeaf
<1>10. ASSUME NEW k \in 1 .. length
       PROVE  text[k] = NameByte(processor, k)
  <2>1. CASE k <= 16
    <3>1. k \in 1 .. Len(a) /\ k \in 1 .. Len(ab)
      BY <1>2, <1>3, <1>6, <1>8, <2>1 DEF InLeaf
    <3> QED BY <3>1, <1>2, <1>6, <1>7, <1>8
  <2>2. CASE k > 16 /\ k <= 32
    <3>1. Len(a) = 16 /\ k - 16 \in 1 .. Len(b)
      BY <1>2, <1>3, <1>8, <2>2 DEF InLeaf
    <3>2. text[k] = b[k - 16]
      <4>1. k \in Len(a) + 1 .. Len(a) + Len(b) /\ k \in 1 .. Len(ab) /\ k - Len(a) = k - 16
        BY <3>1, <1>6, <1>8, <2>2, <1>3 DEF InLeaf
      <4> QED BY <4>1, <1>6, <1>7
    <3> QED BY <3>1, <3>2, <1>3, <1>8
  <2>3. CASE k > 32
    <3>1. Len(ab) = 32 /\ k - 32 \in 1 .. Len(c)
      BY <1>2, <1>3, <1>4, <1>6, <1>8, <2>3 DEF InLeaf
    <3>2. text[k] = c[k - 32]
      BY <3>1, <1>7
    <3> QED BY <3>1, <3>2, <1>4, <1>8
  <2> QED BY <1>8, <2>1, <2>2, <2>3
<1>11. \A k \in 1 .. NAME_BYTES : NameByte(processor, k) = END <=> k > length
  BY <1>1 DEF Filled
<1>12. IsFullName(text)
  <2>1. NAME_BYTES = 48
    BY DEF NAME_BYTES, REGISTER_BYTES
  <2>2. ASSUME NEW k \in 1 .. NAME_BYTES
        PROVE  IF k <= Len(text) THEN text[k] = NameByte(processor, k) /\ text[k] # END
               ELSE NameByte(processor, k) = END
    <3>1. CASE k <= length
      <4>1. k \in 1 .. length
        BY <1>8, <2>1, <3>1
      <4>2. text[k] = NameByte(processor, k)
        BY <4>1, <1>10
      <4>3. NameByte(processor, k) # END
        BY <1>8, <1>11, <2>1, <3>1
      <4> QED BY <1>9, <3>1, <4>2, <4>3
    <3>2. CASE k > length
      <4>1. NameByte(processor, k) = END
        BY <1>11, <3>2
      <4> QED BY <1>8, <1>9, <2>1, <3>2, <4>1
    <3> QED BY <1>8, <2>1, <3>1, <3>2
  <2> QED BY <1>8, <1>9, <2>1, <2>2 DEF IsFullName
<1> QED BY <1>5, <1>12 DEF text, ab

-----------------------------------------------------------------------------
(***************************************************************************)
(* The report.                                                             *)
(***************************************************************************)
Nameless(lines) ==
    IsSeq(lines) /\ \A k \in 1 .. Len(lines) : lines[k].what # "name"

NamedOnce(lines) ==
    /\ IsSeq(lines)
    /\ \E n \in 1 .. Len(lines) :
          /\ \A k \in 1 .. Len(lines) : lines[k].what = "name" <=> k = n
          /\ lines[n].text = ProcessorName

LEMMA NoLines == Nameless(<< >>)
  BY DEF Nameless, IsSeq

LEMMA OneLine ==
    ASSUME NEW what, NEW n, NEW text, what # "name"
    PROVE  Nameless(<<Line(what, n, text)>>)
  BY DEF Nameless, IsSeq, Line

LEMMA NamelessBoth ==
    ASSUME NEW s, NEW t, Nameless(s), Nameless(t)
    PROVE  Nameless(s \o t)
<1> DEFINE st == s \o t
<1>1. IsSeq(s) /\ IsSeq(t)
  BY DEF Nameless
<1>2. /\ IsSeq(st) /\ Len(st) = Len(s) + Len(t)
      /\ \A k \in 1 .. Len(s) : st[k] = s[k]
      /\ \A k \in Len(s) + 1 .. Len(s) + Len(t) : st[k] = t[k - Len(s)]
  BY <1>1, Concat
<1> HIDE DEF st
<1>3. Len(s) \in Nat /\ Len(t) \in Nat
  BY <1>1 DEF IsSeq
<1>4. ASSUME NEW k \in 1 .. Len(st)
      PROVE  st[k].what # "name"
  <2>1. CASE k <= Len(s)
    BY <1>2, <1>3, <2>1 DEF Nameless
  <2>2. CASE k > Len(s)
    <3>1. k \in Len(s) + 1 .. Len(s) + Len(t) /\ k - Len(s) \in 1 .. Len(t)
      BY <1>2, <1>3, <2>2
    <3> QED BY <3>1, <1>2 DEF Nameless
  <2> QED BY <1>3, <2>1, <2>2
<1>5. Nameless(st)
  BY <1>2, <1>4 DEF Nameless
<1> QED BY <1>5 DEF st

\* What is said before or after the name leaves it the only one.
LEMMA NameBetween ==
    ASSUME NEW s, NEW t,
           \/ Nameless(s) /\ NamedOnce(t)
           \/ NamedOnce(s) /\ Nameless(t)
    PROVE  NamedOnce(s \o t)
<1> DEFINE st == s \o t
<1>1. IsSeq(s) /\ IsSeq(t)
  BY DEF Nameless, NamedOnce
<1>2. /\ IsSeq(st) /\ Len(st) = Len(s) + Len(t)
      /\ \A k \in 1 .. Len(s) : st[k] = s[k]
      /\ \A k \in Len(s) + 1 .. Len(s) + Len(t) : st[k] = t[k - Len(s)]
  BY <1>1, Concat
<1> HIDE DEF st
<1>3. Len(s) \in Nat /\ Len(t) \in Nat
  BY <1>1 DEF IsSeq
<1> SUFFICES NamedOnce(st)
  BY DEF st
<1>4. CASE Nameless(s) /\ NamedOnce(t)
  <2>1. PICK n \in 1 .. Len(t) :
           /\ \A k \in 1 .. Len(t) : t[k].what = "name" <=> k = n
           /\ t[n].text = ProcessorName
    BY <1>4 DEF NamedOnce
  <2>2. Len(s) + n \in 1 .. Len(st) /\ st[Len(s) + n] = t[n]
    <3>1. Len(s) + n \in Len(s) + 1 .. Len(s) + Len(t) /\ (Len(s) + n) - Len(s) = n
      BY <1>3
    <3> QED BY <3>1, <1>2, <1>3
  <2>3. ASSUME NEW k \in 1 .. Len(st)
        PROVE  st[k].what = "name" <=> k = Len(s) + n
    <3>1. CASE k <= Len(s)
      <4>1. k \in 1 .. Len(s) /\ k # Len(s) + n
        BY <1>3, <3>1
      <4> QED BY <4>1, <1>2, <1>4 DEF Nameless
    <3>2. CASE k > Len(s)
      <4>1. /\ k \in Len(s) + 1 .. Len(s) + Len(t)
            /\ k - Len(s) \in 1 .. Len(t)
            /\ k - Len(s) = n <=> k = Len(s) + n
        BY <1>2, <1>3, <3>2
      <4> QED BY <4>1, <1>2, <2>1
    <3> QED BY <1>3, <3>1, <3>2
  <2> QED BY <1>2, <2>1, <2>2, <2>3 DEF NamedOnce
<1>5. CASE NamedOnce(s) /\ Nameless(t)
  <2>1. PICK n \in 1 .. Len(s) :
           /\ \A k \in 1 .. Len(s) : s[k].what = "name" <=> k = n
           /\ s[n].text = ProcessorName
    BY <1>5 DEF NamedOnce
  <2>2. n \in 1 .. Len(st) /\ st[n] = s[n]
    BY <1>2, <1>3
  <2>3. ASSUME NEW k \in 1 .. Len(st)
        PROVE  st[k].what = "name" <=> k = n
    <3>1. CASE k <= Len(s)
      <4>1. k \in 1 .. Len(s)
        BY <1>3, <3>1
      <4> QED BY <4>1, <1>2, <2>1
    <3>2. CASE k > Len(s)
      <4>1. /\ k \in Len(s) + 1 .. Len(s) + Len(t)
            /\ k - Len(s) \in 1 .. Len(t)
            /\ k # n
        BY <1>2, <1>3, <3>2
      <4> QED BY <4>1, <1>2, <1>5 DEF Nameless
    <3> QED BY <1>3, <3>1, <3>2
  <2> QED BY <1>2, <2>1, <2>2, <2>3 DEF NamedOnce
<1> QED BY <1>4, <1>5

LEMMA TheName == NamedOnce(<<Line("name", 0, ProcessorName)>>)
<1> DEFINE line == Line("name", 0, ProcessorName)
<1>1. line.what = "name" /\ line.text = ProcessorName
  BY DEF Line
<1> HIDE DEF line
<1>2. IsSeq(<<line>>) /\ Len(<<line>>) = 1 /\ <<line>>[1] = line
  BY DEF IsSeq
<1>3. NamedOnce(<<line>>)
  BY <1>1, <1>2 DEF NamedOnce
<1> QED BY <1>3 DEF line

-----------------------------------------------------------------------------
(***************************************************************************)
(* The invariant.                                                          *)
(***************************************************************************)
ReportInv ==
    /\ step \in {"detect_cpu", "intel", "intel extended", "amd", "amd extended"} =>
          Nameless(report)
    /\ processor.extended >= 4 =>
          /\ step \in {"intel stepping", "amd diode", "amd stepping"} => NamedOnce(report)
          /\ step = "done" /\ processor.vendor \in {"intel", "amd"} => NamedOnce(report)

IInv == processor \in Processors /\ LeavesSupported /\ ReportInv

LEMMA InitInv == CpuInit => IInv
  BY NoLines DEF CpuInit, IInv, LeavesSupported, ReportInv

\* The processor does not change, nor does its name.
LEMMA SameName ==
    ASSUME UNCHANGED processor
    PROVE  /\ Nameless(report') => Nameless(report)'
           /\ NamedOnce(report') => NamedOnce(report)'
<1>1. ProcessorName' = ProcessorName
  BY DEF ProcessorName, RegistersOf, PrintRegs
<1> QED BY <1>1 DEF NamedOnce, Nameless, IsSeq

\* What a step asks for exists, and what it says is the name exactly if it
\* leads to where the name has been said.
Supported(leaves) ==
    \A l \in leaves :
       IF l.extended THEN l.leaf = 0 \/ l.leaf <= processor.extended
       ELSE l.leaf <= processor.basic

Says(from, to, lines) ==
    /\ to # "detect_cpu"
    /\ to \in {"intel", "intel extended", "amd", "amd extended"} =>
          from \in {"detect_cpu", "intel", "amd"} /\ Nameless(lines)
    /\ processor.extended >= 4 =>
       /\ to \in {"intel stepping", "amd diode", "amd stepping"} =>
             \/ from \in {"intel extended", "amd extended"} /\ NamedOnce(lines)
             \/ from = "amd diode" /\ Nameless(lines)
       /\ to = "done" /\ processor.vendor \in {"intel", "amd"} =>
             from \in {"intel stepping", "amd stepping"} /\ Nameless(lines)

LEMMA StepPreserves ==
    ASSUME IInv, NEW from, NEW to, NEW leaves, NEW lines,
           Step(from, to, leaves, lines), Supported(leaves), Says(from, to, lines)
    PROVE  IInv'
<1>1. /\ step = from /\ step' = to /\ asked' = asked \cup leaves
      /\ report' = report \o lines /\ processor' = processor
  BY DEF Step
<1>2. (processor \in Processors)'
  BY <1>1 DEF IInv
<1>3. LeavesSupported'
  BY <1>1, Zenon DEF IInv, LeavesSupported, Supported
<1>4. ReportInv'
  <2>1. ASSUME to \in {"intel", "intel extended", "amd", "amd extended"}
        PROVE  Nameless(report')
    <3>1. Nameless(report) /\ Nameless(lines)
      BY <1>1, <2>1 DEF IInv, ReportInv, Says
    <3> QED BY <3>1, <1>1, NamelessBoth
  <2>2. ASSUME processor.extended >= 4, to \in {"intel stepping", "amd diode", "amd stepping"}
        PROVE  NamedOnce(report')
    <3>1. \/ Nameless(report) /\ NamedOnce(lines)
          \/ NamedOnce(report) /\ Nameless(lines)
      BY <1>1, <2>2 DEF IInv, ReportInv, Says
    <3> QED BY <3>1, <1>1, NameBetween
  <2>3. ASSUME processor.extended >= 4, to = "done", processor.vendor \in {"intel", "amd"}
        PROVE  NamedOnce(report')
    <3>1. NamedOnce(report) /\ Nameless(lines)
      BY <1>1, <2>3 DEF IInv, ReportInv, Says
    <3> QED BY <3>1, <1>1, NameBetween
  <2>4. to # "detect_cpu"
    BY DEF Says
  <2> QED BY <1>1, <2>1, <2>2, <2>3, <2>4, SameName DEF ReportInv
<1> QED BY <1>2, <1>3, <1>4 DEF IInv

\* The leaves a processor has.
LEMMA Leaves ==
    ASSUME IInv
    PROVE  /\ processor.basic \in Nat \ {0} /\ processor.extended \in Int \ {2, 3}
           /\ Supported({}) /\ Supported({Basic(0)}) /\ Supported({Basic(1)})
           /\ Supported({Extended(0)})
           /\ processor.extended >= 7 => Supported({Extended(7)})
           /\ processor.extended >= 2 =>
                 /\ processor.extended >= 4
                 /\ Supported({Extended(n) : n \in {0, 2, 3, 4}})
                 /\ Supported({Extended(0)} \cup {Extended(n) : n \in 2 .. 4})
<1>1. processor.basic \in Nat \ {0} /\ processor.extended \in Int \ {2, 3}
  BY LeavesAssumption DEF IInv
<1>2. /\ Supported({}) /\ Supported({Basic(0)}) /\ Supported({Basic(1)})
      /\ Supported({Extended(0)})
      /\ processor.extended >= 7 => Supported({Extended(7)})
  BY <1>1 DEF Supported, Basic, Extended
<1>3. ASSUME processor.extended >= 2
      PROVE  /\ processor.extended >= 4
             /\ Supported({Extended(n) : n \in {0, 2, 3, 4}})
             /\ Supported({Extended(0)} \cup {Extended(n) : n \in 2 .. 4})
  <2>1. processor.extended >= 4
    BY <1>1, <1>3
  <2>2. \A n \in {0, 2, 3, 4} : Supported({Extended(n)})
    BY <1>1, <2>1 DEF Supported, Extended
  <2>3. \A n \in 2 .. 4 : Supported({Extended(n)})
    BY <1>1, <2>1 DEF Supported, Extended
  <2>4. Supported({Extended(n) : n \in {0, 2, 3, 4}})
    BY <2>2, Zenon DEF Supported
  <2>5. Supported({Extended(0)} \cup {Extended(n) : n \in 2 .. 4})
    BY <1>2, <2>3, Zenon DEF Supported
  <2> QED BY <2>1, <2>4, <2>5
<1> QED BY <1>1, <1>2, <1>3

LEMMA DetectPreserves == IInv /\ DetectCpu => IInv'
<1> SUFFICES ASSUME IInv, DetectCpu PROVE IInv'
  OBVIOUS
<1> DEFINE v == processor.vendor
           to == IF v \in {"intel", "amd"} THEN v ELSE "done"
           lines == IF v \in {"intel", "amd"} THEN << >> ELSE <<Line("unknown", 0, << >>)>>
<1>1. Step("detect_cpu", to, {Basic(0)}, lines)
  BY DEF DetectCpu
<1>2. Nameless(lines)
  BY NoLines, OneLine
<1>3. /\ to \in {"intel", "amd", "done"}
      /\ to = "done" => processor.vendor \notin {"intel", "amd"}
  OBVIOUS
<1> HIDE DEF v, to, lines
<1>4. Says("detect_cpu", to, lines)
  BY <1>2, <1>3 DEF Says
<1>5. Supported({Basic(0)})
  BY Leaves
<1> QED BY <1>1, <1>4, <1>5, StepPreserves, Zenon

LEMMA IntelPreserves ==
    IInv /\ (IntelSignature \/ IntelName \/ IntelBrand \/ IntelStepping) => IInv'
<1> SUFFICES ASSUME IInv, IntelSignature \/ IntelName \/ IntelBrand \/ IntelStepping
             PROVE  IInv'
  OBVIOUS
<1>1. CASE IntelSignature
  <2> DEFINE type == Line("type", Type, "named")
             family == Line("family", Family,
                            IF Family \in IntelFamilies THEN "named" ELSE "unnamed")
             more == IF Family = 15
                     THEN <<Line("extended family", ExtendedFamily, << >>)>> ELSE << >>
             model == Line("model", Model, Named(IntelModels, Family, Model))
             lines == <<type, family>> \o more \o <<model>>
  <2>1. Step("intel", "intel extended", {Basic(1)}, lines)
    BY <1>1 DEF IntelSignature
  <2>2. Nameless(<<type, family>>)
    <3>1. type.what # "name" /\ family.what # "name"
      BY DEF Line
    <3> HIDE DEF type, family
    <3> QED BY <3>1 DEF Nameless, IsSeq
  <2>3. Nameless(more) /\ Nameless(<<model>>)
    BY NoLines, OneLine
  <2> HIDE DEF type, family, more, model
  <2>4. Nameless(lines)
    BY <2>2, <2>3, NamelessBoth
  <2> HIDE DEF lines
  <2>5. Says("intel", "intel extended", lines) /\ Supported({Basic(1)})
    BY <2>4, Leaves DEF Says
  <2> QED BY <2>1, <2>5, StepPreserves, Zenon
<1>2. CASE IntelName
  <2> DEFINE leaves == {Extended(n) : n \in {0, 2, 3, 4}}
             lines == <<Line("name", 0, ProcessorName)>>
  <2>1. Step("intel extended", "intel stepping", leaves, lines)
    BY <1>2 DEF IntelName
  <2>2. processor.extended >= 4
    BY <1>2 DEF IntelName
  <2>3. NamedOnce(lines)
    BY TheName
  <2>4. Supported(leaves)
    <3>1. processor.extended >= 2
      BY <2>2, Leaves
    <3> QED BY <3>1, Leaves
  <2> HIDE DEF leaves, lines
  <2>5. Says("intel extended", "intel stepping", lines)
    BY <2>3 DEF Says
  <2> QED BY <2>1, <2>4, <2>5, StepPreserves, Zenon
<1>3. CASE IntelBrand
  <2> DEFINE lines == IF processor.brand = 0 THEN << >>
                      ELSE <<Line("brand", processor.brand, BrandText)>>
  <2>1. Step("intel extended", "intel stepping", {Extended(0)}, lines)
    BY <1>3 DEF IntelBrand
  <2>2. processor.extended < 4
    BY <1>3 DEF IntelBrand
  <2>3. ~(processor.extended >= 4)
    BY <2>2, Leaves
  <2> HIDE DEF lines
  <2>4. Says("intel extended", "intel stepping", lines) /\ Supported({Extended(0)})
    BY <2>3, Leaves DEF Says
  <2> QED BY <2>1, <2>4, StepPreserves, Zenon
<1>4. CASE IntelStepping
  <2> DEFINE lines == <<Line("stepping", Stepping, Above(14))>>
  <2>1. Step("intel stepping", "done", {}, lines)
    BY <1>4 DEF IntelStepping
  <2>2. Nameless(lines)
    BY OneLine
  <2> HIDE DEF lines
  <2>3. Says("intel stepping", "done", lines) /\ Supported({})
    BY <2>2, Leaves DEF Says
  <2> QED BY <2>1, <2>3, StepPreserves, Zenon
<1> QED BY <1>1, <1>2, <1>3, <1>4

LEMMA AmdPreserves ==
    IInv /\ (AmdSignature \/ AmdExtended \/ AmdDiode \/ AmdStepping) => IInv'
<1> SUFFICES ASSUME IInv, AmdSignature \/ AmdExtended \/ AmdDiode \/ AmdStepping
             PROVE  IInv'
  OBVIOUS
<1>1. CASE AmdSignature
  <2> DEFINE family == Line("family", Family, << >>)
             model == Line("model", Model, Named(AmdModels, Family, Model))
             lines == <<family, model>>
  <2>1. Step("amd", "amd extended", {Basic(1)}, lines)
    BY <1>1 DEF AmdSignature
  <2>2. family.what # "name" /\ model.what # "name"
    BY DEF Line
  <2> HIDE DEF family, model
  <2>3. Nameless(lines)
    BY <2>2 DEF Nameless, IsSeq
  <2> HIDE DEF lines
  <2>4. Says("amd", "amd extended", lines) /\ Supported({Basic(1)})
    BY <2>3, Leaves DEF Says
  <2> QED BY <2>1, <2>4, StepPreserves, Zenon
<1>2. CASE AmdExtended /\ processor.extended = ZERO_ANSWERED
  <2>1. Step("amd extended", "done", {Extended(0)}, << >>)
    BY <1>2 DEF AmdExtended
  <2>2. ~(processor.extended >= 4)
    BY <1>2 DEF ZERO_ANSWERED
  <2>3. Says("amd extended", "done", << >>) /\ Supported({Extended(0)})
    BY <2>2, Leaves DEF Says
  <2> QED BY <2>1, <2>3, StepPreserves, Zenon
<1>3. CASE AmdExtended /\ processor.extended # ZERO_ANSWERED /\ ~AmdHasName
  <2>1. Step("amd extended", "amd diode", {Extended(0)} \cup {}, << >>)
    BY <1>3, Zenon DEF AmdExtended
  <2>2. ~(processor.extended >= 4)
    BY <1>3, Leaves DEF AmdHasName
  <2>3. Supported({Extended(0)} \cup {})
    <3>1. {Extended(0)} \cup {} = {Extended(0)}
      OBVIOUS
    <3> QED BY <3>1, Leaves
  <2>4. Says("amd extended", "amd diode", << >>)
    BY <2>2 DEF Says
  <2> QED BY <2>1, <2>3, <2>4, StepPreserves, Zenon
<1>4. CASE AmdExtended /\ processor.extended # ZERO_ANSWERED /\ AmdHasName
  <2> DEFINE leaves == {Extended(0)} \cup {Extended(n) : n \in 2 .. 4}
             lines == <<Line("name", 0, ProcessorName)>>
  <2>1. Step("amd extended", "amd diode", leaves, lines)
    BY <1>4, Zenon DEF AmdExtended
  <2>2. Supported(leaves)
    BY <1>4, Leaves DEF AmdHasName
  <2>3. NamedOnce(lines)
    BY TheName
  <2> HIDE DEF leaves, lines
  <2>4. Says("amd extended", "amd diode", lines)
    BY <2>3 DEF Says
  <2> QED BY <2>1, <2>2, <2>4, StepPreserves, Zenon
<1>5. CASE AmdDiode
  <2> DEFINE leaves == IF processor.extended >= 7 THEN {Extended(7)} ELSE {}
             lines == IF processor.extended >= 7 /\ processor.diode
                      THEN <<Line("diode", 0, << >>)>> ELSE << >>
  <2>1. Step("amd diode", "amd stepping", leaves, lines)
    BY <1>5 DEF AmdDiode
  <2>2. Supported(leaves)
    BY Leaves, Zenon
  <2>3. Nameless(lines)
    <3>1. Nameless(<<Line("diode", 0, << >>)>>)
      BY OneLine
    <3> QED BY <3>1, NoLines, Zenon
  <2> HIDE DEF leaves, lines
  <2>4. Says("amd diode", "amd stepping", lines)
    BY <2>3 DEF Says
  <2> QED BY <2>1, <2>2, <2>4, StepPreserves, Zenon
<1>6. CASE AmdStepping
  <2> DEFINE lines == <<Line("stepping", Stepping, Above(12))>>
  <2>1. Step("amd stepping", "done", {}, lines)
    BY <1>6 DEF AmdStepping
  <2>2. Nameless(lines)
    BY OneLine
  <2> HIDE DEF lines
  <2>3. Says("amd stepping", "done", lines) /\ Supported({})
    BY <2>2, Leaves DEF Says
  <2> QED BY <2>1, <2>3, StepPreserves, Zenon
<1> QED BY <1>1, <1>2, <1>3, <1>4, <1>5, <1>6, Zenon

LEMMA NextPreserves == IInv /\ [CpuNext]_cpuVars => IInv'
<1> SUFFICES ASSUME IInv, [CpuNext]_cpuVars PROVE IInv'
  OBVIOUS
<1>1. CASE CpuNext
  BY <1>1, DetectPreserves, IntelPreserves, AmdPreserves, Zenon DEF CpuNext
<1>2. CASE UNCHANGED cpuVars
  <2>1. /\ processor' = processor /\ step' = step /\ asked' = asked /\ report' = report
    BY <1>2 DEF cpuVars
  <2>2. LeavesSupported'
    BY <2>1 DEF IInv, LeavesSupported
  <2>3. ReportInv'
    BY <2>1, SameName, Zenon DEF IInv, ReportInv
  <2> QED BY <2>1, <2>2, <2>3 DEF IInv
<1> QED BY <1>1, <1>2

LEMMA InductiveInvariant == CpuSpec => []IInv
<1> QED BY InitInv, NextPreserves, PTL DEF CpuSpec

-----------------------------------------------------------------------------
\* cpuid is executed only for leaves that the processor has (do_intel's and
\* do_amd's tests of max_eax and extended).
THEOREM LeavesExist == CpuSpec => []LeavesSupported
<1>1. IInv => LeavesSupported
  BY DEF IInv
<1> QED BY <1>1, InductiveInvariant, PTL

\* An Intel or AMD processor that has a name is reported with all of it, in its
\* order and once (printregs, do_intel, do_amd).
THEOREM NamesReported == CpuSpec => []NameInFull
<1>1. IInv => NameInFull
  <2> SUFFICES ASSUME IInv, step = "done", processor.vendor \in {"intel", "amd"},
                      processor.extended >= 4
               PROVE  \E n \in DOMAIN report :
                         /\ \A k \in DOMAIN report : report[k].what = "name" <=> k = n
                         /\ IsFullName(report[n].text)
    BY DEF NameInFull
  <2>1. NamedOnce(report)
    BY DEF IInv, ReportInv
  <2>2. DOMAIN report = 1 .. Len(report)
    BY <2>1 DEF NamedOnce, IsSeq
  <2>3. IsFullName(ProcessorName)
    BY NameIsFull DEF IInv
  <2>4. PICK n \in 1 .. Len(report) :
           /\ \A k \in 1 .. Len(report) : report[k].what = "name" <=> k = n
           /\ report[n].text = ProcessorName
    BY <2>1 DEF NamedOnce
  <2> QED BY <2>2, <2>3, <2>4, Zenon
<1> QED BY <1>1, InductiveInvariant, PTL

\* Both tables have an entry for every brand below a limit of at most 24, of
\* which 0x18 is the largest (do_intel).
THEOREM BrandsHaveEntries == BRAND_LIMIT \in 0 .. 24 => (CpuSpec => []BrandInTable)
<1> SUFFICES ASSUME BRAND_LIMIT \in 0 .. 24
             PROVE  CpuSpec => []BrandInTable
  OBVIOUS
<1>1. IInv => BrandInTable
  <2>1. DOMAIN Intel = 1 .. 24 /\ DOMAIN Intel_Other = 1 .. 24
    BY DEF Intel, Intel_Other
  <2>2. IInv => processor.brand \in Nat
    BY LeavesAssumption DEF IInv
  <2>3. IInv /\ InTable(processor.brand) => processor.brand + 1 \in 1 .. 24
    BY <2>2 DEF InTable
  <2>4. DOMAIN BrandTable = 1 .. 24
    BY <2>1, Zenon DEF BrandTable
  <2> QED BY <2>3, <2>4, Zenon DEF BrandInTable
<1> QED BY <1>1, InductiveInvariant, PTL
=============================================================================
