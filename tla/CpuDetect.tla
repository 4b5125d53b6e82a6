------------------------------ MODULE CpuDetect ------------------------------
(***************************************************************************)
(* detect_cpu (kernel/arch/x86_64/cpu/cpudet.c): what cpuid is asked, and      *)
(* what is reported of an Intel and of an AMD processor.                     *)
(*                                                                         *)
(* A processor is [vendor, eax, brand, basic, extended, name, diode]: eax is  *)
(* its signature, brand the lowest byte of ebx, basic its highest leaf, and   *)
(* extended what it answers to leaf 0x80000000, as a distance from it: its     *)
(* highest extended leaf, or a negative number if it has none.  name has      *)
(* twelve registers of RegisterBytes characters; a report's line is          *)
(* [what, number, text].                                                   *)
(***************************************************************************)
EXTENDS Integers, Sequences, SequencesExt

CONSTANTS
    Processors,
    BRAND_LIMIT,        \* 0x18
    OtherSignatures     \* 0x000006B1 and 0x00000F13

\* A processor has leaf 1, which is asked for without a test, and all of the
\* three leaves of the name if it has the first of them (the comment in do_intel
\* says so of Intel's; do_amd relies on it).
ASSUME LeavesAssumption ==
    \A p \in Processors :
       p.basic \in Nat \ {0} /\ p.extended \in Int \ {2, 3} /\ p.brand \in Nat

REGISTER_BYTES == 4
END == "NUL"

\* Byte c of a processor's name, which is filled up with zeros.
NAME_BYTES == 12 * REGISTER_BYTES
NameByte(p, c) ==
    p.name[((c - 1) \div REGISTER_BYTES) + 1][((c - 1) % REGISTER_BYTES) + 1]

ASSUME NameAssumption ==
    \A p \in Processors : \E length \in 0 .. NAME_BYTES : \A c \in 1 .. NAME_BYTES :
       NameByte(p, c) = END <=> c > length

VARIABLES
    processor,
    step,               \* Where in detect_cpu, do_intel or do_amd
    asked,              \* The leaves cpuid was executed for
    report              \* What has been printed

cpuVars == <<processor, step, asked, report>>

Basic(n) == [extended |-> FALSE, leaf |-> n]
Extended(n) == [extended |-> TRUE, leaf |-> n]

\* The fields of the signature.
Stepping == processor.eax % 16
Model == (processor.eax \div 2 ^ 4) % 16
Family == (processor.eax \div 2 ^ 8) % 16
Type == (processor.eax \div 2 ^ 12) % 4
ExtendedFamily == (processor.eax \div 2 ^ 20) % 256
Above(bit) == processor.eax \div 2 ^ bit

Line(what, n, text) == [what |-> what, number |-> n, text |-> text]

-----------------------------------------------------------------------------
(***************************************************************************)
(* The tables.  The names of the models are left out but for whether there    *)
(* is one, those of the brands are shortened.                              *)
(***************************************************************************)
IntelFamilies == {3, 4, 5, 6, 15}
IntelModels == [f \in IntelFamilies |->
    CASE f = 4 -> {0, 1, 2, 3, 4, 5, 7, 8}
      [] f = 5 -> 1 .. 4
      [] f = 6 -> {1, 3, 5, 6, 7, 8}
      [] OTHER -> {}]
\* do_amd: the models it has more than "family and model" to say about.
AmdModels == [f \in {4, 5, 6} |->
    CASE f = 4 -> 0 .. 15
      [] f = 5 -> {0, 1, 2, 3, 6, 7, 8, 9}
      [] f = 6 -> {1, 2, 3, 4, 6, 7}]

Named(names, f, m) == IF f \in DOMAIN names /\ m \in names[f] THEN "named" ELSE "unnamed"

Intel == <<
    "Not Supported", "Celeron", "Pentium III", "Pentium III Xeon", "Pentium III",
    "Reserved", "Mobile Pentium III-M", "Mobile Celeron", "Pentium 4", "Pentium 4",
    "Celeron", "Xeon", "Xeon MP", "Reserved", "Mobile Pentium 4-M",
    "Mobile Pentium Celeron", "Reserved", "Mobile Genuine Intel", "Celeron M",
    "Mobile Celeron", "Celeron", "Mobile Geniune Intel", "Pentium M", "Mobile Celeron">>
Intel_Other == <<
    "Reserved", "Reserved", "Reserved", "Celeron", "Reserved", "Reserved",
    "Reserved", "Reserved", "Reserved", "Reserved", "Reserved", "Xeon MP",
    "Reserved", "Reserved", "Xeon", "Reserved", "Reserved", "Reserved",
    "Reserved", "Reserved", "Reserved", "Reserved", "Reserved", "Reserved">>

BrandTable == IF processor.eax \in OtherSignatures THEN Intel_Other ELSE Intel

\* Mutant: the limit itself is looked up.
InTableToo(b) == b <= BRAND_LIMIT
InTable(b) == b < BRAND_LIMIT
BrandText == IF InTable(processor.brand) THEN BrandTable[processor.brand + 1] ELSE "Reserved"

\* Mutant: the highest byte comes first.
HighestFirst(register, j) == register[REGISTER_BYTES - j]
\* register >> (8 * j)
ByteOf(register, j) == register[j + 1]

\* printregs: byte j of register r is character j + 4 * r; %s prints up to the
\* first zero, of which there is one behind the sixteenth character.
PrintRegs(registers) ==
    LET string == [c \in 1 .. 4 * REGISTER_BYTES |->
                      ByteOf(registers[((c - 1) \div REGISTER_BYTES) + 1],
                             (c - 1) % REGISTER_BYTES)]
        zeros == {c \in DOMAIN string : string[c] = END}
        length == IF zeros = {} THEN 4 * REGISTER_BYTES ELSE Min(zeros) - 1
    IN  [c \in 1 .. length |-> string[c]]

\* The three leaves of the name, 0x80000002 to 0x80000004.
RegistersOf(leaf) == [r \in 1 .. 4 |-> processor.name[4 * (leaf - 2) + r]]
ProcessorName ==
    PrintRegs(RegistersOf(2)) \o PrintRegs(RegistersOf(3)) \o PrintRegs(RegistersOf(4))

-----------------------------------------------------------------------------
CpuInit ==
    /\ processor \in Processors
    /\ step = "detect_cpu" /\ asked = {} /\ report = << >>

\* One cpuid and what is printed until the next.
Step(from, to, leaves, lines) ==
    /\ step = from
    /\ step' = to
    /\ asked' = asked \cup leaves
    /\ report' = report \o lines
    /\ UNCHANGED processor

DetectCpu ==
    LET v == processor.vendor
    IN  Step("detect_cpu", IF v \in {"intel", "amd"} THEN v ELSE "done", {Basic(0)},
             IF v \in {"intel", "amd"} THEN << >> ELSE <<Line("unknown", 0, << >>)>>)

\* do_intel: type, family, extended family and model.
IntelSignature ==
    Step("intel", "intel extended", {Basic(1)},
         <<Line("type", Type, "named"),
           Line("family", Family, IF Family \in IntelFamilies THEN "named" ELSE "unnamed")>>
         \o (IF Family = 15 THEN <<Line("extended family", ExtendedFamily, << >>)>> ELSE << >>)
         \o <<Line("model", Model, Named(IntelModels, Family, Model))>>)

\* max_eax >= 0x80000004, or the brand of the tables if there is one.
IntelName ==
    /\ processor.extended >= 4
    /\ Step("intel extended", "intel stepping", {Extended(n) : n \in {0, 2, 3, 4}},
            <<Line("name", 0, ProcessorName)>>)

IntelBrand ==
    /\ processor.extended < 4
    /\ Step("intel extended", "intel stepping", {Extended(0)},
            IF processor.brand = 0 THEN << >>
            ELSE <<Line("brand", processor.brand, BrandText)>>)

IntelStepping ==
    Step("intel stepping", "done", {}, <<Line("stepping", Stepping, Above(14))>>)

AmdSignature ==
    Step("amd", "amd extended", {Basic(1)},
         <<Line("family", Family, << >>),
           Line("model", Model, Named(AmdModels, Family, Model))>>)

\* 0, as a distance from 0x80000000.
ZERO_ANSWERED == -2147483647 - 1

\* Mutant: the name is asked for without looking at the highest leaf.
AmdNameAlways == TRUE
AmdHasName == processor.extended >= 2

\* Nothing more is said if the answer is 0; a processor without extended leaves
\* may as well answer with something else below 0x80000000.
AmdExtended ==
    IF processor.extended = ZERO_ANSWERED
    THEN Step("amd extended", "done", {Extended(0)}, << >>)
    ELSE Step("amd extended", "amd diode",
              {Extended(0)} \cup IF AmdHasName THEN {Extended(n) : n \in 2 .. 4} ELSE {},
              IF AmdHasName THEN <<Line("name", 0, ProcessorName)>> ELSE << >>)

AmdDiode ==
    LET has == processor.extended >= 7
    IN  Step("amd diode", "amd stepping", IF has THEN {Extended(7)} ELSE {},
             IF has /\ processor.diode THEN <<Line("diode", 0, << >>)>> ELSE << >>)

AmdStepping ==
    Step("amd stepping", "done", {}, <<Line("stepping", Stepping, Above(12))>>)

CpuNext ==
    \/ DetectCpu
    \/ IntelSignature \/ IntelName \/ IntelBrand \/ IntelStepping
    \/ AmdSignature \/ AmdExtended \/ AmdDiode \/ AmdStepping

CpuSpec == CpuInit /\ [][CpuNext]_cpuVars

-----------------------------------------------------------------------------
(***************************************************************************)
(* Properties.                                                             *)
(***************************************************************************)
\* cpuid is executed only for leaves that the processor has; the highest
\* extended leaf is asked for itself to find out (do_intel's and do_amd's tests
\* of max_eax and extended).
LeavesSupported ==
    \A l \in asked :
       IF l.extended THEN l.leaf = 0 \/ l.leaf <= processor.extended
       ELSE l.leaf <= processor.basic

\* The text is the name up to its zeros.
IsFullName(text) ==
    /\ Len(text) <= NAME_BYTES
    /\ \A c \in 1 .. NAME_BYTES :
          IF c <= Len(text) THEN text[c] = NameByte(processor, c) /\ text[c] # END
          ELSE NameByte(processor, c) = END

\* A processor that has a name is reported with all of it, in its order and
\* once: the bytes of four registers of three leaves, up to the zeros that fill
\* them (printregs, do_intel, do_amd).
NameInFull ==
    step = "done" /\ processor.vendor \in {"intel", "amd"} /\ processor.extended >= 4 =>
       \E n \in DOMAIN report :
          /\ \A k \in DOMAIN report : report[k].what = "name" <=> k = n
          /\ IsFullName(report[n].text)

\* Whatever an Intel processor gives for its brand, the table its signature
\* selects has an entry for it, although both are indexed behind the same test
\* (do_intel; the comment on Intel_Other wants both of the same length).
BrandInTable ==
    step = "intel extended" /\ InTable(processor.brand) =>
       processor.brand + 1 \in DOMAIN BrandTable
=============================================================================
