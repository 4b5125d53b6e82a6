---------------------------- MODULE KernelProofs ----------------------------
(***************************************************************************)
(* Proofs about Kernel, for any number of slots, strikes and handlers:       *)
(* kernel_main does not run past its end, no output gets a line twice or one  *)
(* of a thread that has been interrupted, and none misses a message of        *)
(* kernel_main.                                                            *)
(*                                                                         *)
(* A handler never returns, so of all handlers and dispatches only the        *)
(* innermost one matters.  Its message is on an output exactly if the loop is  *)
(* past the output's slot; what kernel_main and the handler have yet to log   *)
(* is on none.  Until an exception comes, an output has what kernel_main has  *)
(* logged, the message under way included once the loop is past its slot.     *)
(***************************************************************************)
EXTENDS Kernel, SequenceTheorems, FiniteSetTheorems, TLAPS

Fns == {"kernel_log", "serial_log"}
Severities == {DEBUG, INFO, CRITICAL}

-----------------------------------------------------------------------------
(***************************************************************************)
(* kernel_main, as a sequence of effects.                                   *)
(***************************************************************************)
SerialWhats == {"Initializing Serial port", "Serial port initialized"}
TerminalWhats == {"Terminal initialized"}
GdtWhats == {"Initializing GDT", "GDT initialized"}
HhdmWhats == {"HHDM Set", "HHDM Request Failed"}
PmmWhats == {"Total usable memory", "Highest usable address", "Could not allocate bitmap",
             "Bitmap stored", "Found memory entries", "Freeing", "Bitmap created"}
Whats == SerialWhats \cup TerminalWhats \cup GdtWhats \cup HhdmWhats \cup PmmWhats

LEMMA WhatsAre ==
    /\ "Initializing Serial port" \in Whats
    /\ "Serial port initialized" \in Whats
    /\ "Terminal initialized" \in Whats
    /\ "Initializing GDT" \in Whats
    /\ "GDT initialized" \in Whats
    /\ "HHDM Set" \in Whats
    /\ "HHDM Request Failed" \in Whats
    /\ "Total usable memory" \in Whats
    /\ "Highest usable address" \in Whats
    /\ "Could not allocate bitmap" \in Whats
    /\ "Bitmap stored" \in Whats
    /\ "Found memory entries" \in Whats
    /\ "Freeing" \in Whats
    /\ "Bitmap created" \in Whats
  BY DEF Whats, SerialWhats, TerminalWhats, GdtWhats, HhdmWhats, PmmWhats

Logs == [op : {"log"}, severity : Severities, what : Whats]
Ops == {"hcf", "print", "is_initialized", "ulog_init", "subscribe kernel_log",
        "subscribe serial_log", "lidt"}
Others == [op : Ops]
Effects == Logs \cup Others

\* The part s of kernel_main logs each of the messages in whats once at most,
\* and no others.
Part(s, whats) ==
    /\ s \in Seq(Effects)
    /\ Len(s) >= 1
    /\ \A k \in 1 .. Len(s) : s[k].op = "log" => s[k].what \in whats
    /\ \A k, l \in 1 .. Len(s) :
          s[k].op = "log" /\ s[l].op = "log" /\ k # l => s[k].what # s[l].what

LEMMA EffectFields ==
    ASSUME NEW e \in Effects
    PROVE  /\ e.op = "log" => e.severity \in Severities /\ e.what \in Whats
           /\ e.op \in Ops \cup {"log"}
           /\ e.op # "log" => e.op \in Ops
  BY DEF Effects, Logs, Others, Ops

LEMMA SayPart ==
    ASSUME NEW severity \in Severities, NEW what \in Whats
    PROVE  Part(Say(severity, what), {what})
<1> DEFINE e == [op |-> "log", severity |-> severity, what |-> what]
<1>1. e \in Effects /\ e.op = "log" /\ e.what = what
  BY DEF Effects, Logs
<1>2. Say(severity, what) = <<e>>
  BY DEF Say
<1> HIDE DEF e
<1>3. <<e>> \in Seq(Effects) /\ Len(<<e>>) = 1 /\ <<e>>[1] = e
  BY <1>1
<1> QED
  BY <1>1, <1>2, <1>3 DEF Part

LEMMA DoPart ==
    ASSUME NEW op \in Ops
    PROVE  Part(Do(op), {})
<1> DEFINE e == [op |-> op]
<1>1. e \in Effects /\ e.op = op /\ e.op # "log"
  BY DEF Effects, Others, Ops
<1>2. Do(op) = <<e>>
  BY DEF Do
<1> HIDE DEF e
<1>3. <<e>> \in Seq(Effects) /\ Len(<<e>>) = 1 /\ <<e>>[1] = e
  BY <1>1
<1> QED
  BY <1>1, <1>2, <1>3 DEF Part

LEMMA JoinParts ==
    ASSUME NEW s, NEW t, NEW a, NEW b, Part(s, a), Part(t, b), a \cap b = {}
    PROVE  Part(s \o t, a \cup b)
<1> DEFINE u == s \o t  m == Len(s)  n == Len(t)
<1>1. s \in Seq(Effects) /\ t \in Seq(Effects) /\ m \in Nat /\ n \in Nat /\ m >= 1 /\ n >= 1
  BY DEF Part
<1>2. /\ u \in Seq(Effects) /\ Len(u) = m + n
      /\ \A k \in 1 .. m : u[k] = s[k]
      /\ \A k \in m + 1 .. m + n : u[k] = t[k - m] /\ k - m \in 1 .. n
  BY <1>1
<1> HIDE DEF u, m, n
<1>3. \A k \in 1 .. m + n : k \in 1 .. m \/ k \in m + 1 .. m + n
  BY <1>1
<1>4. \A k \in 1 .. m : u[k].op = "log" => u[k].what \in a
  BY <1>2 DEF Part, m
<1>5. \A k \in m + 1 .. m + n : u[k].op = "log" => u[k].what \in b
  BY <1>2 DEF Part, n
<1>6. ASSUME NEW k \in 1 .. m + n, NEW l \in 1 .. m + n,
             u[k].op = "log", u[l].op = "log", k # l
      PROVE  u[k].what # u[l].what
  <2>1. CASE k \in 1 .. m /\ l \in 1 .. m
    BY <1>2, <1>6, <2>1 DEF Part, m
  <2>2. CASE k \in m + 1 .. m + n /\ l \in m + 1 .. m + n
    <3>1. k - m # l - m
      BY <1>1, <1>6
    <3> QED
      BY <1>2, <1>6, <2>2, <3>1 DEF Part, n
  <2>3. CASE k \in 1 .. m /\ l \in m + 1 .. m + n
    BY <1>4, <1>5, <1>6, <2>3
  <2>4. CASE k \in m + 1 .. m + n /\ l \in 1 .. m
    BY <1>4, <1>5, <1>6, <2>4
  <2> QED
    BY <1>3, <2>1, <2>2, <2>3, <2>4
<1>7. \A k \in 1 .. m + n : u[k].op = "log" => u[k].what \in a \cup b
  BY <1>3, <1>4, <1>5
<1>8. Part(u, a \cup b)
  BY <1>1, <1>2, <1>6, <1>7 DEF Part
<1> QED
  BY <1>8 DEF u

\* A choice of parts.
LEMMA WiderPart ==
    ASSUME NEW s, NEW a, NEW b, Part(s, a), a \subseteq b
    PROVE  Part(s, b)
  BY DEF Part

\* The same parts, written with fewer sets.
LEMMA SayPair ==
    ASSUME NEW v \in Severities, NEW w \in Severities, NEW x \in Whats, NEW y \in Whats, x # y
    PROVE  Part(Say(v, x) \o Say(w, y), {x, y})
<1>1. Part(Say(v, x), {x}) /\ Part(Say(w, y), {y})
  BY SayPart
<1>2. {x} \cap {y} = {} /\ {x} \cup {y} = {x, y}
  OBVIOUS
<1>3. Part(Say(v, x) \o Say(w, y), {x} \cup {y})
  BY <1>1, <1>2, JoinParts
<1> QED
  BY <1>2, <1>3

LEMMA Silent ==
    ASSUME NEW s, NEW a, NEW op \in Ops, Part(s, a)
    PROVE  Part(s \o Do(op), a) /\ Part(Do(op) \o s, a)
<1>1. Part(Do(op), {})
  BY DoPart
<1>2. a \cap {} = {} /\ {} \cap a = {} /\ a \cup {} = a /\ {} \cup a = a
  OBVIOUS
<1>3. Part(s \o Do(op), a \cup {}) /\ Part(Do(op) \o s, {} \cup a)
  BY <1>1, <1>2, JoinParts
<1> QED
  BY <1>2, <1>3

LEMMA Ranks == INFO \in Severities /\ DEBUG \in Severities /\ CRITICAL \in Severities
  BY DEF Severities

LEMMA SerialPart == Part(serial_initialize, SerialWhats)
<1>1. Part(Say(INFO, "Initializing Serial port") \o Say(INFO, "Serial port initialized"),
           {"Initializing Serial port", "Serial port initialized"})
  BY SayPair, Ranks, WhatsAre, Zenon
<1>2. "is_initialized" \in Ops
  BY DEF Ops
<1> QED
  BY <1>1, <1>2, Silent DEF serial_initialize, SerialWhats

LEMMA TerminalPart == Part(terminal_initialize, TerminalWhats)
<1>1. "print" \in Ops /\ "hcf" \in Ops
  BY DEF Ops
<1>2. Part(Say(INFO, "Terminal initialized"), TerminalWhats)
  BY SayPart, Ranks, WhatsAre, Zenon DEF TerminalWhats
<1>3. Part(Do("print") \o Say(INFO, "Terminal initialized"), TerminalWhats)
  BY <1>1, <1>2, Silent
<1>4. Part(hcf, TerminalWhats)
  BY <1>1, DoPart, WiderPart DEF hcf
<1> QED
  BY <1>3, <1>4 DEF terminal_initialize

LEMMA SilentParts ==
    Part(log_initialize, {}) /\ Part(detect_cpu, {}) /\ Part(idt_initialize, {}) /\ Part(hcf, {})
<1>1. /\ "print" \in Ops /\ "lidt" \in Ops /\ "ulog_init" \in Ops /\ "hcf" \in Ops
      /\ "subscribe kernel_log" \in Ops /\ "subscribe serial_log" \in Ops
  BY DEF Ops
<1>2. Part(detect_cpu, {}) /\ Part(idt_initialize, {}) /\ Part(hcf, {}) /\ Part(Do("ulog_init"), {})
  BY <1>1, DoPart DEF detect_cpu, idt_initialize, hcf
<1>3. Part(Do("ulog_init") \o Do("subscribe kernel_log"), {})
  BY <1>1, <1>2, Silent
<1>4. Part(log_initialize, {})
  BY <1>1, <1>3, Silent DEF log_initialize
<1> QED
  BY <1>2, <1>4

LEMMA GdtPart == Part(gdt_initialize, GdtWhats)
  BY SayPair, Ranks, WhatsAre, Zenon DEF gdt_initialize, GdtWhats

LEMMA HhdmPart == Part(hhdm_initialize, HhdmWhats)
<1>1. Part(Say(INFO, "HHDM Set"), {"HHDM Set"})
      /\ Part(Say(CRITICAL, "HHDM Request Failed"), {"HHDM Request Failed"})
  BY SayPart, Ranks, WhatsAre, Zenon
<1>2. {"HHDM Set"} \subseteq HhdmWhats /\ {"HHDM Request Failed"} \subseteq HhdmWhats
  BY DEF HhdmWhats
<1> QED
  BY <1>1, <1>2, WiderPart DEF hhdm_initialize

LEMMA PmmPart == Part(pmm_initialize, PmmWhats)
<1>1. "print" \in Ops /\ "hcf" \in Ops
  BY DEF Ops
<1> DEFINE sizes == Say(INFO, "Total usable memory") \o Say(INFO, "Highest usable address")
           stored == Say(DEBUG, "Bitmap stored")
           map_ == print_memmap
           created == Say(DEBUG, "Freeing")
           last == Say(INFO, "Bitmap created")
           failed == Say(CRITICAL, "Could not allocate bitmap") \o hcf
<1>2. Part(sizes, {"Total usable memory", "Highest usable address"})
  BY SayPair, Ranks, WhatsAre, Zenon
<1>3. Part(failed, {"Could not allocate bitmap"})
  BY <1>1, SayPart, Ranks, Silent, WhatsAre, Zenon DEF hcf
<1>4. Part(stored, {"Bitmap stored"}) /\ Part(created, {"Freeing"}) /\ Part(last, {"Bitmap created"})
  BY SayPart, Ranks, WhatsAre, Zenon
<1>5. Part(map_, {"Found memory entries"})
  BY <1>1, SayPart, Ranks, Silent, WhatsAre, Zenon DEF print_memmap
<1>6. pmm_initialize = sizes \o IF machine.room THEN ((stored \o map_) \o created) \o last
                                                ELSE failed
  BY DEF pmm_initialize
<1> HIDE DEF sizes, stored, map_, created, last, failed
<1>7. Part(stored \o map_, {"Bitmap stored"} \cup {"Found memory entries"})
  BY <1>4, <1>5, JoinParts
<1>8. Part((stored \o map_) \o created,
           {"Bitmap stored"} \cup {"Found memory entries"} \cup {"Freeing"})
  BY <1>4, <1>7, JoinParts
<1>9. Part(((stored \o map_) \o created) \o last,
           {"Bitmap stored"} \cup {"Found memory entries"} \cup {"Freeing"} \cup {"Bitmap created"})
  BY <1>4, <1>8, JoinParts
<1> DEFINE rest == {"Could not allocate bitmap", "Bitmap stored", "Found memory entries",
                    "Freeing", "Bitmap created"}
           both == IF machine.room THEN ((stored \o map_) \o created) \o last ELSE failed
<1>10. Part(both, rest)
  <2>1. Part(((stored \o map_) \o created) \o last, rest)
    <3>1. {"Bitmap stored"} \cup {"Found memory entries"} \cup {"Freeing"} \cup {"Bitmap created"}
             \subseteq rest
      OBVIOUS
    <3> HIDE DEF rest
    <3> QED
      BY <1>9, <3>1, WiderPart
  <2>2. Part(failed, rest)
    <3>1. {"Could not allocate bitmap"} \subseteq rest
      OBVIOUS
    <3> HIDE DEF rest
    <3> QED
      BY <1>3, <3>1, WiderPart
  <2> QED
    BY <2>1, <2>2
<1>11. {"Total usable memory", "Highest usable address"} \cap rest = {}
  OBVIOUS
<1>12. {"Total usable memory", "Highest usable address"} \cup rest = PmmWhats
  BY DEF PmmWhats
<1>13. pmm_initialize = sizes \o both
  BY <1>6
<1> HIDE DEF rest, both
<1>14. Part(sizes \o both, {"Total usable memory", "Highest usable address"} \cup rest)
  BY <1>2, <1>10, <1>11, JoinParts
<1> QED
  BY <1>12, <1>13, <1>14

\* kernel_main logs no message twice.
LEMMA MainPart == \E whats : Part(kernel_main, whats)
<1>1. Part(hcf, {})
  BY SilentParts
<1> DEFINE p1 == serial_initialize \o terminal_initialize
           w1 == SerialWhats \cup TerminalWhats
           p2 == p1 \o log_initialize \o detect_cpu
           p3 == p2 \o gdt_initialize
           w3 == w1 \cup GdtWhats
           p4 == p3 \o idt_initialize
           p5 == p4 \o hhdm_initialize
           w5 == w3 \cup HhdmWhats
           p6 == p5 \o pmm_initialize
           w6 == w5 \cup PmmWhats
<1>2. SerialWhats \cap TerminalWhats = {}
  BY DEF SerialWhats, TerminalWhats
<1>3. w1 \cap GdtWhats = {}
  BY DEF SerialWhats, TerminalWhats, GdtWhats
<1>4. w3 \cap HhdmWhats = {}
  BY DEF SerialWhats, TerminalWhats, GdtWhats, HhdmWhats
<1>5. w5 \cap PmmWhats = {}
  BY DEF SerialWhats, TerminalWhats, GdtWhats, HhdmWhats, PmmWhats
<1>6. Part(p1, w1)
  BY <1>2, SerialPart, TerminalPart, JoinParts
<1>7. Part(p2, w1)
  <2> HIDE DEF p1, w1
  <2>1. w1 \cap {} = {} /\ w1 \cup {} = w1
    OBVIOUS
  <2>2. Part(p1 \o log_initialize, w1 \cup {})
    BY <1>6, <2>1, SilentParts, JoinParts
  <2>3. Part((p1 \o log_initialize) \o detect_cpu, w1 \cup {})
    BY <2>1, <2>2, SilentParts, JoinParts
  <2> QED
    BY <2>1, <2>3
<1>8. Part(p3, w3)
  <2> HIDE DEF p2, w1
  <2> QED
    BY <1>3, <1>7, GdtPart, JoinParts
<1>9. Part(p4, w3)
  <2> HIDE DEF p3, w3
  <2>1. w3 \cap {} = {} /\ w3 \cup {} = w3
    OBVIOUS
  <2>2. Part(p3 \o idt_initialize, w3 \cup {})
    BY <1>8, <2>1, SilentParts, JoinParts
  <2> QED
    BY <2>1, <2>2
<1>10. Part(p5, w5)
  <2> HIDE DEF p4, w3
  <2> QED
    BY <1>4, <1>9, HhdmPart, JoinParts
<1>11. Part(p6, w6)
  <2> HIDE DEF p5, w5
  <2> QED
    BY <1>5, <1>10, PmmPart, JoinParts
<1>12. Part(p6 \o hcf, w6)
  <2> HIDE DEF p6, w6
  <2>1. w6 \cap {} = {} /\ w6 \cup {} = w6
    OBVIOUS
  <2>2. Part(p6 \o hcf, w6 \cup {})
    BY <1>1, <1>11, <2>1, JoinParts
  <2> QED
    BY <2>1, <2>2
<1>13. kernel_main = IF machine.revision THEN p6 \o hcf ELSE hcf
  BY DEF kernel_main
<1> HIDE DEF p6, w6
<1> QED
  BY <1>1, <1>12, <1>13

\* kernel_main ends in hcf.
LEMMA MainEnds ==
    /\ kernel_main \in Seq(Effects) /\ Len(kernel_main) \in Nat \ {0}
    /\ kernel_main[Len(kernel_main)].op = "hcf"
<1>1. kernel_main \in Seq(Effects) /\ Len(kernel_main) >= 1
  BY MainPart DEF Part
<1> DEFINE e == [op |-> "hcf"]
<1>2. hcf = <<e>> /\ e.op = "hcf" /\ e \in Effects
  BY DEF hcf, Do, Effects, Others, Ops
<1> DEFINE p == serial_initialize \o terminal_initialize \o log_initialize
                   \o detect_cpu \o gdt_initialize \o idt_initialize
                   \o hhdm_initialize \o pmm_initialize
<1>3. kernel_main = IF machine.revision THEN p \o hcf ELSE hcf
  BY DEF kernel_main
<1>4. p \in Seq(Effects)
  BY SerialPart, TerminalPart, SilentParts, GdtPart, HhdmPart, PmmPart DEF Part
<1> HIDE DEF p, e
<1>5. (p \o <<e>>)[Len(p \o <<e>>)] = e /\ <<e>>[Len(<<e>>)] = e
  BY <1>2, <1>4
<1> QED
  BY <1>1, <1>2, <1>3, <1>5

\* While the machine stays the same, so does what kernel_main does.
LEMMA MainSame ==
    ASSUME machine' = machine
    PROVE  kernel_main' = kernel_main
  BY DEF kernel_main, serial_initialize, terminal_initialize, log_initialize, detect_cpu,
         gdt_initialize, idt_initialize, hhdm_initialize, pmm_initialize, print_memmap, hcf

-----------------------------------------------------------------------------
(***************************************************************************)
(* The messages of an exception.                                           *)
(***************************************************************************)
ReportNames == {Name(v) : v \in Nat}
Once(s) == \A k, l \in 1 .. Len(s) : k # l => s[k] # s[l]

LEMMA NamesDiffer == Name(12) # Name(13) /\ Name(20) # Name(21)
  BY DEF Name, Names

LEMMA ReportsOnce ==
    ASSUME NEW v \in Nat
    PROVE  Reports(v) \in Seq(ReportNames) /\ Once(Reports(v))
<1>1. Name(v) \in ReportNames /\ Name(v + 1) \in ReportNames
  BY DEF ReportNames
<1>2. CASE v \in FallsThrough
  <2> DEFINE a == Name(v)  b == Name(v + 1)
  <2>1. v = 12 \/ v = 20
    BY <1>2 DEF FallsThrough
  <2>2. a # b
    <3>1. 12 + 1 = 13 /\ 20 + 1 = 21
      OBVIOUS
    <3> QED
      BY <2>1, <3>1, NamesDiffer
  <2>3. Reports(v) = <<a, b>>
    BY <1>2 DEF Reports
  <2>4. a \in ReportNames /\ b \in ReportNames
    BY <1>1
  <2> HIDE DEF a, b
  <2>5. <<a, b>> \in Seq(ReportNames) /\ Len(<<a, b>>) = 2 /\ <<a, b>>[1] = a /\ <<a, b>>[2] = b
    BY <2>4
  <2>6. Once(<<a, b>>)
    BY <2>2, <2>5 DEF Once
  <2> QED
    BY <2>3, <2>5, <2>6
<1>3. CASE v \notin FallsThrough
  <2> DEFINE a == Name(v)
  <2>1. Reports(v) = <<a>> /\ a \in ReportNames
    BY <1>1, <1>3 DEF Reports
  <2> HIDE DEF a
  <2>2. <<a>> \in Seq(ReportNames) /\ Len(<<a>>) = 1
    BY <2>1
  <2> QED
    BY <2>1, <2>2 DEF Once
<1> QED
  BY <1>2, <1>3

LEMMA TailOnce ==
    ASSUME NEW S, NEW s \in Seq(S), s # << >>, Once(s)
    PROVE  /\ Tail(s) \in Seq(S) /\ Once(Tail(s)) /\ Head(s) \in S
           /\ \A k \in 1 .. Len(Tail(s)) : Tail(s)[k] # Head(s) /\ k + 1 \in 1 .. Len(s)
                                           /\ Tail(s)[k] = s[k + 1]
           /\ 1 \in 1 .. Len(s) /\ Head(s) = s[1]
<1>1. Len(s) \in Nat /\ Len(s) >= 1
  BY EmptySeq
<1>2. Tail(s) \in Seq(S) /\ Len(Tail(s)) = Len(s) - 1 /\ Head(s) = s[1] /\ Head(s) \in S
      /\ \A k \in 1 .. Len(Tail(s)) : Tail(s)[k] = s[k + 1]
  BY <1>1
<1>3. \A k \in 1 .. Len(Tail(s)) : k + 1 \in 1 .. Len(s) /\ k + 1 # 1
  BY <1>1, <1>2
<1>4. 1 \in 1 .. Len(s)
  BY <1>1
<1>5. Once(Tail(s))
  <2> SUFFICES ASSUME NEW k \in 1 .. Len(Tail(s)), NEW l \in 1 .. Len(Tail(s)), k # l
               PROVE  Tail(s)[k] # Tail(s)[l]
    BY DEF Once
  <2>1. k + 1 # l + 1
    OBVIOUS
  <2> QED
    BY <1>2, <1>3, <2>1 DEF Once
<1> QED
  BY <1>2, <1>3, <1>4, <1>5 DEF Once

-----------------------------------------------------------------------------
(***************************************************************************)
(* The outputs.                                                            *)
(***************************************************************************)
Lines == [who : Nat, what : Whats \cup ReportNames \cup {""}]
Holds(output, line) == \E k \in 1 .. Len(output) : output[k] = line
Past(output, d) ==
    /\ output \in Seq(Lines)
    /\ \A k \in 1 .. Len(output) : output[k].who <= d
    /\ Ordered(output)

\* A line of the innermost thread that the output has not, goes to its end.
LEMMA AddLine ==
    ASSUME NEW output, NEW d \in Nat, NEW line \in Lines,
           Past(output, d), line.who = d, ~Holds(output, line)
    PROVE  /\ Past(Append(output, line), d)
           /\ \A l : l # line /\ ~Holds(output, l) => ~Holds(Append(output, line), l)
<1> DEFINE n == Len(output)  longer == Append(output, line)
<1>1. output \in Seq(Lines) /\ n \in Nat
  BY DEF Past
<1>2. /\ longer \in Seq(Lines) /\ Len(longer) = n + 1 /\ longer[n + 1] = line
      /\ \A k \in 1 .. n : longer[k] = output[k]
      /\ DOMAIN longer = 1 .. n + 1 /\ DOMAIN output = 1 .. n
  BY <1>1
<1> HIDE DEF n, longer
<1>3. \A k \in 1 .. n + 1 : k \in 1 .. n \/ k = n + 1
  BY <1>1
<1>4. \A k \in 1 .. n : output[k].who <= d /\ output[k] # line
  BY DEF Past, Holds, n
<1>5. \A k \in 1 .. n + 1 : longer[k].who <= d
  BY <1>2, <1>3, <1>4
<1>6. ASSUME NEW k \in 1 .. n + 1, NEW l \in 1 .. n + 1, k < l
      PROVE  longer[k] # longer[l] /\ longer[k].who <= longer[l].who
  <2>1. k \in 1 .. n
    BY <1>1, <1>6
  <2>2. CASE l = n + 1
    BY <1>2, <1>4, <2>1, <2>2
  <2>3. CASE l \in 1 .. n
    BY <1>2, <1>6, <2>1, <2>3 DEF Past, Ordered
  <2> QED
    BY <1>3, <2>2, <2>3
<1>7. Past(longer, d)
  BY <1>2, <1>5, <1>6 DEF Past, Ordered
<1>8. \A l : l # line /\ ~Holds(output, l) => ~Holds(longer, l)
  BY <1>2, <1>3 DEF Holds, n
<1> QED
  BY <1>7, <1>8 DEF longer

-----------------------------------------------------------------------------
(***************************************************************************)
(* The invariant.                                                          *)
(***************************************************************************)
N == ULOG_MAX_SUBSCRIBERS
Slots == 0 .. N - 1
Tables == [Slots -> [fn : Fns \cup {"NULL"}, threshold : Nat]]
KFrames == [severity : Severities, i : 0 .. N, fn : Fns \cup {"NULL"}, calls : [Fns -> Int]]
Causes == {"strike", "terminal"}
KHandlers == [vector : 0 .. 31, cause : Causes, base : Nat,
              error_code : {Word(v, "error_code") : v \in 0 .. 31}, reports : Seq(ReportNames)]

Depth == Len(handlers)
Frame == stack[Len(stack)]

TypeInv ==
    /\ machine \in Machines /\ pc \in 1 .. Len(kernel_main)
    /\ idt_loaded \in BOOLEAN /\ is_initialized \in BOOLEAN
    /\ reset \in {"none", "strike", "terminal"}
    /\ s_subscribers \in Tables /\ s_message \in Lines
    /\ stack \in Seq(KFrames) /\ handlers \in Seq(KHandlers)
    /\ Past(serial, Depth) /\ Past(screen, Depth)

\* No function has two slots.
TableInv ==
    \A s1, s2 \in Slots :
       s_subscribers[s1].fn = s_subscribers[s2].fn /\ s1 # s2 => s_subscribers[s1].fn = "NULL"

\* The innermost thread has at most one dispatch under way.
DepthInv ==
    /\ Depth <= MAX_HANDLERS
    /\ Base \in 0 .. Depth
    /\ Len(stack) \in {Base, Base + 1}

\* What the innermost thread has yet to log.
Coming ==
    IF handlers = << >>
    THEN {Text(0, kernel_main[k].what) :
             k \in {k \in 1 .. Len(kernel_main) : k >= pc /\ kernel_main[k].op = "log"}}
    ELSE {Text(Depth, Innermost.reports[k]) : k \in 1 .. Len(Innermost.reports)}

ComingInv ==
    /\ \A line \in Coming : ~Holds(serial, line) /\ ~Holds(screen, line)
    /\ handlers # << >> => Once(Innermost.reports)

\* The dispatch under way has an output's line before it exactly until it has
\* passed the output's slot.
RunningInv ==
    Len(stack) = Base + 1 =>
       /\ s_message.who = Depth
       /\ s_message \notin Coming
       /\ Frame.fn # "NULL" => Frame.i \in Slots /\ s_subscribers[Frame.i].fn = Frame.fn
       /\ \A slot \in Slots :
             Frame.i <= slot =>
                /\ s_subscribers[slot].fn = "serial_log" => ~Holds(serial, s_message)
                /\ s_subscribers[slot].fn = "kernel_log" => ~Holds(screen, s_message)

KInv == TypeInv /\ TableInv /\ DepthInv /\ ComingInv /\ RunningInv

-----------------------------------------------------------------------------
(***************************************************************************)
(* The logger's steps, as far as they matter here.                          *)
(***************************************************************************)
LEMMA SlotsAre == Log!Slots = Slots /\ N \in Nat \ {0}
  BY SlotsAssumption DEF Log!Slots, Slots, N

LEMMA LevelsAre == Severities \subseteq Nat
  BY DEF Severities, DEBUG, INFO, CRITICAL

\* A new dispatch.
LEMMA MessageStep ==
    ASSUME stack \in Seq(KFrames), NEW severity \in Severities, NEW text,
           Log!ulog_message(severity, text)
    PROVE  /\ s_message' = text /\ s_subscribers' = s_subscribers
           /\ stack' \in Seq(KFrames) /\ Len(stack') = Len(stack) + 1
           /\ Frame'.fn = "NULL" /\ Frame'.i = 0 /\ Frame'.severity = severity
<1> DEFINE fr == [severity |-> severity, i |-> 0, fn |-> "NULL", calls |-> [f \in Fns |-> 0]]
<1>1. s_message' = text /\ s_subscribers' = s_subscribers /\ stack' = Append(stack, fr)
  BY DEF Log!ulog_message, Log!Frame, Fns
<1>2. 0 \in 0 .. N
  BY SlotsAre
<1>3. fr \in KFrames /\ fr.fn = "NULL" /\ fr.i = 0 /\ fr.severity = severity
  BY <1>2 DEF KFrames
<1> HIDE DEF fr
<1>4. /\ Append(stack, fr) \in Seq(KFrames) /\ Len(Append(stack, fr)) = Len(stack) + 1
      /\ Append(stack, fr)[Len(stack) + 1] = fr
  BY <1>3
<1> QED
  BY <1>1, <1>3, <1>4 DEF Frame

\* The innermost dispatch has another frame.
LEMMA FrameStep ==
    ASSUME stack \in Seq(KFrames), Len(stack) >= 1, NEW fr \in KFrames,
           stack' = [stack EXCEPT ![Len(stack)] = fr]
    PROVE  stack' \in Seq(KFrames) /\ Len(stack') = Len(stack) /\ Frame' = fr
<1>1. Len(stack) \in Nat /\ Len(stack) \in 1 .. Len(stack) /\ DOMAIN stack = 1 .. Len(stack)
  OBVIOUS
<1>2. stack' \in Seq(KFrames) /\ Len(stack') = Len(stack)
  BY <1>1
<1>3. stack'[Len(stack)] = fr
  BY <1>1
<1> QED
  BY <1>2, <1>3 DEF Frame

LEMMA FrameTyped ==
    ASSUME stack \in Seq(KFrames), Len(stack) >= 1
    PROVE  /\ Frame \in KFrames
           /\ Frame.severity \in Severities /\ Frame.i \in 0 .. N
           /\ Frame.fn \in Fns \cup {"NULL"} /\ Frame.calls \in [Fns -> Int]
           /\ Frame.i \in Nat /\ Frame.i <= N
           /\ Frame = Log!Top /\ stack # << >>
<1>1. Len(stack) \in 1 .. Len(stack)
  OBVIOUS
<1>2. Frame \in KFrames
  BY <1>1 DEF Frame
<1>3. stack # << >>
  BY EmptySeq
<1> QED
  BY <1>2, <1>3, SlotsAre DEF KFrames, Frame, Log!Top

\* A turn of the loop calls the slot's subscriber, goes on to the next slot, or
\* ends the dispatch behind the last one.
LEMMA LoopCases ==
    ASSUME stack \in Seq(KFrames), s_subscribers \in Tables, Len(stack) >= 1, Log!Loop
    PROVE  /\ s_message' = s_message /\ s_subscribers' = s_subscribers
           /\ stack' \in Seq(KFrames)
           /\ \/ Frame.i = N /\ Len(stack') = Len(stack) - 1
              \/ /\ Len(stack') = Len(stack) /\ Frame'.severity = Frame.severity
                 /\ Frame.i \in Slots
                 /\ \/ /\ Frame'.i = Frame.i /\ Frame'.fn = s_subscribers[Frame.i].fn
                       /\ Frame.severity >= s_subscribers[Frame.i].threshold
                    \/ /\ Frame'.i = Frame.i + 1 /\ Frame'.fn = "NULL"
                       /\ \/ s_subscribers[Frame.i].fn = "NULL"
                          \/ ~ (Frame.severity >= s_subscribers[Frame.i].threshold)
<1>1. /\ Frame \in KFrames /\ Frame = Log!Top
      /\ Frame.severity \in Severities /\ Frame.i \in 0 .. N /\ Frame.i \in Nat
      /\ Frame.fn \in Fns \cup {"NULL"} /\ Frame.calls \in [Fns -> Int]
  BY FrameTyped
<1>2. CASE Log!CallSubscriber
  <2> DEFINE fn == s_subscribers[Frame.i].fn
             calls == [f \in Fns |->
                          IF f = fn /\ Frame.calls[f] # Log!Touched
                          THEN Frame.calls[f] + 1 ELSE Frame.calls[f]]
             fr == [Frame EXCEPT !.fn = fn, !.calls = calls]
  <2>1. Frame.i < N /\ stack' = [stack EXCEPT ![Len(stack)] = fr]
        /\ s_message' = s_message /\ s_subscribers' = s_subscribers
        /\ Frame.severity >= s_subscribers[Frame.i].threshold
    BY <1>1, <1>2 DEF Log!CallSubscriber, Log!AtSlot, Log!Wants, Log!Replace, Fns, N
  <2>2. Frame.i \in Slots
    BY <1>1, <2>1, SlotsAre DEF Slots
  <2>3. fn \in Fns \cup {"NULL"}
    BY <2>2 DEF Tables
  <2>4. calls \in [Fns -> Int]
    <3> HIDE DEF fn
    <3>1. \A f \in Fns : Frame.calls[f] \in Int
      BY <1>1
    <3> QED
      BY <3>1
  <2> HIDE DEF fn, calls
  <2>5. fr \in KFrames /\ fr.i = Frame.i /\ fr.fn = fn /\ fr.severity = Frame.severity
    BY <1>1, <2>3, <2>4 DEF KFrames
  <2> HIDE DEF fr
  <2>6. stack' \in Seq(KFrames) /\ Len(stack') = Len(stack) /\ Frame' = fr
    BY <2>1, <2>5, FrameStep
  <2>7. Frame'.i = Frame.i /\ Frame'.fn = s_subscribers[Frame.i].fn
        /\ Frame'.severity = Frame.severity
    BY <2>5, <2>6 DEF fn
  <2> QED
    BY <2>1, <2>2, <2>6, <2>7
<1>3. CASE Log!SkipSlot
  <2> DEFINE fr == [Frame EXCEPT !.i = Frame.i + 1]
  <2>1. /\ Frame.i < N /\ Frame.fn = "NULL" /\ stack' = [stack EXCEPT ![Len(stack)] = fr]
        /\ s_message' = s_message /\ s_subscribers' = s_subscribers
        /\ \/ s_subscribers[Frame.i].fn = "NULL"
           \/ ~ (Frame.severity >= s_subscribers[Frame.i].threshold)
    BY <1>1, <1>3 DEF Log!SkipSlot, Log!AtSlot, Log!InLoop, Log!Wants, Log!Replace, N
  <2>2. Frame.i + 1 \in 0 .. N /\ Frame.i \in Slots
    BY <1>1, <2>1, SlotsAre DEF Slots
  <2>3. fr \in KFrames /\ fr.i = Frame.i + 1 /\ fr.fn = "NULL" /\ fr.severity = Frame.severity
    BY <1>1, <2>1, <2>2 DEF KFrames
  <2> HIDE DEF fr
  <2>4. stack' \in Seq(KFrames) /\ Len(stack') = Len(stack) /\ Frame' = fr
    BY <2>1, <2>3, FrameStep
  <2> QED
    BY <2>1, <2>2, <2>3, <2>4
<1>4. CASE Log!MessageDone
  <2>1. stack' = SubSeq(stack, 1, Len(stack) - 1) /\ Frame.i = N
        /\ s_message' = s_message /\ s_subscribers' = s_subscribers
    BY <1>1, <1>4 DEF Log!MessageDone, N
  <2>2. Len(stack) \in Nat /\ Len(stack) - 1 \in Int
        /\ \A d \in 1 .. Len(stack) - 1 : stack[d] \in KFrames
    OBVIOUS
  <2>3. /\ stack' \in Seq(KFrames)
        /\ Len(stack') = IF 1 <= Len(stack) - 1 THEN Len(stack) - 1 - 1 + 1 ELSE 0
    BY <2>1, <2>2, SubSeqProperties
  <2>4. Len(stack') = Len(stack) - 1
    <3> DEFINE l == Len(stack)  m == Len(stack')
    <3>1. l \in Nat /\ l >= 1 /\ m = IF 1 <= l - 1 THEN l - 1 - 1 + 1 ELSE 0
      BY <2>2, <2>3
    <3> HIDE DEF l, m
    <3>2. m = l - 1
      BY <3>1
    <3> QED
      BY <3>2 DEF l, m
  <2> QED
    BY <2>1, <2>3, <2>4
<1> QED
  BY <1>2, <1>3, <1>4 DEF Log!Loop

\* In particular, it leaves the slot it is at and does not go back.
LEMMA LoopStep ==
    ASSUME stack \in Seq(KFrames), s_subscribers \in Tables, Len(stack) >= 1, Log!Loop
    PROVE  /\ s_message' = s_message /\ s_subscribers' = s_subscribers
           /\ stack' \in Seq(KFrames)
           /\ \/ Len(stack') = Len(stack) - 1
              \/ /\ Len(stack') = Len(stack)
                 /\ Frame'.i \in Nat /\ Frame.i <= Frame'.i
                 /\ Frame'.fn # "NULL" =>
                       Frame'.i \in Slots /\ s_subscribers[Frame'.i].fn = Frame'.fn
<1>1. Frame.i \in Nat
  BY FrameTyped
<1> QED
  BY <1>1, LoopCases

\* A subscriber returns to the loop, which goes on behind its slot.
LEMMA ReturnStep ==
    ASSUME stack \in Seq(KFrames), Len(stack) >= 1, Frame.i \in Slots, Log!SubscriberReturns
    PROVE  /\ s_message' = s_message /\ s_subscribers' = s_subscribers
           /\ stack' \in Seq(KFrames) /\ Len(stack') = Len(stack)
           /\ Frame'.i = Frame.i + 1 /\ Frame'.fn = "NULL" /\ Frame'.severity = Frame.severity
<1>1. /\ Frame \in KFrames /\ Frame = Log!Top
      /\ Frame.severity \in Severities /\ Frame.calls \in [Fns -> Int]
  BY FrameTyped
<1> DEFINE fr == [Frame EXCEPT !.fn = "NULL", !.i = Frame.i + 1]
<1>2. stack' = [stack EXCEPT ![Len(stack)] = fr]
      /\ s_message' = s_message /\ s_subscribers' = s_subscribers
  BY <1>1 DEF Log!SubscriberReturns, Log!Replace
<1>3. Frame.i + 1 \in 0 .. N
  BY SlotsAre DEF Slots
<1>4. fr \in KFrames /\ fr.i = Frame.i + 1 /\ fr.fn = "NULL" /\ fr.severity = Frame.severity
  BY <1>1, <1>3 DEF KFrames
<1> HIDE DEF fr
<1>5. stack' \in Seq(KFrames) /\ Len(stack') = Len(stack) /\ Frame' = fr
  BY <1>2, <1>4, FrameStep
<1> QED
  BY <1>2, <1>4, <1>5

-----------------------------------------------------------------------------
(***************************************************************************)
(* The steps of kernel_main.                                               *)
(***************************************************************************)
\* A thread that stays the innermost one.
LEMMA SameThread ==
    ASSUME handlers' = handlers
    PROVE  Depth' = Depth /\ Base' = Base /\ Innermost' = Innermost
  BY DEF Depth, Base, Innermost

LEMMA SameComing ==
    ASSUME handlers' = handlers, machine' = machine, pc' = pc
    PROVE  Coming' = Coming
<1>1. kernel_main' = kernel_main
  BY MainSame
<1> QED
  BY <1>1, SameThread DEF Coming

\* kernel_main at an effect.
LEMMA BootFacts ==
    ASSUME KInv, InBoot, Effect.op # "hcf", pc' = pc + 1, machine' = machine, handlers' = handlers
    PROVE  /\ handlers = << >> /\ Base = 0 /\ Depth = 0 /\ Len(stack) = 0
           /\ Base' = 0 /\ Depth' = 0
           /\ kernel_main' = kernel_main /\ pc' \in 1 .. Len(kernel_main')
           /\ Coming' \subseteq Coming
           /\ Effect \in Effects
<1>1. handlers = << >> /\ stack = << >>
  BY DEF InBoot
<1>2. Base = 0 /\ Depth = 0 /\ Len(stack) = 0
  BY <1>1, EmptySeq DEF Base, Depth
<1>3. kernel_main' = kernel_main
  BY MainSame
<1>4. pc \in 1 .. Len(kernel_main) /\ Len(kernel_main) \in Nat /\ pc # Len(kernel_main)
  BY MainEnds DEF KInv, TypeInv, Effect
<1>5. pc + 1 \in 1 .. Len(kernel_main) /\ pc \in Nat
  BY <1>4
<1>6. Coming' \subseteq Coming
  <2>1. \A k \in 1 .. Len(kernel_main) : k >= pc + 1 => k >= pc
    BY <1>5
  <2> QED
    BY <1>1, <1>3, <2>1 DEF Coming
<1>7. Effect \in Effects
  BY <1>4, MainEnds DEF Effect
<1> QED
  BY <1>1, <1>2, <1>3, <1>5, <1>6, <1>7, SameThread

\* An effect that logs nothing.
LEMMA SilentStep ==
    ASSUME KInv, InBoot, Effect.op # "hcf", pc' = pc + 1, machine' = machine, handlers' = handlers,
           stack' \in Seq(KFrames), Len(stack') = 0,
           s_message' = s_message, serial' = serial, screen' = screen, reset' = reset,
           idt_loaded' \in BOOLEAN, is_initialized' \in BOOLEAN,
           s_subscribers' \in Tables, TableInv'
    PROVE  KInv'
<1>1. /\ Base' = 0 /\ Depth' = 0 /\ Depth = 0 /\ Len(stack') = 0
      /\ pc' \in 1 .. Len(kernel_main') /\ Coming' \subseteq Coming /\ handlers = << >>
  BY BootFacts
<1>2. TypeInv'
  BY <1>1 DEF KInv, TypeInv
<1>3. DepthInv'
  BY <1>1 DEF KInv, DepthInv
<1>4. ComingInv'
  BY <1>1 DEF KInv, ComingInv
<1>5. RunningInv'
  BY <1>1 DEF RunningInv
<1> QED
  BY <1>2, <1>3, <1>4, <1>5 DEF KInv

LEMMA SameTable ==
    ASSUME s_subscribers' = s_subscribers, TableInv
    PROVE  TableInv'
  BY DEF TableInv

LEMMA BootLogsStep == KInv /\ BootLogs => KInv'
<1> SUFFICES ASSUME KInv, BootLogs
             PROVE  KInv'
  OBVIOUS
<1>1. /\ InBoot /\ Effect.op = "log" /\ pc' = pc + 1
      /\ Log!ulog_message(Effect.severity, Text(0, Effect.what))
      /\ machine' = machine /\ idt_loaded' = idt_loaded /\ is_initialized' = is_initialized
      /\ handlers' = handlers /\ serial' = serial /\ screen' = screen /\ reset' = reset
  BY DEF BootLogs, Step
<1>2. /\ handlers = << >> /\ Base' = 0 /\ Depth' = 0 /\ Depth = 0 /\ Len(stack) = 0
      /\ kernel_main' = kernel_main /\ pc' \in 1 .. Len(kernel_main') /\ Coming' \subseteq Coming
      /\ Effect \in Effects
  BY <1>1, BootFacts
<1>3. Effect.severity \in Severities /\ Effect.what \in Whats
  BY <1>1, <1>2, EffectFields
<1> DEFINE line == Text(0, Effect.what)
<1>4. line \in Lines /\ line.who = 0 /\ line.what = Effect.what
  BY <1>3 DEF Text, Lines
<1>5. /\ s_message' = line /\ s_subscribers' = s_subscribers
      /\ stack' \in Seq(KFrames) /\ Len(stack') = Len(stack) + 1 /\ Frame'.fn = "NULL"
  BY <1>1, <1>3, MessageStep DEF KInv, TypeInv
<1>6. pc \in 1 .. Len(kernel_main) /\ pc \in Nat
  BY MainEnds DEF KInv, TypeInv
<1>7. line \in Coming
  BY <1>1, <1>2, <1>6 DEF Coming, Effect
<1>8. line \notin Coming'
  <2> SUFFICES ASSUME line \in Coming'
               PROVE  FALSE
    OBVIOUS
  <2>1. PICK k \in 1 .. Len(kernel_main) :
           k >= pc + 1 /\ kernel_main[k].op = "log" /\ line = Text(0, kernel_main[k].what)
    BY <1>1, <1>2 DEF Coming
  <2>2. kernel_main[k].what = kernel_main[pc].what /\ kernel_main[pc].op = "log"
    BY <1>1, <1>4, <2>1 DEF Text, Effect
  <2>3. k # pc
    BY <1>6, <2>1
  <2>4. PICK whats : Part(kernel_main, whats)
    BY MainPart
  <2> QED
    BY <1>6, <2>1, <2>2, <2>3, <2>4 DEF Part
<1> HIDE DEF line
<1>9. TypeInv'
  BY <1>1, <1>2, <1>4, <1>5 DEF KInv, TypeInv
<1>10. TableInv'
  BY <1>5, SameTable DEF KInv
<1>11. DepthInv'
  BY <1>2, <1>5 DEF KInv, DepthInv
<1>12. ComingInv'
  BY <1>1, <1>2 DEF KInv, ComingInv
<1>13. ~Holds(serial', s_message') /\ ~Holds(screen', s_message')
  BY <1>1, <1>5, <1>7 DEF KInv, ComingInv
<1>14. RunningInv'
  BY <1>2, <1>4, <1>5, <1>8, <1>13 DEF RunningInv
<1> QED
  BY <1>9, <1>10, <1>11, <1>12, <1>14 DEF KInv

\* ulog_subscribe keeps a function in one slot.
LEMMA SubscribeStep ==
    ASSUME s_subscribers \in Tables, TableInv, NEW fn \in Fns, NEW threshold \in Nat,
           Log!ulog_subscribe(fn, threshold)
    PROVE  s_subscribers' \in Tables /\ TableInv'
<1> DEFINE new == [fn |-> fn, threshold |-> threshold]
<1>1. \/ s_subscribers' = s_subscribers
      \/ \E slot \in Slots : /\ s_subscribers' = [s_subscribers EXCEPT ![slot] = new]
                             /\ \A other \in Slots : other # slot => s_subscribers[other].fn # fn
  <2>1. CASE \E slot \in Log!First(Log!KnownSlots(fn)) :
                s_subscribers' = [s_subscribers EXCEPT ![slot] = new]
    <3>1. PICK slot \in Log!First(Log!KnownSlots(fn)) :
             s_subscribers' = [s_subscribers EXCEPT ![slot] = new]
      BY <2>1
    <3>2. slot \in Slots /\ s_subscribers[slot].fn = fn
      BY <3>1, SlotsAre DEF Log!First, Log!KnownSlots, Log!SlotsOf
    <3>3. fn # "NULL"
      BY DEF Fns
    <3>4. \A other \in Slots : other # slot => s_subscribers[other].fn # fn
      BY <3>2, <3>3 DEF TableInv
    <3> QED
      BY <3>1, <3>2, <3>4
  <2>2. CASE Log!KnownSlots(fn) = {} /\ \E slot \in Log!Last(Log!Available) :
                s_subscribers' = [s_subscribers EXCEPT ![slot] = new]
    <3>1. PICK slot \in Log!Last(Log!Available) :
             s_subscribers' = [s_subscribers EXCEPT ![slot] = new]
      BY <2>2
    <3>2. slot \in Slots
      BY <3>1, SlotsAre DEF Log!Last, Log!Available, Log!SlotsOf
    <3>3. \A other \in Slots : s_subscribers[other].fn # fn
      BY <2>2, SlotsAre DEF Log!KnownSlots, Log!SlotsOf
    <3> QED
      BY <3>1, <3>2, <3>3
  <2> QED
    BY <2>1, <2>2 DEF Log!ulog_subscribe
<1>2. new \in [fn : Fns \cup {"NULL"}, threshold : Nat] /\ new.fn = fn
  OBVIOUS
<1> HIDE DEF new
<1>3. CASE s_subscribers' = s_subscribers
  BY <1>3 DEF TableInv
<1>4. ASSUME NEW slot \in Slots, s_subscribers' = [s_subscribers EXCEPT ![slot] = new],
             \A other \in Slots : other # slot => s_subscribers[other].fn # fn
      PROVE  s_subscribers' \in Tables /\ TableInv'
  <2>1. s_subscribers' \in Tables
    BY <1>2, <1>4 DEF Tables
  <2>2. /\ s_subscribers'[slot].fn = fn
        /\ \A other \in Slots : other # slot => s_subscribers'[other] = s_subscribers[other]
    BY <1>2, <1>4 DEF Tables
  <2>3. ASSUME NEW s1 \in Slots, NEW s2 \in Slots,
               s_subscribers'[s1].fn = s_subscribers'[s2].fn, s1 # s2
        PROVE  s_subscribers'[s1].fn = "NULL"
    <3>1. s1 # slot /\ s2 # slot
      BY <1>4, <2>2, <2>3
    <3> QED
      BY <2>2, <2>3, <3>1 DEF TableInv
  <2> QED
    BY <2>1, <2>3 DEF TableInv
<1> QED
  BY <1>1, <1>3, <1>4

LEMMA EmptyStep ==
    ASSUME s_subscribers' = Log!EmptyTable
    PROVE  s_subscribers' \in Tables /\ TableInv'
<1>1. s_subscribers' = [slot \in Slots |-> [fn |-> "NULL", threshold |-> 0]]
  BY SlotsAre DEF Log!EmptyTable
<1> QED
  BY <1>1 DEF Tables, TableInv

LEMMA BootUsesUlogStep == KInv /\ BootUsesUlog => KInv'
<1> SUFFICES ASSUME KInv, BootUsesUlog
             PROVE  KInv'
  OBVIOUS
<1>1. /\ InBoot /\ Effect.op # "hcf" /\ pc' = pc + 1
      /\ \/ Log!ulog_init
         \/ Log!ulog_subscribe("kernel_log", INFO)
         \/ Log!ulog_subscribe("serial_log", DEBUG)
      /\ machine' = machine /\ idt_loaded' = idt_loaded /\ is_initialized' = is_initialized
      /\ handlers' = handlers /\ serial' = serial /\ screen' = screen /\ reset' = reset
  BY DEF BootUsesUlog, Step
<1>2. s_message' = s_message
  BY <1>1 DEF Log!ulog_init, Log!ulog_subscribe
<1>3. stack = << >>
  BY <1>1 DEF InBoot
<1>4. stack' = [d \in DOMAIN stack |-> stack'[d]] /\ DOMAIN stack' = DOMAIN stack
  BY <1>1 DEF Log!ulog_init, Log!ulog_subscribe, Log!Touch
<1>5. stack' \in Seq(KFrames) /\ Len(stack') = 0
  BY <1>3, <1>4
<1>6. INFO \in Nat /\ DEBUG \in Nat /\ "kernel_log" \in Fns /\ "serial_log" \in Fns
  BY DEF INFO, DEBUG, Fns
<1>7. s_subscribers' \in Tables /\ TableInv'
  <2>1. s_subscribers \in Tables /\ TableInv
    BY DEF KInv, TypeInv
  <2>2. CASE Log!ulog_init
    BY <2>2, EmptyStep DEF Log!ulog_init
  <2>3. CASE Log!ulog_subscribe("kernel_log", INFO)
    BY <1>6, <2>1, <2>3, SubscribeStep
  <2>4. CASE Log!ulog_subscribe("serial_log", DEBUG)
    BY <1>6, <2>1, <2>4, SubscribeStep
  <2> QED
    BY <1>1, <2>2, <2>3, <2>4
<1>8. idt_loaded' \in BOOLEAN /\ is_initialized' \in BOOLEAN
  BY <1>1, Zenon DEF KInv, TypeInv
<1> QED
  BY <1>1, <1>2, <1>5, <1>7, <1>8, SilentStep

LEMMA BootQuietStep ==
    KInv /\ (BootPrints \/ BootOpensSerial \/ BootLoadsIdt) => KInv'
<1> SUFFICES ASSUME KInv, BootPrints \/ BootOpensSerial \/ BootLoadsIdt
             PROVE  KInv'
  OBVIOUS
<1>1. /\ InBoot /\ Effect.op # "hcf" /\ pc' = pc + 1
      /\ s_subscribers' = s_subscribers /\ s_message' = s_message /\ stack' = stack
      /\ machine' = machine
      /\ handlers' = handlers /\ serial' = serial /\ screen' = screen /\ reset' = reset
  BY DEF BootPrints, BootOpensSerial, BootLoadsIdt, Step, ulog
<1>2. idt_loaded' \in BOOLEAN /\ is_initialized' \in BOOLEAN
  <2>1. idt_loaded \in BOOLEAN /\ is_initialized \in BOOLEAN
    BY DEF KInv, TypeInv
  <2>2. /\ idt_loaded' = idt_loaded \/ idt_loaded' = TRUE
        /\ is_initialized' = is_initialized \/ is_initialized' = TRUE
    BY Zenon DEF BootPrints, BootOpensSerial, BootLoadsIdt
  <2> QED
    BY <2>1, <2>2, Zenon
<1>3. stack' \in Seq(KFrames) /\ s_subscribers' \in Tables
  BY <1>1 DEF KInv, TypeInv
<1>4. Len(stack') = 0
  BY <1>1, EmptySeq DEF InBoot
<1>5. TableInv'
  BY <1>1, SameTable DEF KInv
<1> QED
  BY <1>1, <1>2, <1>3, <1>4, <1>5, SilentStep

-----------------------------------------------------------------------------
(***************************************************************************)
(* The steps of a dispatch.                                                *)
(***************************************************************************)
LEMMA DispatchStep == KInv /\ Dispatch => KInv'
<1> SUFFICES ASSUME KInv, Dispatch
             PROVE  KInv'
  OBVIOUS
<1>1. /\ Len(stack) > Base /\ Log!Loop
      /\ machine' = machine /\ pc' = pc /\ idt_loaded' = idt_loaded
      /\ is_initialized' = is_initialized
      /\ handlers' = handlers /\ serial' = serial /\ screen' = screen /\ reset' = reset
  BY DEF Dispatch, InDispatch, boot
<1>2. /\ Base \in Nat /\ Len(stack) = Base + 1 /\ Len(stack) >= 1
      /\ Depth \in Nat /\ stack \in Seq(KFrames) /\ s_subscribers \in Tables
  BY <1>1 DEF KInv, DepthInv, TypeInv, Depth
<1>3. Depth' = Depth /\ Base' = Base /\ Innermost' = Innermost /\ Coming' = Coming
      /\ kernel_main' = kernel_main
  BY <1>1, SameThread, SameComing, MainSame
<1>4. /\ s_message' = s_message /\ s_subscribers' = s_subscribers /\ stack' \in Seq(KFrames)
      /\ \/ Len(stack') = Len(stack) - 1
         \/ /\ Len(stack') = Len(stack)
            /\ Frame'.i \in Nat /\ Frame.i <= Frame'.i
            /\ Frame'.fn # "NULL" =>
                  Frame'.i \in Slots /\ s_subscribers[Frame'.i].fn = Frame'.fn
  BY <1>1, <1>2, LoopStep
<1>5. TypeInv'
  BY <1>1, <1>3, <1>4 DEF KInv, TypeInv
<1>6. TableInv'
  BY <1>4, SameTable DEF KInv
<1>7. DepthInv'
  BY <1>2, <1>3, <1>4 DEF KInv, DepthInv
<1>8. ComingInv'
  BY <1>1, <1>3 DEF KInv, ComingInv
<1>9. RunningInv'
  <2>1. CASE Len(stack') = Len(stack) - 1
    BY <1>2, <1>3, <2>1 DEF RunningInv
  <2>2. CASE Len(stack') # Len(stack) - 1
    <3>1. /\ Frame'.i \in Nat /\ Frame.i <= Frame'.i /\ Frame.i \in Nat
          /\ Frame'.fn # "NULL" =>
                Frame'.i \in Slots /\ s_subscribers[Frame'.i].fn = Frame'.fn
      BY <1>2, <1>4, <2>2, FrameTyped
    <3>2. /\ s_message.who = Depth /\ s_message \notin Coming
          /\ \A slot \in Slots :
                Frame.i <= slot =>
                   /\ s_subscribers[slot].fn = "serial_log" => ~Holds(serial, s_message)
                   /\ s_subscribers[slot].fn = "kernel_log" => ~Holds(screen, s_message)
      BY <1>2 DEF KInv, RunningInv
    <3>3. \A slot \in Slots : Frame'.i <= slot => Frame.i <= slot
      BY <3>1, SlotsAre DEF Slots
    <3> QED
      BY <1>1, <1>3, <1>4, <3>1, <3>2, <3>3 DEF RunningInv
  <2> QED
    BY <2>1, <2>2
<1> QED
  BY <1>5, <1>6, <1>7, <1>8, <1>9 DEF KInv

\* Where a subscriber is when it is called.
LEMMA InSubscriber ==
    ASSUME KInv, NEW fn \in Fns, In(fn)
    PROVE  /\ Len(stack) = Base + 1 /\ Len(stack) >= 1 /\ Base \in Nat /\ Depth \in Nat
           /\ stack \in Seq(KFrames)
           /\ Frame.i \in Slots /\ s_subscribers[Frame.i].fn = fn
           /\ s_message.who = Depth /\ s_message \notin Coming /\ s_message \in Lines
<1>1. Len(stack) > Base /\ Log!Top.fn = fn
  BY DEF In, InDispatch
<1>2. /\ Base \in Nat /\ Len(stack) = Base + 1 /\ Len(stack) >= 1 /\ Depth \in Nat
      /\ stack \in Seq(KFrames) /\ s_message \in Lines
  BY <1>1 DEF KInv, DepthInv, TypeInv, Depth
<1>3. Frame.fn = fn /\ fn # "NULL"
  BY <1>1, <1>2, FrameTyped DEF Fns
<1> QED
  BY <1>2, <1>3 DEF KInv, RunningInv

\* What the outputs' new contents must be for the invariant.
LEMMA SubscriberStep ==
    ASSUME KInv, NEW fn \in Fns, In(fn), Log!SubscriberReturns,
           machine' = machine, pc' = pc, idt_loaded' = idt_loaded,
           is_initialized' = is_initialized, handlers' = handlers, reset' = reset,
           Past(serial', Depth), Past(screen', Depth),
           \A line \in Coming : ~Holds(serial', line) /\ ~Holds(screen', line),
           fn # "serial_log" => serial' = serial,
           fn # "kernel_log" => screen' = screen
    PROVE  KInv'
<1>1. /\ Len(stack) = Base + 1 /\ Len(stack) >= 1 /\ Base \in Nat /\ Depth \in Nat
      /\ stack \in Seq(KFrames)
      /\ Frame.i \in Slots /\ s_subscribers[Frame.i].fn = fn
      /\ s_message.who = Depth /\ s_message \notin Coming
  BY InSubscriber
<1>2. /\ s_message' = s_message /\ s_subscribers' = s_subscribers
      /\ stack' \in Seq(KFrames) /\ Len(stack') = Len(stack)
      /\ Frame'.i = Frame.i + 1 /\ Frame'.fn = "NULL"
  BY <1>1, ReturnStep
<1>3. Depth' = Depth /\ Base' = Base /\ Innermost' = Innermost /\ Coming' = Coming
      /\ kernel_main' = kernel_main
  BY SameThread, SameComing, MainSame
<1>4. TypeInv'
  BY <1>2, <1>3 DEF KInv, TypeInv
<1>5. TableInv'
  BY <1>2, SameTable DEF KInv
<1>6. DepthInv'
  BY <1>2, <1>3 DEF KInv, DepthInv
<1>7. ComingInv'
  BY <1>3 DEF KInv, ComingInv
<1>8. ASSUME NEW slot \in Slots, Frame'.i <= slot
      PROVE  /\ s_subscribers[slot].fn = "serial_log" => ~Holds(serial', s_message)
             /\ s_subscribers[slot].fn = "kernel_log" => ~Holds(screen', s_message)
  <2>1. Frame.i <= slot /\ slot # Frame.i
    BY <1>1, <1>2, <1>8, SlotsAre DEF Slots
  <2>2. /\ s_subscribers[slot].fn = "serial_log" => ~Holds(serial, s_message)
        /\ s_subscribers[slot].fn = "kernel_log" => ~Holds(screen, s_message)
    BY <1>1, <2>1 DEF KInv, RunningInv
  <2>3. s_subscribers[slot].fn = fn => fn = "NULL"
    BY <1>1, <2>1 DEF KInv, TableInv
  <2>4. s_subscribers[slot].fn # fn
    BY <2>3 DEF Fns
  <2> QED
    BY <2>2, <2>4
<1>9. RunningInv'
  BY <1>1, <1>2, <1>3, <1>8 DEF RunningInv
<1> QED
  BY <1>4, <1>5, <1>6, <1>7, <1>9 DEF KInv

\* The message is not on the output of the subscriber that is called.
LEMMA NotYet ==
    ASSUME KInv, NEW fn \in Fns, In(fn)
    PROVE  /\ fn = "serial_log" => ~Holds(serial, s_message)
           /\ fn = "kernel_log" => ~Holds(screen, s_message)
<1>1. Len(stack) = Base + 1 /\ Frame.i \in Slots /\ s_subscribers[Frame.i].fn = fn
  BY InSubscriber
<1>2. Frame.i <= Frame.i
  BY <1>1, SlotsAre DEF Slots
<1> QED
  BY <1>1, <1>2 DEF KInv, RunningInv

LEMMA SerialLogStep == KInv /\ serial_log => KInv'
<1> SUFFICES ASSUME KInv, serial_log
             PROVE  KInv'
  OBVIOUS
<1>1. "serial_log" \in Fns
  BY DEF Fns
<1>2. /\ In("serial_log") /\ Log!SubscriberReturns
      /\ serial' = (IF is_initialized THEN Append(serial, s_message) ELSE serial)
      /\ machine' = machine /\ pc' = pc /\ idt_loaded' = idt_loaded
      /\ is_initialized' = is_initialized
      /\ handlers' = handlers /\ screen' = screen /\ reset' = reset
  BY DEF serial_log, boot
<1>3. Depth \in Nat /\ s_message \in Lines /\ s_message.who = Depth /\ s_message \notin Coming
  BY <1>1, <1>2, InSubscriber
<1>4. ~Holds(serial, s_message)
  BY <1>1, <1>2, NotYet
<1>5. Past(serial, Depth) /\ Past(screen, Depth)
  BY DEF KInv, TypeInv
<1>6. \A line \in Coming : ~Holds(serial, line) /\ ~Holds(screen, line)
  BY DEF KInv, ComingInv
<1>7. /\ Past(Append(serial, s_message), Depth)
      /\ \A l : l # s_message /\ ~Holds(serial, l) => ~Holds(Append(serial, s_message), l)
  BY <1>3, <1>4, <1>5, AddLine
<1>8. Past(serial', Depth)
  BY <1>2, <1>5, <1>7
<1>9. \A line \in Coming : ~Holds(serial', line) /\ ~Holds(screen', line)
  BY <1>2, <1>3, <1>6, <1>7
<1>10. Past(screen', Depth)
  BY <1>2, <1>5
<1> QED
  BY <1>1, <1>2, <1>8, <1>9, <1>10, SubscriberStep

LEMMA KernelLogStep == KInv /\ kernel_log => KInv'
<1> SUFFICES ASSUME KInv, kernel_log
             PROVE  KInv'
  OBVIOUS
<1>1. "kernel_log" \in Fns
  BY DEF Fns
<1>2. /\ In("kernel_log") /\ Log!SubscriberReturns
      /\ screen' = Append(screen, s_message)
      /\ machine' = machine /\ pc' = pc /\ idt_loaded' = idt_loaded
      /\ is_initialized' = is_initialized
      /\ handlers' = handlers /\ serial' = serial /\ reset' = reset
  BY DEF kernel_log, boot
<1>3. Depth \in Nat /\ s_message \in Lines /\ s_message.who = Depth /\ s_message \notin Coming
  BY <1>1, <1>2, InSubscriber
<1>4. ~Holds(screen, s_message)
  BY <1>1, <1>2, NotYet
<1>5. Past(serial, Depth) /\ Past(screen, Depth)
  BY DEF KInv, TypeInv
<1>6. \A line \in Coming : ~Holds(serial, line) /\ ~Holds(screen, line)
  BY DEF KInv, ComingInv
<1>7. /\ Past(Append(screen, s_message), Depth)
      /\ \A l : l # s_message /\ ~Holds(screen, l) => ~Holds(Append(screen, s_message), l)
  BY <1>3, <1>4, <1>5, AddLine
<1>8. Past(screen', Depth)
  BY <1>2, <1>7
<1>9. \A line \in Coming : ~Holds(serial', line) /\ ~Holds(screen', line)
  BY <1>2, <1>3, <1>6, <1>7
<1>10. Past(serial', Depth)
  BY <1>2, <1>5
<1> QED
  BY <1>1, <1>2, <1>8, <1>9, <1>10, SubscriberStep

-----------------------------------------------------------------------------
(***************************************************************************)
(* Exceptions.                                                             *)
(***************************************************************************)
LEMMA LaterThread ==
    ASSUME NEW output, NEW d \in Nat, Past(output, d)
    PROVE  /\ Past(output, d + 1)
           /\ \A line : line.who = d + 1 => ~Holds(output, line)
<1>1. \A k \in 1 .. Len(output) : output[k] \in Lines
  BY DEF Past
<1>2. \A k \in 1 .. Len(output) : output[k].who \in Nat
  BY <1>1 DEF Lines
<1>3. \A k \in 1 .. Len(output) : output[k].who <= d + 1 /\ output[k].who # d + 1
  BY <1>2 DEF Past
<1> QED
  BY <1>3 DEF Past, Holds

\* The handler that is entered.
LEMMA EnterStep ==
    ASSUME KInv, NEW vector \in 0 .. 31, NEW cause \in Causes, Raise(vector, cause),
           idt_loaded /\ Len(handlers) < MAX_HANDLERS
    PROVE  KInv'
<1> DEFINE reports == Reports(vector_number(vector))
           h == [vector |-> vector, cause |-> cause, base |-> Len(stack),
                 error_code |-> Word(vector, "error_code"), reports |-> reports]
<1>1. /\ handlers' = Append(handlers, h)
      /\ machine' = machine /\ pc' = pc /\ idt_loaded' = idt_loaded
      /\ is_initialized' = is_initialized
      /\ s_subscribers' = s_subscribers /\ s_message' = s_message /\ stack' = stack
      /\ serial' = serial /\ screen' = screen /\ reset' = reset
  BY DEF Raise, boot, ulog
<1>2. vector_number(vector) \in Nat
  BY DEF vector_number
<1>3. reports \in Seq(ReportNames) /\ Once(reports)
  BY <1>2, ReportsOnce
<1>4. /\ handlers \in Seq(KHandlers) /\ Depth \in Nat /\ stack \in Seq(KFrames)
      /\ Len(stack) \in Nat /\ Base \in 0 .. Depth /\ Len(stack) \in {Base, Base + 1}
      /\ Past(serial, Depth) /\ Past(screen, Depth)
  BY DEF KInv, TypeInv, DepthInv, Depth
<1>5. h \in KHandlers /\ h.base = Len(stack) /\ h.reports = reports
  <2>1. Word(vector, "error_code") \in {Word(v, "error_code") : v \in 0 .. 31}
    OBVIOUS
  <2> HIDE DEF reports
  <2> QED
    BY <1>3, <1>4, <2>1 DEF KHandlers
<1> HIDE DEF h, reports
<1>6. /\ handlers' \in Seq(KHandlers) /\ Len(handlers') = Depth + 1
      /\ handlers'[Depth + 1] = h /\ handlers' # << >>
  BY <1>1, <1>4, <1>5 DEF Depth
<1>7. Depth' = Depth + 1 /\ Innermost' = h /\ Base' = Len(stack)
  BY <1>5, <1>6 DEF Depth, Innermost, Base
<1>8. kernel_main' = kernel_main
  BY <1>1, MainSame
<1>9. /\ Past(serial, Depth + 1) /\ Past(screen, Depth + 1)
      /\ \A line : line.who = Depth + 1 => ~Holds(serial, line) /\ ~Holds(screen, line)
  BY <1>4, LaterThread
<1>10. TypeInv'
  BY <1>1, <1>6, <1>7, <1>8, <1>9 DEF KInv, TypeInv
<1>11. TableInv'
  BY <1>1, SameTable DEF KInv
<1>12. DepthInv'
  <2>1. Depth + 1 <= MAX_HANDLERS
    BY <1>4, StackAssumption DEF Depth
  <2>2. Len(stack) \in 0 .. Depth + 1
    BY <1>4
  <2> QED
    BY <1>1, <1>7, <2>1, <2>2 DEF DepthInv
<1>13. ComingInv'
  <2>1. \A line \in Coming' : line.who = Depth + 1
    BY <1>6, <1>7 DEF Coming, Text
  <2>2. Once(h.reports)
    BY <1>3, <1>5
  <2>3. Innermost'.reports = h.reports
    BY <1>7
  <2> QED
    BY <1>1, <1>7, <1>9, <2>1, <2>2 DEF ComingInv
<1>14. RunningInv'
  <2>1. Len(stack') # Base' + 1
    BY <1>1, <1>4, <1>7
  <2> QED
    BY <2>1 DEF RunningInv
<1> QED
  BY <1>10, <1>11, <1>12, <1>13, <1>14 DEF KInv

\* Nothing the invariant speaks of has changed.
LEMMA SameState ==
    ASSUME KInv, machine' = machine, boot' = boot, s_subscribers' = s_subscribers,
           s_message' = s_message, stack' = stack, handlers' = handlers,
           serial' = serial, screen' = screen, reset' \in {"none", "strike", "terminal"}
    PROVE  KInv'
<1>1. pc' = pc /\ idt_loaded' = idt_loaded /\ is_initialized' = is_initialized
  BY DEF boot
<1>2. Depth' = Depth /\ Base' = Base /\ Innermost' = Innermost /\ Coming' = Coming
      /\ kernel_main' = kernel_main
  BY <1>1, SameThread, SameComing, MainSame
<1>3. Frame' = Frame
  BY DEF Frame
<1>4. TypeInv'
  BY <1>1, <1>2 DEF KInv, TypeInv
<1>5. TableInv'
  BY SameTable DEF KInv
<1>6. DepthInv'
  BY <1>2 DEF KInv, DepthInv
<1>7. ComingInv'
  BY <1>2 DEF KInv, ComingInv
<1>8. RunningInv'
  BY <1>2, <1>3 DEF KInv, RunningInv
<1> QED
  BY <1>4, <1>5, <1>6, <1>7, <1>8 DEF KInv

LEMMA RaiseStep ==
    ASSUME KInv, NEW vector \in 0 .. 31, NEW cause \in Causes, Raise(vector, cause)
    PROVE  KInv'
<1>1. CASE idt_loaded /\ Len(handlers) < MAX_HANDLERS
  BY <1>1, EnterStep
<1>2. CASE ~(idt_loaded /\ Len(handlers) < MAX_HANDLERS)
  <2>1. /\ reset' = cause
        /\ UNCHANGED <<machine, boot, ulog, handlers, serial, screen>>
    BY <1>2 DEF Raise
  <2>2. reset' \in {"none", "strike", "terminal"}
    BY <2>1 DEF Causes
  <2>3. s_subscribers' = s_subscribers /\ s_message' = s_message /\ stack' = stack
    BY <2>1 DEF ulog
  <2> QED
    BY <2>1, <2>2, <2>3, SameState
<1> QED
  BY <1>1, <1>2

LEMMA StrikeStep ==
    ASSUME KInv, NEW vector \in Vectors, Strike(vector)
    PROVE  KInv'
<1>1. vector \in 0 .. 31 /\ "strike" \in Causes
  BY VectorAssumption DEF Causes
<1>2. Raise(vector, "strike")
  BY DEF Strike
<1> QED
  BY <1>1, <1>2, RaiseStep

LEMMA TerminalFaultStep == KInv /\ TerminalFault => KInv'
<1>1. 14 \in 0 .. 31 /\ "terminal" \in Causes
  BY DEF Causes
<1>2. TerminalFault => Raise(14, "terminal")
  BY DEF TerminalFault
<1> QED
  BY <1>1, <1>2, RaiseStep

LEMMA HandlerReportsStep == KInv /\ HandlerReports => KInv'
<1> SUFFICES ASSUME KInv, HandlerReports
             PROVE  KInv'
  OBVIOUS
<1> DEFINE s == Innermost.reports
           h == [Innermost EXCEPT !.reports = Tail(s)]
           line == Text(Depth, Head(s))
<1>1. /\ handlers # << >> /\ Len(stack) = Base /\ s # << >>
      /\ handlers' = [handlers EXCEPT ![Depth].reports = Tail(s)]
      /\ Log!ulog_message(CRITICAL, line)
      /\ machine' = machine /\ pc' = pc /\ idt_loaded' = idt_loaded
      /\ is_initialized' = is_initialized
      /\ serial' = serial /\ screen' = screen /\ reset' = reset
  BY DEF HandlerReports, InHandler, boot, Depth
<1>2. /\ handlers \in Seq(KHandlers) /\ Depth \in Nat /\ Depth >= 1
      /\ Depth \in 1 .. Len(handlers) /\ Innermost \in KHandlers
  <2>1. handlers \in Seq(KHandlers)
    BY DEF KInv, TypeInv
  <2>2. Len(handlers) \in Nat /\ Len(handlers) >= 1
    BY <1>1, <2>1, EmptySeq
  <2>3. Len(handlers) \in 1 .. Len(handlers)
    BY <2>2
  <2> QED
    BY <2>1, <2>2, <2>3 DEF Depth, Innermost
<1>3. s \in Seq(ReportNames) /\ Once(s)
  BY <1>1, <1>2 DEF KHandlers, KInv, ComingInv
<1>4. /\ Tail(s) \in Seq(ReportNames) /\ Once(Tail(s)) /\ Head(s) \in ReportNames
      /\ \A k \in 1 .. Len(Tail(s)) : Tail(s)[k] # Head(s) /\ k + 1 \in 1 .. Len(s)
                                      /\ Tail(s)[k] = s[k + 1]
      /\ 1 \in 1 .. Len(s) /\ Head(s) = s[1]
  <2> HIDE DEF s
  <2> QED
    BY <1>1, <1>3, TailOnce
<1>5. handlers' = [handlers EXCEPT ![Depth] = h]
  BY <1>1, <1>2 DEF Innermost, Depth
<1>6. h \in KHandlers /\ h.base = Innermost.base /\ h.reports = Tail(s)
  BY <1>2, <1>4 DEF KHandlers
<1>7. line \in Lines /\ line.who = Depth /\ line.what = Head(s)
  BY <1>2, <1>4 DEF Text, Lines
<1> HIDE DEF h
<1>8. handlers' \in Seq(KHandlers) /\ Len(handlers') = Depth /\ handlers'[Depth] = h
  BY <1>2, <1>5, <1>6 DEF Depth
<1>9. handlers' # << >>
  BY <1>2, <1>8, EmptySeq
<1>10. Depth' = Depth /\ Innermost' = h /\ Base' = Base
  BY <1>1, <1>6, <1>8, <1>9 DEF Depth, Innermost, Base
<1>11. line \in Coming
  BY <1>1, <1>4 DEF Coming
<1>12. Coming' = {Text(Depth, Tail(s)[k]) : k \in 1 .. Len(Tail(s))}
  <2>1. Innermost'.reports = Tail(s)
    BY <1>6, <1>10
  <2> HIDE DEF s
  <2> QED
    BY <1>9, <1>10, <2>1 DEF Coming
<1>13. Coming' \subseteq Coming /\ line \notin Coming'
  <2>1. Coming = {Text(Depth, s[k]) : k \in 1 .. Len(s)}
    BY <1>1 DEF Coming
  <2> HIDE DEF s
  <2>2. Coming' \subseteq Coming
    BY <1>4, <1>12, <2>1
  <2>3. line \notin Coming'
    BY <1>4, <1>12 DEF Text
  <2> QED
    BY <2>2, <2>3
<1>14. /\ s_message' = line /\ s_subscribers' = s_subscribers
       /\ stack' \in Seq(KFrames) /\ Len(stack') = Len(stack) + 1 /\ Frame'.fn = "NULL"
  <2> HIDE DEF line
  <2> QED
    BY <1>1, Ranks, MessageStep DEF KInv, TypeInv
<1> HIDE DEF s, line
<1>15. kernel_main' = kernel_main
  BY <1>1, MainSame
<1>16. TypeInv'
  BY <1>1, <1>7, <1>8, <1>10, <1>14, <1>15 DEF KInv, TypeInv
<1>17. TableInv'
  BY <1>14, SameTable DEF KInv
<1>18. DepthInv'
  BY <1>1, <1>10, <1>14 DEF KInv, DepthInv
<1>19. ComingInv'
  <2>1. Once(Innermost'.reports)
    BY <1>4, <1>6, <1>10
  <2> QED
    BY <1>1, <1>10, <1>13, <2>1 DEF KInv, ComingInv
<1>20. ~Holds(serial', s_message') /\ ~Holds(screen', s_message')
  BY <1>1, <1>11, <1>14 DEF KInv, ComingInv
<1>21. RunningInv'
  BY <1>7, <1>10, <1>13, <1>14, <1>20 DEF RunningInv
<1> QED
  BY <1>16, <1>17, <1>18, <1>19, <1>21 DEF KInv

-----------------------------------------------------------------------------
(***************************************************************************)
(* The theorems.                                                           *)
(***************************************************************************)
LEMMA KernelInit == Init => KInv
<1> SUFFICES ASSUME Init
             PROVE  KInv
  OBVIOUS
<1>1. Depth = 0 /\ Base = 0 /\ Len(stack) = 0 /\ handlers = << >>
  BY EmptySeq DEF Init, Depth, Base
<1>2. 1 \in 1 .. Len(kernel_main)
  BY MainEnds
<1>3. Len(<< >>) = 0 /\ << >> \in Seq(Lines) /\ << >> \in Seq(KFrames) /\ << >> \in Seq(KHandlers)
  BY EmptySeq
<1>4. Past(<< >>, 0) /\ \A line : ~Holds(<< >>, line)
  BY <1>3 DEF Past, Holds, Ordered
<1>5. Text(0, "") \in Lines
  BY DEF Text, Lines
<1>6. s_subscribers = [slot \in Slots |-> [fn |-> "NULL", threshold |-> 0]]
  BY SlotsAre DEF Init, Log!EmptyTable
<1>7. s_subscribers \in Tables /\ TableInv
  BY <1>6 DEF Tables, TableInv
<1>8. idt_loaded \in BOOLEAN /\ is_initialized \in BOOLEAN
  BY Zenon DEF Init
<1>9. TypeInv
  BY <1>1, <1>2, <1>3, <1>4, <1>5, <1>7, <1>8 DEF Init, TypeInv
<1>10. DepthInv
  BY <1>1, StackAssumption DEF DepthInv
<1>11. ComingInv
  BY <1>1, <1>4 DEF Init, ComingInv
<1>12. RunningInv
  BY <1>1 DEF RunningInv
<1> QED
  BY <1>7, <1>9, <1>10, <1>11, <1>12 DEF KInv

LEMMA KernelStep == KInv /\ [Next]_vars => KInv'
<1> SUFFICES ASSUME KInv, [Next]_vars
             PROVE  KInv'
  OBVIOUS
<1>1. CASE BootLogs
  BY <1>1, BootLogsStep
<1>2. CASE BootPrints \/ BootOpensSerial \/ BootLoadsIdt
  BY <1>2, BootQuietStep
<1>3. CASE BootUsesUlog
  BY <1>3, BootUsesUlogStep
<1>4. CASE Dispatch
  BY <1>4, DispatchStep
<1>5. CASE serial_log
  BY <1>5, SerialLogStep
<1>6. CASE kernel_log
  BY <1>6, KernelLogStep
<1>7. CASE HandlerReports
  BY <1>7, HandlerReportsStep
<1>8. ASSUME NEW vector \in Vectors, Strike(vector)
      PROVE  KInv'
  BY <1>8, StrikeStep
<1>9. CASE TerminalFault
  BY <1>9, TerminalFaultStep
<1>10. CASE UNCHANGED vars
  <2>1. /\ machine' = machine /\ boot' = boot /\ s_subscribers' = s_subscribers
        /\ s_message' = s_message /\ stack' = stack /\ handlers' = handlers
        /\ serial' = serial /\ screen' = screen /\ reset' = reset
    BY <1>10 DEF vars, ulog
  <2> QED
    BY <2>1, SameState DEF KInv, TypeInv
<1> QED
  BY <1>1, <1>2, <1>3, <1>4, <1>5, <1>6, <1>7, <1>8, <1>9, <1>10 DEF Next, Progress

LEMMA KernelInvariant == Spec => []KInv
  BY KernelInit, KernelStep, PTL DEF Spec

\* kernel_main does not run past its last hcf, the handlers fit the stack, and
\* each thread has at most one dispatch under way.
THEOREM TypeCorrect == Spec => []TypeOK
<1>1. KInv => TypeOK
  <2> SUFFICES ASSUME KInv
               PROVE  TypeOK
    OBVIOUS
  <2>1. DOMAIN kernel_main = 1 .. Len(kernel_main)
    BY MainEnds
  <2>2. Len(handlers) <= MAX_HANDLERS /\ Len(stack) <= Len(handlers) + 1
    <3>1. /\ Depth \in Nat /\ Base \in 0 .. Depth /\ Len(stack) \in {Base, Base + 1}
          /\ Depth <= MAX_HANDLERS
      BY DEF KInv, TypeInv, DepthInv, Depth
    <3>2. Len(stack) <= Depth + 1
      BY <3>1
    <3> QED
      BY <3>1, <3>2 DEF Depth
  <2>3. idt_loaded \in BOOLEAN /\ is_initialized \in BOOLEAN
    BY DEF KInv, TypeInv
  <2> QED
    BY <2>1, <2>2, <2>3 DEF KInv, TypeInv, TypeOK
<1> QED
  BY <1>1, KernelInvariant, PTL

\* Whatever exceptions interrupt ulog_message, and whatever the subscribers were
\* doing: neither serial_log nor kernel_log writes a line twice, nor one of a
\* dispatch that an exception_handler has taken the one message buffer from.
THEOREM LinesInOrder == Spec => []LinesOrdered
<1>1. KInv => LinesOrdered
  BY DEF KInv, TypeInv, Past, LinesOrdered
<1> QED
  BY <1>1, KernelInvariant, PTL

-----------------------------------------------------------------------------
(***************************************************************************)
(* Where kernel_main sets up the logger.                                    *)
(***************************************************************************)
\* The effects that matter to who is subscribed.
Setup == {"ulog_init", "subscribe kernel_log", "subscribe serial_log"}
Quiet(s) == s \in Seq(Effects) /\ \A k \in 1 .. Len(s) : s[k].op \notin Setup

LEMMA QuietSay ==
    ASSUME NEW severity \in Severities, NEW what \in Whats
    PROVE  Quiet(Say(severity, what))
<1> DEFINE e == [op |-> "log", severity |-> severity, what |-> what]
<1>1. e \in Effects /\ e.op \notin Setup
  BY DEF Effects, Logs, Setup
<1>2. Say(severity, what) = <<e>>
  BY DEF Say
<1> HIDE DEF e
<1> QED
  BY <1>1, <1>2 DEF Quiet

LEMMA QuietDo ==
    ASSUME NEW op \in Ops \ Setup
    PROVE  Quiet(Do(op))
<1> DEFINE e == [op |-> op]
<1>1. e \in Effects /\ e.op \notin Setup
  BY DEF Effects, Others
<1>2. Do(op) = <<e>>
  BY DEF Do
<1> HIDE DEF e
<1> QED
  BY <1>1, <1>2 DEF Quiet

LEMMA QuietJoin ==
    ASSUME NEW s, NEW t, Quiet(s), Quiet(t)
    PROVE  Quiet(s \o t)
<1>1. s \in Seq(Effects) /\ t \in Seq(Effects)
  BY DEF Quiet
<1>2. /\ s \o t \in Seq(Effects) /\ Len(s \o t) = Len(s) + Len(t)
      /\ \A k \in 1 .. Len(s) + Len(t) : (s \o t)[k] = IF k <= Len(s) THEN s[k] ELSE t[k - Len(s)]
  BY <1>1
<1>3. ASSUME NEW k \in 1 .. Len(s) + Len(t)
      PROVE  (s \o t)[k].op \notin Setup
  <2>1. Len(s) \in Nat /\ Len(t) \in Nat
    BY <1>1
  <2>2. CASE k <= Len(s)
    <3>1. k \in 1 .. Len(s)
      BY <2>1, <2>2
    <3> QED
      BY <1>2, <2>2, <3>1 DEF Quiet
  <2>3. CASE ~ (k <= Len(s))
    <3>1. k - Len(s) \in 1 .. Len(t)
      BY <2>1, <2>3
    <3> QED
      BY <1>2, <2>3, <3>1 DEF Quiet
  <2> QED
    BY <2>2, <2>3
<1> QED
  BY <1>2, <1>3 DEF Quiet

LEMMA QuietParts ==
    /\ Quiet(serial_initialize) /\ Quiet(terminal_initialize) /\ Quiet(detect_cpu)
    /\ Quiet(gdt_initialize) /\ Quiet(idt_initialize) /\ Quiet(hhdm_initialize)
    /\ Quiet(pmm_initialize) /\ Quiet(hcf)
<1>1. Quiet(Do("hcf")) /\ Quiet(Do("print")) /\ Quiet(Do("is_initialized")) /\ Quiet(Do("lidt"))
  <2>1. \A op \in Ops \ Setup : Quiet(Do(op))
    BY QuietDo
  <2>2. {"hcf", "print", "is_initialized", "lidt"} \subseteq Ops \ Setup
    BY DEF Ops, Setup
  <2> QED
    BY <2>1, <2>2
<1>2. \A what \in Whats : /\ Quiet(Say(INFO, what)) /\ Quiet(Say(DEBUG, what))
                          /\ Quiet(Say(CRITICAL, what))
  BY QuietSay, Ranks
<1>3. Quiet(hcf) /\ Quiet(detect_cpu) /\ Quiet(idt_initialize)
  BY <1>1 DEF hcf, detect_cpu, idt_initialize
<1>4. Quiet(serial_initialize)
  BY <1>1, <1>2, WhatsAre, QuietJoin, Zenon DEF serial_initialize
<1>5. Quiet(terminal_initialize)
  BY <1>1, <1>2, <1>3, WhatsAre, QuietJoin, Zenon DEF terminal_initialize
<1>6. Quiet(gdt_initialize)
  BY <1>2, WhatsAre, QuietJoin, Zenon DEF gdt_initialize
<1>7. Quiet(hhdm_initialize)
  BY <1>2, WhatsAre, Zenon DEF hhdm_initialize
<1>8. Quiet(print_memmap)
  BY <1>1, <1>2, WhatsAre, QuietJoin, Zenon DEF print_memmap
<1>9. Quiet(pmm_initialize)
  <2> DEFINE sizes == Say(INFO, "Total usable memory") \o Say(INFO, "Highest usable address")
             made == Say(DEBUG, "Bitmap stored") \o print_memmap
                        \o Say(DEBUG, "Freeing") \o Say(INFO, "Bitmap created")
             failed == Say(CRITICAL, "Could not allocate bitmap") \o hcf
  <2>1. Quiet(sizes)
    BY <1>2, WhatsAre, QuietJoin, Zenon
  <2>2. Quiet(made)
    <3>1. Quiet(Say(DEBUG, "Bitmap stored") \o print_memmap)
      BY <1>2, <1>8, WhatsAre, QuietJoin, Zenon
    <3>2. Quiet((Say(DEBUG, "Bitmap stored") \o print_memmap) \o Say(DEBUG, "Freeing"))
      BY <1>2, <3>1, WhatsAre, QuietJoin, Zenon
    <3> QED
      BY <1>2, <3>2, WhatsAre, QuietJoin, Zenon
  <2>3. Quiet(failed)
    BY <1>2, <1>3, WhatsAre, QuietJoin, Zenon
  <2>4. pmm_initialize = sizes \o IF machine.room THEN made ELSE failed
    BY DEF pmm_initialize
  <2> HIDE DEF sizes, made, failed
  <2>5. Quiet(IF machine.room THEN made ELSE failed)
    BY <2>2, <2>3
  <2> QED
    BY <2>1, <2>4, <2>5, QuietJoin
<1> QED
  BY <1>3, <1>4, <1>5, <1>6, <1>7, <1>9

\* The three are at m + 1 .. m + 3, and the serial port has been opened before.
Shaped(s, m) ==
    /\ s \in Seq(Effects) /\ m >= 3 /\ Len(s) >= m + 3
    /\ s[3].op = "is_initialized"
    /\ s[m + 1].op = "ulog_init"
    /\ s[m + 2].op = "subscribe kernel_log"
    /\ s[m + 3].op = "subscribe serial_log"
    /\ \A k \in 1 .. Len(s) : k \notin m + 1 .. m + 3 => s[k].op \notin Setup

LEMMA ShapedJoin ==
    ASSUME NEW s, NEW m \in Nat, NEW t, Shaped(s, m), Quiet(t)
    PROVE  Shaped(s \o t, m)
<1> DEFINE n == Len(s)  u == s \o t
<1>1. /\ s \in Seq(Effects) /\ t \in Seq(Effects) /\ n \in Nat /\ Len(t) \in Nat
      /\ m >= 3 /\ n >= m + 3
  <2>1. s \in Seq(Effects) /\ t \in Seq(Effects)
    BY DEF Shaped, Quiet
  <2>2. m >= 3 /\ n >= m + 3
    BY DEF Shaped
  <2> QED
    BY <2>1, <2>2
<1>2. /\ u \in Seq(Effects) /\ Len(u) = n + Len(t)
      /\ \A k \in 1 .. n + Len(t) : u[k] = IF k <= n THEN s[k] ELSE t[k - n]
  BY <1>1
<1> HIDE DEF u
<1>3. ASSUME NEW k \in 1 .. Len(u), k \notin m + 1 .. m + 3
      PROVE  u[k].op \notin Setup
  <2>1. CASE k <= n
    <3>1. k \in 1 .. n
      BY <1>1, <2>1
    <3> QED
      BY <1>2, <1>3, <2>1, <3>1 DEF Shaped
  <2>2. CASE ~ (k <= n)
    <3>1. k - n \in 1 .. Len(t)
      BY <1>1, <1>2, <2>2
    <3> QED
      BY <1>2, <2>2, <3>1 DEF Quiet
  <2> QED
    BY <2>1, <2>2
<1>4. \A k \in {3, m + 1, m + 2, m + 3} : k \in 1 .. n + Len(t) /\ k <= n
  BY <1>1
<1>5. u[3] = s[3] /\ u[m + 1] = s[m + 1] /\ u[m + 2] = s[m + 2] /\ u[m + 3] = s[m + 3]
  BY <1>2, <1>4
<1>6. Len(u) >= m + 3
  BY <1>1, <1>2
<1>7. Shaped(u, m)
  BY <1>1, <1>2, <1>3, <1>5, <1>6 DEF Shaped
<1> QED
  BY <1>7 DEF u

LEMMA Concat ==
    ASSUME NEW s \in Seq(Effects), NEW t \in Seq(Effects)
    PROVE  /\ s \o t \in Seq(Effects) /\ Len(s \o t) = Len(s) + Len(t)
           /\ \A k \in 1 .. Len(s) : (s \o t)[k] = s[k]
           /\ \A k \in 1 .. Len(t) : (s \o t)[Len(s) + k] = t[k]
OBVIOUS

LEMMA SetupShaped ==
    \E m \in Nat : Shaped((serial_initialize \o terminal_initialize) \o log_initialize, m)
<1> DEFINE p == serial_initialize \o terminal_initialize
           m == Len(p)
           a == [op |-> "log", severity |-> INFO, what |-> "Initializing Serial port"]
           b == [op |-> "log", severity |-> INFO, what |-> "Serial port initialized"]
           c == [op |-> "is_initialized"]
           x == [op |-> "ulog_init"]
           y == [op |-> "subscribe kernel_log"]
           z == [op |-> "subscribe serial_log"]
<1>1. Quiet(p)
  BY QuietParts, QuietJoin
<1>2. p \in Seq(Effects) /\ m \in Nat
  BY <1>1 DEF Quiet
<1>3. m >= 3 /\ p[3].op = "is_initialized"
  <2>1. serial_initialize = (<<a>> \o <<b>>) \o <<c>>
    BY DEF serial_initialize, Say, Do
  <2>2. a \in Effects /\ b \in Effects /\ c \in Effects /\ c.op = "is_initialized"
    BY Ranks, WhatsAre DEF Effects, Logs, Others, Ops
  <2> HIDE DEF a, b, c
  <2>3. Len((<<a>> \o <<b>>) \o <<c>>) = 3 /\ ((<<a>> \o <<b>>) \o <<c>>)[3] = c
    BY <2>2
  <2>4. Len(serial_initialize) = 3 /\ serial_initialize[3] = c
    BY <2>1, <2>3
  <2>5. serial_initialize \in Seq(Effects) /\ terminal_initialize \in Seq(Effects)
    BY QuietParts DEF Quiet
  <2>6. /\ Len(p) = Len(serial_initialize) + Len(terminal_initialize)
        /\ \A k \in 1 .. Len(serial_initialize) : p[k] = serial_initialize[k]
    BY <2>5, Concat
  <2>7. Len(terminal_initialize) \in Nat
    BY <2>5
  <2> HIDE DEF p
  <2> QED
    BY <2>2, <2>4, <2>6, <2>7 DEF m
<1>4. log_initialize = (<<x>> \o <<y>>) \o <<z>>
  BY DEF log_initialize, Do
<1>5. /\ x \in Effects /\ x.op = "ulog_init"
      /\ y \in Effects /\ y.op = "subscribe kernel_log"
      /\ z \in Effects /\ z.op = "subscribe serial_log"
  BY DEF Effects, Others, Ops
<1> HIDE DEF p, m, x, y, z
<1> DEFINE l == (<<x>> \o <<y>>) \o <<z>>
           s == p \o l
<1>6. l \in Seq(Effects) /\ Len(l) = 3 /\ l[1] = x /\ l[2] = y /\ l[3] = z
  <2> DEFINE two == <<x>> \o <<y>>
  <2>1. <<x>> \in Seq(Effects) /\ <<y>> \in Seq(Effects) /\ <<z>> \in Seq(Effects)
        /\ Len(<<x>>) = 1 /\ Len(<<y>>) = 1 /\ Len(<<z>>) = 1
        /\ <<x>>[1] = x /\ <<y>>[1] = y /\ <<z>>[1] = z
    <3>1. \A e \in Effects : <<e>> \in Seq(Effects) /\ Len(<<e>>) = 1 /\ <<e>>[1] = e
      OBVIOUS
    <3> QED
      BY <1>5, <3>1
  <2>2. two \in Seq(Effects) /\ Len(two) = 2 /\ two[1] = x /\ two[2] = y
    BY <2>1, Concat
  <2> HIDE DEF two
  <2>3. \A k \in 1 .. 2 : (two \o <<z>>)[k] = two[k]
    BY <2>1, <2>2, Concat
  <2>4. two \o <<z>> \in Seq(Effects) /\ Len(two \o <<z>>) = 3 /\ (two \o <<z>>)[3] = z
    BY <2>1, <2>2, Concat
  <2> QED
    BY <2>2, <2>3, <2>4 DEF two
<1> HIDE DEF l
<1>7. /\ s \in Seq(Effects) /\ Len(s) = m + 3
      /\ s[m + 1] = x /\ s[m + 2] = y /\ s[m + 3] = z
      /\ \A k \in 1 .. m : s[k] = p[k]
  <2>1. Len(p) = m
    BY DEF m
  <2>2. /\ s \in Seq(Effects) /\ Len(s) = m + 3
        /\ \A k \in 1 .. m : s[k] = p[k]
        /\ \A k \in 1 .. 3 : s[m + k] = l[k]
    <3>1. /\ s \in Seq(Effects) /\ Len(s) = Len(p) + Len(l)
          /\ \A k \in 1 .. Len(p) : s[k] = p[k]
          /\ \A k \in 1 .. Len(l) : s[Len(p) + k] = l[k]
      BY <1>2, <1>6, Concat
    <3> HIDE DEF s
    <3> QED
      BY <1>6, <2>1, <3>1
  <2>3. 1 \in 1 .. 3 /\ 2 \in 1 .. 3 /\ 3 \in 1 .. 3
    OBVIOUS
  <2> HIDE DEF s
  <2> QED
    BY <1>6, <2>2, <2>3
<1> HIDE DEF s
<1>8. \A k \in 1 .. Len(s) : k \notin m + 1 .. m + 3 => k \in 1 .. m
  BY <1>2, <1>7
<1>9. 3 \in 1 .. m
  BY <1>2, <1>3
<1>10. \A k \in 1 .. Len(s) : k \notin m + 1 .. m + 3 => s[k].op \notin Setup
  BY <1>1, <1>7, <1>8 DEF Quiet, m
<1>11. s[3].op = "is_initialized" /\ Len(s) >= m + 3
  BY <1>2, <1>3, <1>7, <1>9
<1>12. Shaped(s, m)
  BY <1>3, <1>5, <1>7, <1>10, <1>11 DEF Shaped
<1> QED
  BY <1>2, <1>4, <1>12 DEF p, l, s

LEMMA MainShape ==
    machine.revision => \E m \in Nat : Shaped(kernel_main, m)
<1> SUFFICES ASSUME machine.revision
             PROVE  \E m \in Nat : Shaped(kernel_main, m)
  OBVIOUS
<1> DEFINE p == (serial_initialize \o terminal_initialize) \o log_initialize
           q == (((p \o detect_cpu) \o gdt_initialize) \o idt_initialize)
           r == ((q \o hhdm_initialize) \o pmm_initialize) \o hcf
<1>1. PICK m \in Nat : Shaped(p, m)
  BY SetupShaped
<1>2. kernel_main = r
  BY DEF kernel_main
<1>3. Shaped(q, m)
  <2> HIDE DEF p
  <2>1. Shaped(p \o detect_cpu, m)
    BY <1>1, QuietParts, ShapedJoin
  <2>2. Shaped((p \o detect_cpu) \o gdt_initialize, m)
    BY <2>1, QuietParts, ShapedJoin
  <2> QED
    BY <2>2, QuietParts, ShapedJoin
<1>4. Shaped(r, m)
  <2> HIDE DEF q
  <2>1. Shaped(q \o hhdm_initialize, m)
    BY <1>3, QuietParts, ShapedJoin
  <2>2. Shaped((q \o hhdm_initialize) \o pmm_initialize, m)
    BY <2>1, QuietParts, ShapedJoin
  <2> QED
    BY <2>2, QuietParts, ShapedJoin
<1> QED
  BY <1>2, <1>4

\* kernel_main has had the effect before it comes to p.
Done(op, p) == \E l \in 1 .. p - 1 : kernel_main[l].op = op

\* Once the table has been cleared, nothing is logged before there are
\* subscriptions; no subscription comes before that, or is cleared away again; and
\* the serial port is open when it subscribes.
LEMMA MainOrder ==
    ASSUME NEW k \in 1 .. Len(kernel_main)
    PROVE  /\ kernel_main[k].op = "log" /\ Done("ulog_init", k) =>
                 Done("subscribe kernel_log", k) /\ Done("subscribe serial_log", k)
           /\ kernel_main[k].op = "ulog_init" =>
                 ~ Done("subscribe kernel_log", k) /\ ~ Done("subscribe serial_log", k)
           /\ Done("subscribe serial_log", k) => Done("is_initialized", k)
           /\ Done("subscribe kernel_log", k) \/ Done("subscribe serial_log", k) =>
                 Done("ulog_init", k)
<1>1. Len(kernel_main) \in Nat
  BY MainEnds
<1>2. CASE machine.revision
  <2>1. PICK m \in Nat : Shaped(kernel_main, m)
    BY <1>2, MainShape
  <2>2. /\ m >= 3 /\ kernel_main[3].op = "is_initialized" /\ kernel_main[m + 1].op = "ulog_init"
        /\ kernel_main[m + 2].op = "subscribe kernel_log" /\ kernel_main[m + 3].op = "subscribe serial_log"
        /\ \A l \in 1 .. Len(kernel_main) :
              kernel_main[l].op \in Setup => l \in m + 1 .. m + 3
    BY <2>1 DEF Shaped
  <2>3. \A l \in 1 .. Len(kernel_main) :
           /\ kernel_main[l].op = "ulog_init" => l = m + 1
           /\ kernel_main[l].op = "subscribe kernel_log" => l = m + 2
           /\ kernel_main[l].op = "subscribe serial_log" => l = m + 3
    <3>1. \A l \in m + 1 .. m + 3 : l = m + 1 \/ l = m + 2 \/ l = m + 3
      OBVIOUS
    <3> QED
      BY <2>2, <3>1 DEF Setup
  <2>4. \A l \in 1 .. k - 1 : l \in 1 .. Len(kernel_main) /\ l < k
    BY <1>1
  <2>5. ASSUME kernel_main[k].op = "log", Done("ulog_init", k)
        PROVE  Done("subscribe kernel_log", k) /\ Done("subscribe serial_log", k)
    <3>1. m + 1 < k
      BY <2>3, <2>4, <2>5 DEF Done
    <3>2. k # m + 2 /\ k # m + 3
      BY <2>2, <2>5
    <3>3. m + 2 \in 1 .. k - 1 /\ m + 3 \in 1 .. k - 1
      BY <3>1, <3>2
    <3> QED
      BY <2>2, <3>3 DEF Done
  <2>6. ASSUME kernel_main[k].op = "ulog_init"
        PROVE  ~ Done("subscribe kernel_log", k) /\ ~ Done("subscribe serial_log", k)
    <3>1. k = m + 1
      BY <2>3, <2>6
    <3>2. \A l \in 1 .. k - 1 : l # m + 2 /\ l # m + 3
      BY <3>1
    <3> QED
      BY <2>3, <2>4, <3>2 DEF Done
  <2>7. ASSUME Done("subscribe serial_log", k)
        PROVE  Done("is_initialized", k)
    <3>1. m + 3 < k
      BY <2>3, <2>4, <2>7 DEF Done
    <3>2. 3 \in 1 .. k - 1
      <4>1. m >= 3
        BY <2>2
      <4> QED
        BY <3>1, <4>1
    <3> QED
      BY <2>2, <3>2 DEF Done
  <2>8. ASSUME Done("subscribe kernel_log", k) \/ Done("subscribe serial_log", k)
        PROVE  Done("ulog_init", k)
    <3>1. m + 2 < k \/ m + 3 < k
      BY <2>3, <2>4, <2>8 DEF Done
    <3>2. m + 1 \in 1 .. k - 1
      BY <3>1
    <3> QED
      BY <2>2, <3>2 DEF Done
  <2> QED
    BY <2>5, <2>6, <2>7, <2>8
<1>3. CASE ~ machine.revision
  <2> DEFINE e == [op |-> "hcf"]
  <2>1. kernel_main = <<e>> /\ e.op = "hcf"
    BY <1>3 DEF kernel_main, hcf, Do
  <2> HIDE DEF e
  <2>2. k = 1 /\ kernel_main[k].op = "hcf"
    BY <2>1
  <2>3. \A l \in 1 .. k - 1 : FALSE
    BY <2>2
  <2> QED
    BY <2>2, <2>3 DEF Done
<1> QED
  BY <1>2, <1>3

-----------------------------------------------------------------------------
(***************************************************************************)
(* The messages of kernel_main on an output.                                *)
(***************************************************************************)
\* One more effect.
LEMMA HeardNext ==
    ASSUME NEW p \in 1 .. Len(kernel_main), NEW level \in Nat
    PROVE  /\ Heard(p + 1, level) =
                 IF /\ kernel_main[p].op = "log" /\ kernel_main[p].severity >= level
                    /\ Done("ulog_init", p)
                 THEN Heard(p, level) \cup {p} ELSE Heard(p, level)
           /\ Heard(p, level) \subseteq 1 .. p - 1
<1>1. Len(kernel_main) \in Nat
  BY MainEnds
<1>2. p \in Nat /\ \A k : k \in 1 .. p + 1 - 1 <=> k \in 1 .. p - 1 \/ k = p
  BY <1>1
<1>3. \A k : k \in Heard(p + 1, level) <=>
             /\ k \in 1 .. p + 1 - 1 /\ kernel_main[k].op = "log"
             /\ kernel_main[k].severity >= level /\ Done("ulog_init", k)
  BY DEF Heard, Done
<1>4. \A k : k \in Heard(p, level) <=>
             /\ k \in 1 .. p - 1 /\ kernel_main[k].op = "log"
             /\ kernel_main[k].severity >= level /\ Done("ulog_init", k)
  BY DEF Heard, Done
<1> QED
  BY <1>2, <1>3, <1>4, Zenon

LEMMA HeardSame ==
    ASSUME kernel_main' = kernel_main, NEW p, NEW level
    PROVE  Heard(p, level)' = Heard(p, level)
  BY DEF Heard

LEMMA DoneNext ==
    ASSUME NEW p \in 1 .. Len(kernel_main), NEW op
    PROVE  Done(op, p + 1) <=> Done(op, p) \/ kernel_main[p].op = op
<1>1. Len(kernel_main) \in Nat
  BY MainEnds
<1>2. \A l : l \in 1 .. p + 1 - 1 <=> l \in 1 .. p - 1 \/ l = p
  BY <1>1
<1> QED
  BY <1>2 DEF Done

\* One more message.
LEMMA ListsMore ==
    ASSUME NEW p \in Nat, NEW heard, heard \subseteq 1 .. p - 1,
           NEW output \in Seq(Lines), Lists(output, heard),
           NEW line \in Lines, line = Text(0, kernel_main[p].what)
    PROVE  Lists(Append(output, line), heard \cup {p})
<1> DEFINE rank(k) == Cardinality({l \in heard : l <= k})
           more == heard \cup {p}
           n == Cardinality(heard)
<1>1. IsFiniteSet(heard) /\ p \notin heard
  <2>1. IsFiniteSet(1 .. p - 1)
    BY FS_Interval
  <2>2. IsFiniteSet(heard)
    BY <2>1, FS_Subset, Zenon
  <2> QED
    BY <2>2
<1>2. n \in Nat /\ Cardinality(more) = n + 1
  BY <1>1, FS_CardinalityType, FS_AddElement
<1>3. Len(output) = n /\ \A k \in heard : output[rank(k)] = Text(0, kernel_main[k].what)
  BY DEF Lists
<1>4. ASSUME NEW k \in heard
      PROVE  {l \in more : l <= k} = {l \in heard : l <= k} /\ rank(k) \in 1 .. n
  <2>1. {l \in more : l <= k} = {l \in heard : l <= k}
    OBVIOUS
  <2> DEFINE below == {l \in heard : l <= k}
  <2>2. IsFiniteSet(below) /\ Cardinality(below) <= n
    <3>1. below \subseteq heard
      OBVIOUS
    <3> HIDE DEF below
    <3> QED
      BY <1>1, <3>1, FS_Subset
  <2>3. Cardinality(below) \in Nat /\ Cardinality(below) # 0
    <3>1. k \in below
      OBVIOUS
    <3> HIDE DEF below
    <3> QED
      BY <2>2, <3>1, FS_CardinalityType, FS_EmptySet
  <2> QED
    BY <1>2, <2>1, <2>2, <2>3
<1>5. {l \in more : l <= p} = more
  <2>1. \A l \in more : l <= p
    OBVIOUS
  <2> HIDE DEF more
  <2> QED
    BY <2>1
<1>6. /\ Len(Append(output, line)) = n + 1 /\ Append(output, line)[n + 1] = line
      /\ \A k \in 1 .. n : Append(output, line)[k] = output[k]
  BY <1>3
<1>7. ASSUME NEW k \in more
      PROVE  Append(output, line)[Cardinality({l \in more : l <= k})] = Text(0, kernel_main[k].what)
  <2>1. CASE k = p
    BY <1>2, <1>5, <1>6, <2>1
  <2>2. CASE k \in heard
    BY <1>3, <1>4, <1>6, <2>2
  <2> QED
    BY <2>1, <2>2
<1> HIDE DEF more
<1>8. Lists(Append(output, line), more)
  BY <1>2, <1>6, <1>7 DEF Lists
<1> QED
  BY <1>8 DEF more

\* With room for both subscribers, ulog_subscribe always finds a slot, and leaves
\* the other subscriber's alone.
LEMMA SubscribeAdds ==
    ASSUME N >= 2, s_subscribers \in Tables, TableInv,
           NEW fn \in Fns, NEW threshold \in Nat, Log!ulog_subscribe(fn, threshold)
    PROVE  \E slot \in Slots :
              /\ s_subscribers' = [s_subscribers EXCEPT ![slot] =
                                      [fn |-> fn, threshold |-> threshold]]
              /\ s_subscribers[slot].fn \in {fn, "NULL"}
              /\ \A other \in Slots : other # slot => s_subscribers[other].fn # fn
<1> DEFINE new == [fn |-> fn, threshold |-> threshold]
<1>1. CASE \E slot \in Log!First(Log!KnownSlots(fn)) :
              s_subscribers' = [s_subscribers EXCEPT ![slot] = new]
  <2>1. PICK slot \in Log!First(Log!KnownSlots(fn)) :
           s_subscribers' = [s_subscribers EXCEPT ![slot] = new]
    BY <1>1
  <2>2. slot \in Slots /\ s_subscribers[slot].fn = fn
    BY <2>1, SlotsAre DEF Log!First, Log!KnownSlots, Log!SlotsOf
  <2>3. fn # "NULL"
    BY DEF Fns
  <2>4. \A other \in Slots : other # slot => s_subscribers[other].fn # fn
    BY <2>2, <2>3 DEF TableInv
  <2> QED
    BY <2>1, <2>2, <2>4
<1>2. CASE Log!KnownSlots(fn) = {} /\ \E slot \in Log!Last(Log!Available) :
              s_subscribers' = [s_subscribers EXCEPT ![slot] = new]
  <2>1. PICK slot \in Log!Last(Log!Available) :
           s_subscribers' = [s_subscribers EXCEPT ![slot] = new]
    BY <1>2
  <2>2. slot \in Slots /\ s_subscribers[slot].fn = "NULL"
    BY <2>1, SlotsAre DEF Log!Last, Log!Available, Log!SlotsOf
  <2>3. \A other \in Slots : s_subscribers[other].fn # fn
    BY <1>2, SlotsAre DEF Log!KnownSlots, Log!SlotsOf
  <2> QED
    BY <2>1, <2>2, <2>3
<1>3. ~ (Log!KnownSlots(fn) = {} /\ Log!Available = {})
  <2> SUFFICES ASSUME Log!KnownSlots(fn) = {}, Log!Available = {}
               PROVE  FALSE
    OBVIOUS
  <2>1. 0 \in Slots /\ 1 \in Slots
    BY SlotsAre DEF Slots
  <2>2. \A slot \in Slots : s_subscribers[slot].fn \notin {fn, "NULL"}
    BY SlotsAre DEF Log!KnownSlots, Log!Available, Log!SlotsOf
  <2>3. \A slot \in Slots : s_subscribers[slot].fn \in Fns \cup {"NULL"}
    BY DEF Tables
  <2>4. s_subscribers[0].fn = s_subscribers[1].fn /\ s_subscribers[0].fn # "NULL"
    BY <2>1, <2>2, <2>3 DEF Fns
  <2> QED
    BY <2>1, <2>4 DEF TableInv
<1> QED
  BY <1>1, <1>2, <1>3 DEF Log!ulog_subscribe

-----------------------------------------------------------------------------
(***************************************************************************)
(* kernel_main's messages, while nothing has interrupted it.                 *)
(***************************************************************************)
InSlot(fn) == \E slot \in Slots : s_subscribers[slot].fn = fn

\* Who has subscribed, and that the serial port is open when it has.
SubscribedInv ==
    /\ InSlot("kernel_log") <=> Done("subscribe kernel_log", pc)
    /\ InSlot("serial_log") <=> Done("subscribe serial_log", pc)
    /\ \A slot \in Slots :
          /\ s_subscribers[slot].fn = "kernel_log" => s_subscribers[slot].threshold = INFO
          /\ s_subscribers[slot].fn = "serial_log" => s_subscribers[slot].threshold = DEBUG
    /\ Done("is_initialized", pc) => is_initialized

\* The dispatch under way is of kernel_main's last effect.
MessageInv ==
    Len(stack) = 1 =>
       /\ pc - 1 \in 1 .. Len(kernel_main) /\ kernel_main[pc - 1].op = "log"
       /\ s_message = Text(0, kernel_main[pc - 1].what)
       /\ Frame.severity = kernel_main[pc - 1].severity
       /\ Frame.fn # "NULL" => Frame.severity >= s_subscribers[Frame.i].threshold

\* The dispatch has passed the slot of fn, so fn has been called or is not to be.
Passed(fn) == \E slot \in Slots : s_subscribers[slot].fn = fn /\ slot < Frame.i

\* How far kernel_main's messages have come on the output of fn.
Reached(fn) == IF Len(stack) = 1 /\ ~ Passed(fn) THEN pc - 1 ELSE pc
Due(fn, level) == Heard(Reached(fn), level)

DeliveredInv ==
    /\ Lists(serial, Due("serial_log", DEBUG))
    /\ Lists(screen, Due("kernel_log", INFO))

BootInv == handlers = << >> => SubscribedInv /\ MessageInv /\ DeliveredInv

LEMMA BootInit == Init => BootInv
<1> SUFFICES ASSUME Init
             PROVE  SubscribedInv /\ MessageInv /\ DeliveredInv
  BY DEF BootInv
<1>1. /\ pc = 1 /\ Len(stack) = 0 /\ serial = << >> /\ screen = << >>
      /\ s_subscribers = [slot \in Slots |-> [fn |-> "NULL", threshold |-> 0]]
  BY EmptySeq, SlotsAre DEF Init, Log!EmptyTable
<1>2. \A l : l \notin 1 .. pc - 1
  BY <1>1
<1>3. SubscribedInv
  BY <1>1, <1>2 DEF SubscribedInv, InSlot, Done
<1>4. \A level : Heard(pc, level) = {}
  BY <1>2 DEF Heard
<1>5. Lists(<< >>, {})
  BY FS_EmptySet, EmptySeq DEF Lists
<1>6. DeliveredInv
  <2>1. \A fn, level : Due(fn, level) = {}
    BY <1>1, <1>4 DEF Due, Reached
  <2> QED
    BY <1>1, <1>5, <2>1 DEF DeliveredInv
<1>7. MessageInv
  BY <1>1 DEF MessageInv
<1> QED
  BY <1>3, <1>6, <1>7

LEMMA DeliveredNext ==
    ASSUME kernel_main' = kernel_main, NEW p, NEW q,
           p = Reached("serial_log")', q = Reached("kernel_log")',
           Lists(serial', Heard(p, DEBUG)), Lists(screen', Heard(q, INFO))
    PROVE  DeliveredInv'
<1>1. Heard(Reached("serial_log"), DEBUG)' = Heard(p, DEBUG)
      /\ Heard(Reached("kernel_log"), INFO)' = Heard(q, INFO)
  BY DEF Heard
<1>2. Lists(serial, Heard(Reached("serial_log"), DEBUG))'
      /\ Lists(screen, Heard(Reached("kernel_log"), INFO))'
  BY <1>1 DEF Lists
<1> QED
  BY <1>2 DEF DeliveredInv, Due

\* kernel_main goes on with an effect that does not log.
LEMMA BootQuietDelivered ==
    ASSUME KInv, BootInv, InBoot, Effect.op \notin {"log", "hcf"}, pc' = pc + 1,
           machine' = machine, handlers' = handlers, Len(stack') = 0,
           serial' = serial, screen' = screen
    PROVE  MessageInv' /\ DeliveredInv'
<1>1. /\ handlers = << >> /\ Len(stack) = 0 /\ kernel_main' = kernel_main
      /\ pc \in 1 .. Len(kernel_main)
  BY BootFacts DEF KInv, TypeInv
<1>2. INFO \in Nat /\ DEBUG \in Nat
  BY DEF INFO, DEBUG
<1>3. \A level \in Nat : Heard(pc + 1, level) = Heard(pc, level)
  BY <1>1, HeardNext DEF Effect
<1>4. \A fn : Reached(fn)' = pc + 1 /\ Reached(fn) = pc
  BY <1>1 DEF Reached
<1>5. Lists(serial, Heard(pc, DEBUG)) /\ Lists(screen, Heard(pc, INFO))
  BY <1>1, <1>4 DEF BootInv, DeliveredInv, Due
<1>6. Lists(serial', Heard(pc + 1, DEBUG)) /\ Lists(screen', Heard(pc + 1, INFO))
  BY <1>2, <1>3, <1>5
<1>7. DeliveredInv'
  BY <1>1, <1>4, <1>6, DeliveredNext
<1> QED
  BY <1>7 DEF MessageInv

LEMMA DoneBoot ==
    ASSUME KInv, InBoot, Effect.op # "hcf", pc' = pc + 1, machine' = machine, handlers' = handlers
    PROVE  \A op : Done(op, pc)' <=> Done(op, pc) \/ Effect.op = op
<1>1. kernel_main' = kernel_main /\ pc \in 1 .. Len(kernel_main)
  BY BootFacts DEF KInv, TypeInv
<1>2. \A op : Done(op, pc)' <=> Done(op, pc + 1)
  BY <1>1 DEF Done
<1> QED
  BY <1>1, <1>2, DoneNext DEF Effect

LEMMA BootQuietBoot ==
    KInv /\ BootInv /\ (BootPrints \/ BootOpensSerial \/ BootLoadsIdt) => BootInv'
<1> SUFFICES ASSUME KInv, BootInv, BootPrints \/ BootOpensSerial \/ BootLoadsIdt
             PROVE  BootInv'
  OBVIOUS
<1>1. /\ InBoot /\ Effect.op \in {"print", "is_initialized", "lidt"} /\ pc' = pc + 1
      /\ s_subscribers' = s_subscribers /\ stack' = stack /\ machine' = machine
      /\ handlers' = handlers /\ serial' = serial /\ screen' = screen
  BY DEF BootPrints, BootOpensSerial, BootLoadsIdt, Step, ulog
<1>2. Effect.op \notin {"log", "hcf"} /\ Effect.op \notin Setup /\ Len(stack') = 0
      /\ handlers = << >>
  BY <1>1, EmptySeq DEF Setup, InBoot
<1>3. MessageInv' /\ DeliveredInv'
  BY <1>1, <1>2, BootQuietDelivered
<1>4. SubscribedInv
  BY <1>2 DEF BootInv
<1>5. /\ Done("subscribe kernel_log", pc)' <=> Done("subscribe kernel_log", pc)
      /\ Done("subscribe serial_log", pc)' <=> Done("subscribe serial_log", pc)
  BY <1>1, <1>2, DoneBoot DEF Setup
<1>6. Done("is_initialized", pc)' => is_initialized'
  <2>1. CASE BootOpensSerial
    BY <2>1 DEF BootOpensSerial
  <2>2. CASE BootPrints \/ BootLoadsIdt
    <3>1. Effect.op # "is_initialized" /\ is_initialized' = is_initialized
      BY <2>2 DEF BootPrints, BootLoadsIdt, Step
    <3>2. Done("is_initialized", pc)' => Done("is_initialized", pc)
      BY <1>1, <1>2, <3>1, DoneBoot
    <3> QED
      BY <1>4, <3>1, <3>2 DEF SubscribedInv
  <2> QED
    BY <2>1, <2>2
<1>7. SubscribedInv'
  BY <1>1, <1>4, <1>5, <1>6 DEF SubscribedInv, InSlot
<1> QED
  BY <1>3, <1>7 DEF BootInv

LEMMA BootUsesUlogBoot == N >= 2 /\ KInv /\ BootInv /\ BootUsesUlog => BootInv'
<1> SUFFICES ASSUME N >= 2, KInv, BootInv, BootUsesUlog
             PROVE  BootInv'
  OBVIOUS
<1>1. /\ InBoot /\ Effect.op \in Setup /\ pc' = pc + 1
      /\ \/ Effect.op = "ulog_init" /\ Log!ulog_init
         \/ Effect.op = "subscribe kernel_log" /\ Log!ulog_subscribe("kernel_log", INFO)
         \/ Effect.op = "subscribe serial_log" /\ Log!ulog_subscribe("serial_log", DEBUG)
      /\ machine' = machine /\ is_initialized' = is_initialized
      /\ handlers' = handlers /\ serial' = serial /\ screen' = screen
  BY DEF BootUsesUlog, Step, Setup
<1>2. Effect.op \notin {"log", "hcf", "is_initialized"} /\ handlers = << >> /\ stack = << >>
  BY <1>1 DEF Setup, InBoot
<1>3. Len(stack') = 0
  <2>1. stack' = [d \in DOMAIN stack |-> stack'[d]] /\ DOMAIN stack' = DOMAIN stack
    BY <1>1 DEF Log!ulog_init, Log!ulog_subscribe, Log!Touch
  <2> QED
    BY <1>2, <2>1
<1>4. MessageInv' /\ DeliveredInv'
  BY <1>1, <1>2, <1>3, BootQuietDelivered
<1>5. SubscribedInv /\ s_subscribers \in Tables /\ TableInv /\ pc \in 1 .. Len(kernel_main)
  BY <1>2 DEF BootInv, KInv, TypeInv
<1>6. \A op : Done(op, pc)' <=> Done(op, pc) \/ Effect.op = op
  BY <1>1, <1>2, DoneBoot
<1>7. Done("is_initialized", pc)' => is_initialized'
  BY <1>1, <1>2, <1>5, <1>6 DEF SubscribedInv
<1>8. CASE Effect.op = "ulog_init" /\ Log!ulog_init
  <2>1. \A slot \in Slots : s_subscribers'[slot].fn = "NULL"
    BY <1>8, SlotsAre DEF Log!ulog_init, Log!EmptyTable
  <2>2. ~ Done("subscribe kernel_log", pc) /\ ~ Done("subscribe serial_log", pc)
    BY <1>5, <1>8, MainOrder DEF Effect
  <2>3. ~ Done("subscribe kernel_log", pc)' /\ ~ Done("subscribe serial_log", pc)'
    BY <1>6, <1>8, <2>2
  <2>4. SubscribedInv'
    BY <1>7, <2>1, <2>3 DEF SubscribedInv, InSlot
  <2> QED
    BY <1>4, <2>4 DEF BootInv
<1>9. CASE Effect.op = "subscribe kernel_log" /\ Log!ulog_subscribe("kernel_log", INFO)
  <2>1. INFO \in Nat /\ "kernel_log" \in Fns
    BY DEF INFO, Fns
  <2>2. PICK slot \in Slots :
            /\ s_subscribers' = [s_subscribers EXCEPT ![slot] =
                                    [fn |-> "kernel_log", threshold |-> INFO]]
            /\ s_subscribers[slot].fn \in {"kernel_log", "NULL"}
            /\ \A other \in Slots : other # slot => s_subscribers[other].fn # "kernel_log"
    BY <1>5, <1>9, <2>1, SubscribeAdds
  <2>3. /\ s_subscribers'[slot].fn = "kernel_log" /\ s_subscribers'[slot].threshold = INFO
        /\ \A other \in Slots : other # slot => s_subscribers'[other] = s_subscribers[other]
    BY <1>5, <2>2 DEF Tables
  <2>4. /\ Done("subscribe kernel_log", pc)'
        /\ Done("subscribe serial_log", pc)' <=> Done("subscribe serial_log", pc)
    BY <1>6, <1>9
  <2>5. SubscribedInv'
    BY <1>5, <1>7, <2>2, <2>3, <2>4 DEF SubscribedInv, InSlot
  <2> QED
    BY <1>4, <2>5 DEF BootInv
<1>10. CASE Effect.op = "subscribe serial_log" /\ Log!ulog_subscribe("serial_log", DEBUG)
  <2>1. DEBUG \in Nat /\ "serial_log" \in Fns
    BY DEF DEBUG, Fns
  <2>2. PICK slot \in Slots :
            /\ s_subscribers' = [s_subscribers EXCEPT ![slot] =
                                    [fn |-> "serial_log", threshold |-> DEBUG]]
            /\ s_subscribers[slot].fn \in {"serial_log", "NULL"}
            /\ \A other \in Slots : other # slot => s_subscribers[other].fn # "serial_log"
    BY <1>5, <1>10, <2>1, SubscribeAdds
  <2>3. /\ s_subscribers'[slot].fn = "serial_log" /\ s_subscribers'[slot].threshold = DEBUG
        /\ \A other \in Slots : other # slot => s_subscribers'[other] = s_subscribers[other]
    BY <1>5, <2>2 DEF Tables
  <2>4. /\ Done("subscribe serial_log", pc)'
        /\ Done("subscribe kernel_log", pc)' <=> Done("subscribe kernel_log", pc)
    BY <1>6, <1>10
  <2>5. SubscribedInv'
    BY <1>5, <1>7, <2>2, <2>3, <2>4 DEF SubscribedInv, InSlot
  <2> QED
    BY <1>4, <2>5 DEF BootInv
<1> QED
  BY <1>1, <1>8, <1>9, <1>10

LEMMA BootLogsBoot == KInv /\ BootInv /\ BootLogs => BootInv'
<1> SUFFICES ASSUME KInv, BootInv, BootLogs
             PROVE  BootInv'
  OBVIOUS
<1>1. /\ InBoot /\ Effect.op = "log" /\ pc' = pc + 1
      /\ Log!ulog_message(Effect.severity, Text(0, Effect.what))
      /\ machine' = machine /\ is_initialized' = is_initialized
      /\ handlers' = handlers /\ serial' = serial /\ screen' = screen
  BY DEF BootLogs, Step
<1>2. /\ handlers = << >> /\ Len(stack) = 0 /\ kernel_main' = kernel_main
      /\ Effect \in Effects /\ pc \in 1 .. Len(kernel_main) /\ pc \in Nat
  BY <1>1, BootFacts, MainEnds DEF KInv, TypeInv
<1>3. /\ s_message' = Text(0, Effect.what) /\ s_subscribers' = s_subscribers
      /\ Len(stack') = 1 /\ Frame'.fn = "NULL" /\ Frame'.i = 0
      /\ Frame'.severity = Effect.severity
  <2>1. Effect.severity \in Severities
    BY <1>1, <1>2, EffectFields
  <2> QED
    BY <1>1, <1>2, <2>1, MessageStep DEF KInv, TypeInv
<1>4. SubscribedInv /\ DeliveredInv
  BY <1>2 DEF BootInv
<1>5. SubscribedInv'
  <2>1. \A op \in Setup \cup {"is_initialized"} : Done(op, pc)' <=> Done(op, pc)
    BY <1>1, DoneBoot DEF Setup
  <2>2. /\ Done("subscribe kernel_log", pc)' <=> Done("subscribe kernel_log", pc)
        /\ Done("subscribe serial_log", pc)' <=> Done("subscribe serial_log", pc)
        /\ Done("is_initialized", pc)' <=> Done("is_initialized", pc)
    BY <2>1 DEF Setup
  <2> QED
    BY <1>1, <1>3, <1>4, <2>2 DEF SubscribedInv, InSlot
<1>6. pc' - 1 = pc
  BY <1>1, <1>2
<1>7. MessageInv'
  BY <1>1, <1>2, <1>3, <1>6 DEF MessageInv, Effect
<1>8. \A fn : Reached(fn)' = pc /\ Reached(fn) = pc
  <2>1. \A slot \in Slots : ~ (slot < 0)
    BY SlotsAre DEF Slots
  <2>2. \A fn : ~ Passed(fn)'
    BY <1>3, <2>1 DEF Passed
  <2> QED
    BY <1>2, <1>3, <1>6, <2>2 DEF Reached
<1>9. DeliveredInv'
  <2>1. Lists(serial, Heard(pc, DEBUG)) /\ Lists(screen, Heard(pc, INFO))
    BY <1>4, <1>8 DEF DeliveredInv, Due
  <2> QED
    BY <1>1, <1>2, <1>8, <2>1, DeliveredNext
<1> QED
  BY <1>5, <1>7, <1>9 DEF BootInv

-----------------------------------------------------------------------------
(***************************************************************************)
(* Who has been called has the message, who is not to be called does not     *)
(* want it.                                                                *)
(***************************************************************************)
\* A dispatch of kernel_main's, and the state it is in.
LEMMA BootDispatch ==
    ASSUME KInv, BootInv, handlers = << >>, Len(stack) > Base
    PROVE  /\ Len(stack) = 1 /\ Base = 0 /\ Depth = 0 /\ stack \in Seq(KFrames)
           /\ s_subscribers \in Tables /\ TableInv
           /\ SubscribedInv /\ MessageInv /\ DeliveredInv
           /\ pc \in 1 .. Len(kernel_main) /\ pc - 1 \in 1 .. Len(kernel_main) /\ pc - 1 + 1 = pc
           /\ kernel_main[pc - 1].op = "log" /\ Frame.severity = kernel_main[pc - 1].severity
           /\ kernel_main[pc - 1].severity \in Severities
<1>1. Base = 0 /\ Depth = 0
  BY EmptySeq DEF Base, Depth
<1>2. Len(stack) = 1 /\ stack \in Seq(KFrames) /\ s_subscribers \in Tables /\ TableInv
  BY <1>1 DEF KInv, DepthInv, TypeInv
<1>3. SubscribedInv /\ MessageInv /\ DeliveredInv
  BY DEF BootInv
<1>4. /\ pc \in 1 .. Len(kernel_main) /\ pc - 1 \in 1 .. Len(kernel_main)
      /\ kernel_main[pc - 1].op = "log" /\ Frame.severity = kernel_main[pc - 1].severity
  BY <1>2, <1>3 DEF MessageInv, KInv, TypeInv
<1>5. kernel_main[pc - 1] \in Effects
  BY <1>4, MainEnds
<1>6. kernel_main[pc - 1].severity \in Severities
  BY <1>4, <1>5, EffectFields
<1>7. pc - 1 + 1 = pc
  BY <1>4, MainEnds
<1> QED
  BY <1>1, <1>2, <1>3, <1>4, <1>6, <1>7

\* The message is one of the output's if the slot wants it.
LEMMA WantedHeard ==
    ASSUME KInv, BootInv, handlers = << >>, Len(stack) > Base,
           NEW fn \in Fns, NEW level \in Nat,
           level = IF fn = "kernel_log" THEN INFO ELSE DEBUG
    PROVE  /\ \A slot \in Slots :
                 s_subscribers[slot].fn = fn =>
                    /\ s_subscribers[slot].threshold = level
                    /\ Frame.severity >= level =>
                          Heard(pc, level) = Heard(pc - 1, level) \cup {pc - 1}
                    /\ ~ (Frame.severity >= level) => Heard(pc, level) = Heard(pc - 1, level)
           /\ ~ InSlot(fn) => Heard(pc, level) = Heard(pc - 1, level)
<1> DEFINE k == pc - 1
           sub == IF fn = "kernel_log" THEN "subscribe kernel_log" ELSE "subscribe serial_log"
<1>1. /\ SubscribedInv /\ k \in 1 .. Len(kernel_main) /\ k + 1 = pc
      /\ kernel_main[k].op = "log" /\ Frame.severity = kernel_main[k].severity
  BY BootDispatch
<1>2. fn = "kernel_log" \/ fn = "serial_log"
  BY DEF Fns
<1>3. /\ InSlot(fn) <=> Done(sub, pc)
      /\ \A slot \in Slots : s_subscribers[slot].fn = fn => s_subscribers[slot].threshold = level
  BY <1>1, <1>2 DEF SubscribedInv
<1> HIDE DEF k
<1>4. Heard(pc, level) = IF Frame.severity >= level /\ Done("ulog_init", k)
                         THEN Heard(k, level) \cup {k} ELSE Heard(k, level)
  BY <1>1, HeardNext
<1>5. Done(sub, pc) <=> Done(sub, k)
  <2>1. kernel_main[k].op # sub
    BY <1>1
  <2> HIDE DEF sub
  <2> QED
    BY <1>1, <2>1, DoneNext
<1>6. Done(sub, k) <=> Done("ulog_init", k)
  BY <1>1, <1>2, MainOrder
<1>7. \A slot \in Slots : s_subscribers[slot].fn = fn => InSlot(fn)
  BY DEF InSlot
<1> HIDE DEF sub
<1> QED
  BY <1>3, <1>4, <1>5, <1>6, <1>7 DEF k

LEMMA DispatchReached ==
    ASSUME KInv, BootInv, Dispatch, handlers = << >>,
           NEW fn \in Fns, NEW level \in Nat,
           level = IF fn = "kernel_log" THEN INFO ELSE DEBUG
    PROVE  Heard(Reached(fn)', level) = Heard(Reached(fn), level)
<1>1. Len(stack) > Base /\ Log!Loop /\ pc' = pc
  BY DEF Dispatch, InDispatch, boot
<1>2. /\ Len(stack) = 1 /\ stack \in Seq(KFrames) /\ s_subscribers \in Tables /\ TableInv
      /\ Frame.i \in 0 .. N /\ N \in Nat
  BY <1>1, BootDispatch, FrameTyped, SlotsAre
<1>3. /\ \A slot \in Slots :
            s_subscribers[slot].fn = fn =>
               /\ s_subscribers[slot].threshold = level
               /\ ~ (Frame.severity >= level) => Heard(pc, level) = Heard(pc - 1, level)
      /\ ~ InSlot(fn) => Heard(pc, level) = Heard(pc - 1, level)
  BY <1>1, WantedHeard
<1>4. /\ s_subscribers' = s_subscribers
      /\ \/ Frame.i = N /\ Len(stack') = Len(stack) - 1
         \/ /\ Len(stack') = Len(stack) /\ Frame.i \in Slots
            /\ \/ Frame'.i = Frame.i
               \/ /\ Frame'.i = Frame.i + 1
                  /\ \/ s_subscribers[Frame.i].fn = "NULL"
                     \/ ~ (Frame.severity >= s_subscribers[Frame.i].threshold)
  BY <1>1, <1>2, LoopCases
<1>5. CASE Frame.i = N /\ Len(stack') = Len(stack) - 1
  <2>1. Reached(fn)' = pc
    BY <1>1, <1>2, <1>5 DEF Reached
  <2>2. InSlot(fn) => Passed(fn)
    <3>1. \A slot \in Slots : slot < N
      BY <1>2 DEF Slots
    <3> QED
      BY <1>5, <3>1 DEF InSlot, Passed
  <2> QED
    BY <1>2, <1>3, <2>1, <2>2 DEF Reached
<1>6. CASE Len(stack') = Len(stack) /\ Frame'.i = Frame.i
  BY <1>1, <1>2, <1>4, <1>6 DEF Reached, Passed
<1>7. CASE /\ Len(stack') = Len(stack) /\ Frame.i \in Slots /\ Frame'.i = Frame.i + 1
           /\ \/ s_subscribers[Frame.i].fn = "NULL"
              \/ ~ (Frame.severity >= s_subscribers[Frame.i].threshold)
  <2>1. \A slot \in Slots : slot < Frame'.i <=> slot < Frame.i \/ slot = Frame.i
    BY <1>2, <1>7 DEF Slots
  <2>2. CASE s_subscribers[Frame.i].fn # fn
    <3>1. Passed(fn)' <=> Passed(fn)
      BY <1>4, <2>1, <2>2 DEF Passed
    <3> QED
      BY <1>1, <1>7, <3>1 DEF Reached
  <2>3. CASE s_subscribers[Frame.i].fn = fn
    <3>1. fn # "NULL"
      BY DEF Fns
    <3>2. Heard(pc, level) = Heard(pc - 1, level)
      BY <1>3, <1>7, <2>3, <3>1
    <3> QED
      BY <1>1, <3>2 DEF Reached
  <2> QED
    BY <2>2, <2>3
<1> QED
  BY <1>4, <1>5, <1>6, <1>7

LEMMA DispatchBoot == KInv /\ BootInv /\ Dispatch => BootInv'
<1> SUFFICES ASSUME KInv, BootInv, Dispatch, handlers' = << >>
             PROVE  SubscribedInv' /\ MessageInv' /\ DeliveredInv'
  BY DEF BootInv
<1>1. /\ Len(stack) > Base /\ Log!Loop /\ pc' = pc /\ machine' = machine
      /\ is_initialized' = is_initialized
      /\ handlers = << >> /\ serial' = serial /\ screen' = screen
  BY DEF Dispatch, InDispatch, boot
<1>2. /\ Len(stack) = 1 /\ stack \in Seq(KFrames) /\ s_subscribers \in Tables
      /\ SubscribedInv /\ MessageInv /\ DeliveredInv
  BY <1>1, BootDispatch
<1>3. /\ s_message' = s_message /\ s_subscribers' = s_subscribers
      /\ \/ Len(stack') = Len(stack) - 1
         \/ /\ Len(stack') = Len(stack) /\ Frame'.severity = Frame.severity
            /\ \/ /\ Frame'.i = Frame.i /\ Frame'.fn = s_subscribers[Frame.i].fn
                  /\ Frame.severity >= s_subscribers[Frame.i].threshold
               \/ Frame'.fn = "NULL"
  BY <1>1, <1>2, LoopCases
<1>4. kernel_main' = kernel_main
  BY <1>1, MainSame
<1>5. \A op : Done(op, pc)' <=> Done(op, pc)
  BY <1>1, <1>4 DEF Done
<1>6. SubscribedInv'
  BY <1>1, <1>2, <1>3, <1>5 DEF SubscribedInv, InSlot
<1>7. MessageInv'
  <2> SUFFICES ASSUME Len(stack') = 1
               PROVE  /\ Frame'.severity = Frame.severity
                      /\ Frame'.fn # "NULL" => Frame'.severity >= s_subscribers'[Frame'.i].threshold
    BY <1>1, <1>2, <1>3, <1>4 DEF MessageInv
  <2> QED
    BY <1>2, <1>3
<1>8. DeliveredInv'
  <2>1. /\ INFO \in Nat /\ DEBUG \in Nat /\ "kernel_log" \in Fns /\ "serial_log" \in Fns
    BY DEF INFO, DEBUG, Fns
  <2>2. /\ Heard(Reached("serial_log")', DEBUG) = Heard(Reached("serial_log"), DEBUG)
        /\ Heard(Reached("kernel_log")', INFO) = Heard(Reached("kernel_log"), INFO)
    BY <1>1, <2>1, DispatchReached
  <2>3. /\ Lists(serial', Heard(Reached("serial_log")', DEBUG))
        /\ Lists(screen', Heard(Reached("kernel_log")', INFO))
    BY <1>1, <1>2, <2>2 DEF DeliveredInv, Due
  <2> QED
    BY <1>4, <2>3, DeliveredNext
<1> QED
  BY <1>6, <1>7, <1>8

\* The output of the subscriber that returns has the message, the other's has
\* not changed.
LEMMA ReturnReached ==
    ASSUME KInv, BootInv, NEW g \in Fns, In(g), Log!SubscriberReturns, handlers = << >>, pc' = pc,
           NEW fn \in Fns, NEW level \in Nat,
           level = IF fn = "kernel_log" THEN INFO ELSE DEBUG
    PROVE  /\ fn = g => /\ Reached(fn) = pc - 1 /\ Reached(fn)' = pc
                        /\ Heard(pc, level) = Heard(pc - 1, level) \cup {pc - 1}
           /\ fn # g => Reached(fn)' = Reached(fn)
<1>1. Len(stack) > Base
  BY DEF In, InDispatch
<1>2. /\ Len(stack) = 1 /\ stack \in Seq(KFrames) /\ TableInv /\ MessageInv
      /\ Frame.i \in 0 .. N /\ N \in Nat /\ Frame = Log!Top
  BY <1>1, BootDispatch, FrameTyped, SlotsAre
<1>3. Frame.i \in Slots /\ s_subscribers[Frame.i].fn = g
  BY InSubscriber
<1>4. /\ s_subscribers' = s_subscribers /\ Len(stack') = Len(stack) /\ Frame'.i = Frame.i + 1
  BY <1>2, <1>3, ReturnStep
<1>5. \A slot \in Slots : slot < Frame'.i <=> slot < Frame.i \/ slot = Frame.i
  BY <1>2, <1>4 DEF Slots
<1>6. CASE fn # g
  <2>1. Passed(fn)' <=> Passed(fn)
    BY <1>3, <1>4, <1>5, <1>6 DEF Passed
  <2> QED
    BY <1>4, <1>6, <2>1 DEF Reached
<1>7. CASE fn = g
  <2>1. Passed(fn)'
    BY <1>3, <1>4, <1>5, <1>7 DEF Passed
  <2>2. ~ Passed(fn)
    <3>1. fn # "NULL"
      BY DEF Fns
    <3>2. \A slot \in Slots : s_subscribers[slot].fn = fn => slot = Frame.i
      BY <1>2, <1>3, <1>7, <3>1 DEF TableInv
    <3>3. ~ (Frame.i < Frame.i)
      BY <1>2
    <3> QED
      BY <3>2, <3>3 DEF Passed
  <2>3. Frame.severity >= s_subscribers[Frame.i].threshold
    <3>1. Frame.fn = g /\ g # "NULL"
      BY <1>2 DEF In, Fns
    <3> QED
      BY <1>2, <3>1 DEF MessageInv
  <2>4. Heard(pc, level) = Heard(pc - 1, level) \cup {pc - 1}
    BY <1>1, <1>3, <1>7, <2>3, WantedHeard
  <2> QED
    BY <1>2, <1>4, <1>7, <2>1, <2>2, <2>4 DEF Reached
<1> QED
  BY <1>6, <1>7

LEMMA ReturnMessage ==
    ASSUME KInv, BootInv, NEW g \in Fns, In(g), Log!SubscriberReturns, handlers = << >>,
           pc' = pc, machine' = machine, is_initialized' = is_initialized
    PROVE  SubscribedInv' /\ MessageInv' /\ kernel_main' = kernel_main
<1>1. Len(stack) > Base
  BY DEF In, InDispatch
<1>2. Len(stack) = 1 /\ stack \in Seq(KFrames) /\ SubscribedInv /\ MessageInv
  BY <1>1, BootDispatch
<1>3. Frame.i \in Slots
  BY InSubscriber
<1>4. /\ s_message' = s_message /\ s_subscribers' = s_subscribers
      /\ Frame'.fn = "NULL" /\ Frame'.severity = Frame.severity
  BY <1>2, <1>3, ReturnStep
<1>5. kernel_main' = kernel_main
  BY MainSame
<1>6. \A op : Done(op, pc)' <=> Done(op, pc)
  BY <1>5 DEF Done
<1>7. SubscribedInv'
  BY <1>2, <1>4, <1>6 DEF SubscribedInv, InSlot
<1>8. MessageInv'
  BY <1>2, <1>4, <1>5 DEF MessageInv
<1> QED
  BY <1>5, <1>7, <1>8

\* Who writes the message has all of them.
LEMMA OneMoreLine ==
    ASSUME KInv, BootInv, handlers = << >>, Len(stack) > Base, NEW level \in Nat,
           NEW output \in Seq(Lines), Lists(output, Heard(pc - 1, level)),
           Heard(pc, level) = Heard(pc - 1, level) \cup {pc - 1}
    PROVE  Lists(Append(output, s_message), Heard(pc, level))
<1> DEFINE k == pc - 1
           heard == Heard(k, level)
<1>1. k \in 1 .. Len(kernel_main) /\ s_message = Text(0, kernel_main[k].what)
  BY BootDispatch DEF MessageInv
<1>2. k \in Nat /\ s_message \in Lines
  BY <1>1, MainEnds DEF KInv, TypeInv
<1>3. heard \subseteq 1 .. k - 1
  BY <1>1, HeardNext
<1>4. Lists(output, heard) /\ Heard(pc, level) = heard \cup {k}
  OBVIOUS
<1> HIDE DEF k, heard
<1>5. Lists(Append(output, s_message), heard \cup {k})
  BY <1>1, <1>2, <1>3, <1>4, ListsMore, Zenon
<1> QED
  BY <1>4, <1>5

LEMMA SerialLogBoot == KInv /\ BootInv /\ serial_log => BootInv'
<1> SUFFICES ASSUME KInv, BootInv, serial_log, handlers' = << >>
             PROVE  SubscribedInv' /\ MessageInv' /\ DeliveredInv'
  BY DEF BootInv
<1>1. /\ In("serial_log") /\ Log!SubscriberReturns /\ handlers = << >>
      /\ pc' = pc /\ machine' = machine /\ is_initialized' = is_initialized
      /\ serial' = IF is_initialized THEN Append(serial, s_message) ELSE serial
      /\ screen' = screen
  BY DEF serial_log, boot
<1>2. INFO \in Nat /\ DEBUG \in Nat /\ "kernel_log" \in Fns /\ "serial_log" \in Fns
  BY DEF INFO, DEBUG, Fns
<1>3. Len(stack) > Base
  BY <1>1 DEF In, InDispatch
<1>4. /\ SubscribedInv /\ DeliveredInv /\ pc \in 1 .. Len(kernel_main) /\ serial \in Seq(Lines)
  BY <1>1, <1>3, BootDispatch DEF KInv, TypeInv, Past
<1>5. SubscribedInv' /\ MessageInv' /\ kernel_main' = kernel_main
  BY <1>1, <1>2, ReturnMessage
<1>6. is_initialized
  <2>1. InSlot("serial_log")
    BY <1>1, <1>2, InSubscriber DEF InSlot
  <2> QED
    BY <1>4, <2>1, MainOrder DEF SubscribedInv
<1>7. /\ Reached("serial_log") = pc - 1 /\ Reached("serial_log")' = pc
      /\ Heard(pc, DEBUG) = Heard(pc - 1, DEBUG) \cup {pc - 1}
      /\ Reached("kernel_log")' = Reached("kernel_log")
  BY <1>1, <1>2, ReturnReached
<1>8. Lists(serial, Heard(pc - 1, DEBUG)) /\ Lists(screen, Heard(Reached("kernel_log"), INFO))
  BY <1>4, <1>7 DEF DeliveredInv, Due
<1>9. Lists(serial', Heard(pc, DEBUG))
  BY <1>1, <1>2, <1>3, <1>4, <1>6, <1>7, <1>8, OneMoreLine
<1>10. DeliveredInv'
  BY <1>1, <1>5, <1>7, <1>8, <1>9, DeliveredNext
<1> QED
  BY <1>5, <1>10

LEMMA KernelLogBoot == KInv /\ BootInv /\ kernel_log => BootInv'
<1> SUFFICES ASSUME KInv, BootInv, kernel_log, handlers' = << >>
             PROVE  SubscribedInv' /\ MessageInv' /\ DeliveredInv'
  BY DEF BootInv
<1>1. /\ In("kernel_log") /\ Log!SubscriberReturns /\ handlers = << >>
      /\ pc' = pc /\ machine' = machine /\ is_initialized' = is_initialized
      /\ screen' = Append(screen, s_message) /\ serial' = serial
  BY DEF kernel_log, boot
<1>2. INFO \in Nat /\ DEBUG \in Nat /\ "kernel_log" \in Fns /\ "serial_log" \in Fns
  BY DEF INFO, DEBUG, Fns
<1>3. Len(stack) > Base
  BY <1>1 DEF In, InDispatch
<1>4. DeliveredInv /\ screen \in Seq(Lines)
  BY <1>1, <1>3, BootDispatch DEF KInv, TypeInv, Past
<1>5. SubscribedInv' /\ MessageInv' /\ kernel_main' = kernel_main
  BY <1>1, <1>2, ReturnMessage
<1>6. /\ Reached("kernel_log") = pc - 1 /\ Reached("kernel_log")' = pc
      /\ Heard(pc, INFO) = Heard(pc - 1, INFO) \cup {pc - 1}
      /\ Reached("serial_log")' = Reached("serial_log")
  BY <1>1, <1>2, ReturnReached
<1>7. Lists(screen, Heard(pc - 1, INFO)) /\ Lists(serial, Heard(Reached("serial_log"), DEBUG))
  BY <1>4, <1>6 DEF DeliveredInv, Due
<1>8. Lists(screen', Heard(pc, INFO))
  BY <1>1, <1>2, <1>3, <1>4, <1>6, <1>7, OneMoreLine
<1>9. DeliveredInv'
  BY <1>1, <1>5, <1>6, <1>7, <1>8, DeliveredNext
<1> QED
  BY <1>5, <1>9

-----------------------------------------------------------------------------
(***************************************************************************)
(* An exception ends it.                                                   *)
(***************************************************************************)
LEMMA SameBoot ==
    ASSUME BootInv, machine' = machine, boot' = boot, s_subscribers' = s_subscribers,
           s_message' = s_message, stack' = stack, handlers' = handlers,
           serial' = serial, screen' = screen
    PROVE  BootInv'
<1> SUFFICES ASSUME handlers' = << >>
             PROVE  SubscribedInv' /\ MessageInv' /\ DeliveredInv'
  BY DEF BootInv
<1>1. SubscribedInv /\ MessageInv /\ DeliveredInv
  BY DEF BootInv
<1>2. kernel_main' = kernel_main /\ pc' = pc /\ is_initialized' = is_initialized
  BY MainSame DEF boot
<1>3. \A op : Done(op, pc)' <=> Done(op, pc)
  BY <1>2 DEF Done
<1>4. SubscribedInv'
  BY <1>1, <1>2, <1>3 DEF SubscribedInv, InSlot
<1>5. MessageInv'
  BY <1>1, <1>2 DEF MessageInv, Frame
<1>6. \A fn : Reached(fn)' = Reached(fn)
  BY <1>2 DEF Reached, Passed, Frame
<1>7. DeliveredInv'
  BY <1>1, <1>2, <1>6, DeliveredNext DEF DeliveredInv, Due
<1> QED
  BY <1>4, <1>5, <1>7

LEMMA RaiseBoot ==
    ASSUME KInv, BootInv, NEW vector, NEW cause, Raise(vector, cause)
    PROVE  BootInv'
<1>1. CASE idt_loaded /\ Len(handlers) < MAX_HANDLERS
  <2> DEFINE h == [vector |-> vector, cause |-> cause, base |-> Len(stack),
                   error_code |-> Word(vector, "error_code"),
                   reports |-> Reports(vector_number(vector))]
  <2>1. handlers' = Append(handlers, h) /\ handlers \in Seq(KHandlers)
    BY <1>1 DEF Raise, KInv, TypeInv
  <2> HIDE DEF h
  <2>2. Len(Append(handlers, h)) = Len(handlers) + 1 /\ Len(handlers) \in Nat
    BY <2>1
  <2>3. handlers' # << >>
    BY <2>1, <2>2, EmptySeq
  <2> QED
    BY <2>3 DEF BootInv
<1>2. CASE ~(idt_loaded /\ Len(handlers) < MAX_HANDLERS)
  <2>1. UNCHANGED <<machine, boot, ulog, handlers, serial, screen>>
    BY <1>2 DEF Raise
  <2> QED
    BY <2>1, SameBoot DEF ulog
<1> QED
  BY <1>1, <1>2

LEMMA HandlerReportsBoot == KInv /\ HandlerReports => BootInv'
<1> SUFFICES ASSUME KInv, HandlerReports
             PROVE  handlers' # << >>
  BY DEF BootInv
<1>1. handlers # << >> /\ handlers \in Seq(KHandlers) /\ DOMAIN handlers' = DOMAIN handlers
  BY DEF HandlerReports, InHandler, KInv, TypeInv
<1>2. Len(handlers) \in Nat /\ Len(handlers) # 0
  BY <1>1, EmptySeq
<1>3. 1 \in DOMAIN handlers'
  BY <1>1, <1>2
<1> QED
  BY <1>3

LEMMA BootStep == N >= 2 /\ KInv /\ BootInv /\ [Next]_vars => BootInv'
<1> SUFFICES ASSUME N >= 2, KInv, BootInv, [Next]_vars
             PROVE  BootInv'
  OBVIOUS
<1>1. CASE BootLogs
  BY <1>1, BootLogsBoot
<1>2. CASE BootPrints \/ BootOpensSerial \/ BootLoadsIdt
  BY <1>2, BootQuietBoot
<1>3. CASE BootUsesUlog
  BY <1>3, BootUsesUlogBoot
<1>4. CASE Dispatch
  BY <1>4, DispatchBoot
<1>5. CASE serial_log
  BY <1>5, SerialLogBoot
<1>6. CASE kernel_log
  BY <1>6, KernelLogBoot
<1>7. CASE HandlerReports
  BY <1>7, HandlerReportsBoot
<1>8. ASSUME NEW vector \in Vectors, Strike(vector)
      PROVE  BootInv'
  BY <1>8, RaiseBoot DEF Strike
<1>9. CASE TerminalFault
  BY <1>9, RaiseBoot DEF TerminalFault
<1>10. CASE UNCHANGED vars
  BY <1>10, SameBoot DEF vars, ulog
<1> QED
  BY <1>1, <1>2, <1>3, <1>4, <1>5, <1>6, <1>7, <1>8, <1>9, <1>10 DEF Next, Progress

\* If the table has room for both subscribers (ulog.h has six slots), no message
\* of kernel_main since log_initialize is lost, repeated or out of order: the
\* serial line has them all, and the terminal those that are INFO or more.
THEOREM OutputsAreComplete ==
    ULOG_MAX_SUBSCRIBERS >= 2 => (Spec => []OutputsComplete)
<1> SUFFICES ASSUME ULOG_MAX_SUBSCRIBERS >= 2
             PROVE  Spec => []OutputsComplete
  OBVIOUS
<1>1. Init => KInv /\ BootInv
  BY KernelInit, BootInit
<1>2. KInv /\ BootInv /\ [Next]_vars => (KInv /\ BootInv)'
  BY KernelStep, BootStep DEF N
<1>3. KInv /\ BootInv => OutputsComplete
  <2> SUFFICES ASSUME KInv, BootInv, InBoot
               PROVE  Lists(serial, Heard(pc, DEBUG)) /\ Lists(screen, Heard(pc, INFO))
    BY DEF OutputsComplete
  <2>1. handlers = << >> /\ Len(stack) = 0
    BY EmptySeq DEF InBoot
  <2>2. \A fn : Reached(fn) = pc
    BY <2>1 DEF Reached
  <2> QED
    BY <2>1, <2>2 DEF BootInv, DeliveredInv, Due
<1> QED
  BY <1>1, <1>2, <1>3, PTL DEF Spec
=============================================================================
