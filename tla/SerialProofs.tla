---------------------------- MODULE SerialProofs -----------------------------
(***************************************************************************)
(* Proofs about Serial, for all texts, divisors, queues and numbers of calls. *)
(* The invariant relates what is left of serial_initialize's port writes to    *)
(* the state of the port: which of them has the divisor latch open, and from   *)
(* which on the latch holds the divisor.  An exception that leaves it open      *)
(* leaves is_initialized FALSE, too, so that nothing is written to it.         *)
(***************************************************************************)
EXTENDS Serial, SequenceTheorems, TLAPS

Latch == 0 .. BYTE - 1
Uarts == [lcr : {"8N1", "DLAB"}, lower : Latch, upper : UpperLatches, fifo : Seq(Bytes)]
Writes == {Setup[k] : k \in 1 .. 6}

TypeInv ==
    /\ uart \in Uarts
    /\ line \in Seq(Bytes) /\ buf \in Seq(Bytes)
    /\ is_initialized \in BOOLEAN /\ ready \in BOOLEAN /\ in_handler \in BOOLEAN
    /\ calls \in 0 .. MAX_CALLS
    /\ setup \in Seq(Writes)

\* What serial_initialize has yet to write, and what it has achieved.
SetupInv ==
    /\ Len(setup) \in 0 .. 6
    /\ \A k \in 1 .. Len(setup) : setup[k] = Setup[6 - Len(setup) + k]
    /\ setup # << >> => ~ is_initialized /\ buf = << >> /\ ~ ready
    /\ Len(setup) \in 2 .. 5 => uart.lcr = "DLAB"
    /\ Len(setup) \in {1, 6} => uart.lcr = "8N1"
    /\ setup = << >> /\ ~ in_handler => uart.lcr = "8N1"
    /\ Len(setup) \in 1 .. 3 => uart.lower = DIVISOR % BYTE

\* serial_write is in its loops only on a port that has been set up.
WriteInv ==
    /\ is_initialized => uart.lcr = "8N1" /\ uart.lower = DIVISOR % BYTE
    /\ buf # << >> => is_initialized
    /\ ready => buf # << >> /\ uart.fifo = << >>
    /\ Len(uart.fifo) <= 1

IInv == TypeInv /\ SetupInv /\ WriteInv /\ TextKept

\* The six port writes of serial_initialize.
LEMMA SetupIs ==
    /\ Len(Setup) = 6 /\ Setup \in Seq(Writes)
    /\ Setup[1] = Out("line command", "DLAB")
    /\ Setup[2] = Out("data", DIVISOR \div BYTE)
    /\ Setup[3] = Out("data", DIVISOR % BYTE)
    /\ Setup[4] = Out("fifo command", "enable, clear")
    /\ Setup[5] = Out("line command", "8N1")
    /\ Setup[6] = Out("modem command", "RTS, DTR")
<1> DEFINE a == Out("line command", "DLAB")
           b == Out("data", DIVISOR \div BYTE)
           c == Out("data", DIVISOR % BYTE)
           d == Out("fifo command", "enable, clear")
           e == Out("line command", "8N1")
           f == Out("modem command", "RTS, DTR")
<1> HIDE DEF a, b, c, d, e, f
<1>1. Setup = <<a, b, c>> \o <<d, e, f>>
  BY DEF Setup, serial_configure_baud_rate, a, b, c, d, e, f
<1>2. Len(Setup) = 6 /\ Setup[1] = a /\ Setup[2] = b /\ Setup[3] = c
      /\ Setup[4] = d /\ Setup[5] = e /\ Setup[6] = f
  BY <1>1
<1>3. a \in Writes /\ b \in Writes /\ c \in Writes /\ d \in Writes /\ e \in Writes /\ f \in Writes
  BY <1>2 DEF Writes
<1>4. Setup \in Seq(Writes)
  BY <1>1, <1>3
<1> QED
  BY <1>2, <1>4 DEF a, b, c, d, e, f

LEMMA SixAreSome ==
    ASSUME NEW s, Len(s) = 6
    PROVE  s # << >>
  OBVIOUS

LEMMA OutFields ==
    ASSUME NEW port, NEW val, NEW write, write = Out(port, val)
    PROVE  write.port = port /\ write.val = val
  BY DEF Out

\* The latch can hold both bytes of the divisor.
LEMMA DivisorBytes ==
    /\ DIVISOR \div BYTE \in Latch /\ DIVISOR % BYTE \in Latch
    /\ DIVISOR = (DIVISOR \div BYTE) * BYTE + (DIVISOR % BYTE)
<1>1. BYTE * BYTE - 1 = 65535
  BY DEF BYTE
<1>2. DIVISOR \in Nat /\ DIVISOR < 65536
  BY <1>1, DivisorAssumption
<1>3. /\ DIVISOR = (DIVISOR \div 256) * 256 + (DIVISOR % 256)
      /\ DIVISOR \div 256 \in 0 .. 255 /\ DIVISOR % 256 \in 0 .. 255
  BY <1>2
<1> QED
  BY <1>3 DEF BYTE, Latch

\* What a port write changes in the port, and what it leaves alone.
LEMMA LineControlWritten ==
    ASSUME NEW u \in Uarts, NEW b \in {"8N1", "DLAB"}, NEW v, v = [u EXCEPT !.lcr = b]
    PROVE  v \in Uarts /\ v.lcr = b /\ v.lower = u.lower /\ v.upper = u.upper /\ v.fifo = u.fifo
  BY DEF Uarts
LEMMA LatchWritten ==
    ASSUME NEW u \in Uarts, NEW x \in Latch, NEW v, v = [u EXCEPT !.lower = x]
    PROVE  v \in Uarts /\ v.lcr = u.lcr /\ v.lower = x /\ v.upper = u.upper /\ v.fifo = u.fifo
  BY DEF Uarts
WithQueue(u, q) == [u EXCEPT !.fifo = q]
LEMMA QueueWritten ==
    ASSUME NEW u \in Uarts, NEW q \in Seq(Bytes)
    PROVE  /\ WithQueue(u, q) \in Uarts
           /\ WithQueue(u, q).lcr = u.lcr /\ WithQueue(u, q).lower = u.lower
           /\ WithQueue(u, q).upper = u.upper /\ WithQueue(u, q).fifo = q
  BY DEF Uarts, WithQueue

\* A byte moves from the queue to the line.
LEMMA ByteMoves ==
    ASSUME NEW S, NEW s \in Seq(S), NEW q \in Seq(S), q # << >>
    PROVE  Append(s, Head(q)) \o Tail(q) = s \o q
<1>1. Head(q) \in S /\ Tail(q) \in Seq(S) /\ <<Head(q)>> \in Seq(S)
  BY HeadTailProperties
<1>2. Append(s, Head(q)) = s \o <<Head(q)>>
  BY <1>1, AppendIsConcat
<1>3. (s \o <<Head(q)>>) \o Tail(q) = s \o (<<Head(q)>> \o Tail(q))
  BY <1>1, ConcatAssociative
<1>4. <<Head(q)>> \o Tail(q) = q
  BY <1>1
<1> QED
  BY <1>2, <1>3, <1>4

\* A byte that is appended to the queue is appended to the whole.
LEMMA ByteJoins ==
    ASSUME NEW S, NEW s \in Seq(S), NEW x \in S
    PROVE  s \o Append(<< >>, x) = Append(s \o << >>, x)
  BY AppendIsConcat, ConcatEmptySeq

LEMMA LastByte ==
    ASSUME NEW S, NEW q \in Seq(S), q # << >>, Len(q) <= 1
    PROVE  /\ Head(q) \in S /\ Tail(q) = << >>
           /\ Tail(q) \in Seq(S) /\ Len(Tail(q)) <= 1
<1>1. Len(q) \in Nat /\ Len(q) # 0
  OBVIOUS
<1>2. Head(q) \in S /\ Tail(q) \in Seq(S) /\ Len(Tail(q)) = 0
  BY <1>1, HeadTailProperties
<1>3. \A s \in Seq(S) : Len(s) = 0 => s = << >>
  OBVIOUS
<1> QED
  BY <1>2, <1>3

LEMMA InitIInv == Init => IInv
<1> SUFFICES ASSUME Init PROVE IInv
  OBVIOUS
<1>1. uart \in Uarts
      /\ uart.lcr = "8N1" /\ uart.fifo = << >>
  <2>1. PICK lo \in {1, 12}, up \in UpperLatches :
           uart = [lcr |-> "8N1", lower |-> lo, upper |-> up, fifo |-> << >>]
    BY DEF Init
  <2>2. "8N1" \in {"8N1", "DLAB"} /\ lo \in Latch /\ << >> \in Seq(Bytes)
    BY DEF Latch, BYTE
  <2> QED
    BY <2>1, <2>2 DEF Uarts
<1>2. TypeInv
  <2>1. is_initialized \in BOOLEAN /\ ready \in BOOLEAN /\ in_handler \in BOOLEAN
    BY Zenon DEF Init
  <2>2. line \in Seq(Bytes) /\ buf \in Seq(Bytes) /\ setup \in Seq(Writes)
        /\ calls \in 0 .. MAX_CALLS
    BY CallsAssumption DEF Init
  <2> QED
    BY <1>1, <2>1, <2>2 DEF TypeInv
<1>3. SetupInv
  BY <1>1 DEF Init, SetupInv
<1>4. WriteInv
  BY <1>1 DEF Init, WriteInv
<1>5. TextKept
  BY <1>1 DEF Init, TextKept
<1> QED
  BY <1>2, <1>3, <1>4, <1>5 DEF IInv

-----------------------------------------------------------------------------
\* The port write that comes next, by the number of those that are left.
LEMMA NextWrite ==
    ASSUME TypeInv, SetupInv, setup # << >>
    PROVE  /\ Len(setup) \in 1 .. 6
           /\ Head(setup) = Setup[7 - Len(setup)]
           /\ Tail(setup) \in Seq(Writes)
           /\ Len(Tail(setup)) = Len(setup) - 1
           /\ \A k \in 1 .. Len(Tail(setup)) :
                 Tail(setup)[k] = Setup[6 - Len(Tail(setup)) + k]
<1>1. setup \in Seq(Writes) /\ Len(setup) \in 1 .. 6
  BY EmptySeq DEF TypeInv, SetupInv
<1>2. Head(setup) = setup[1] /\ Tail(setup) \in Seq(Writes) /\ Len(Tail(setup)) = Len(setup) - 1
  BY <1>1, HeadTailProperties
<1>3. \A k \in 1 .. Len(Tail(setup)) : Tail(setup)[k] = setup[k + 1]
  BY <1>1, <1>2, HeadTailProperties
<1>4. setup[1] = Setup[7 - Len(setup)]
  BY <1>1 DEF SetupInv
<1>5. ASSUME NEW k \in 1 .. Len(Tail(setup))
      PROVE  Tail(setup)[k] = Setup[6 - Len(Tail(setup)) + k]
  <2>1. k + 1 \in 1 .. Len(setup) /\ 6 - Len(setup) + (k + 1) = 6 - Len(Tail(setup)) + k
    BY <1>1, <1>2
  <2> QED
    BY <2>1, <1>3 DEF SetupInv
<1> QED
  BY <1>1, <1>2, <1>4, <1>5

\* Tail of a sequence whose length is 1 is empty, of a longer one is not.
LEMMA LastWrite ==
    ASSUME TypeInv, SetupInv, setup # << >>
    PROVE  Tail(setup) = << >> <=> Len(setup) = 1
  BY NextWrite, EmptySeq

LEMMA StepsOfSetup ==
    ASSUME IInv, SetupStep
    PROVE  IInv'
<1> USE DEF IInv
<1>1. /\ uart \in Uarts
      /\ setup # << >> /\ is_initialized = FALSE /\ buf = << >> /\ ready = FALSE
      /\ setup' = Tail(setup)
      /\ UNCHANGED <<line, buf, ready, in_handler, calls>>
  BY DEF SetupStep, TypeInv, SetupInv
<1> DEFINE n == Len(setup)
<1>2. /\ n \in 1 .. 6 /\ Len(setup') = n - 1 /\ setup' \in Seq(Writes)
      /\ \A k \in 1 .. Len(setup') : setup'[k] = Setup[6 - Len(setup') + k]
      /\ Head(setup) = Setup[7 - n]
      /\ setup' = << >> <=> n = 1
  BY <1>1, NextWrite, LastWrite
<1> HIDE DEF n
<1>3. is_initialized' \in BOOLEAN /\ (is_initialized' <=> n = 1)
  BY <1>1, <1>2, Zenon DEF SetupStep
<1>4. /\ n = 6 => Head(setup).port = "line command" /\ Head(setup).val = "DLAB"
      /\ n = 5 => Head(setup).port = "data" /\ Head(setup).val = DIVISOR \div BYTE
      /\ n = 4 => Head(setup).port = "data" /\ Head(setup).val = DIVISOR % BYTE
      /\ n = 3 => Head(setup).port = "fifo command"
      /\ n = 2 => Head(setup).port = "line command" /\ Head(setup).val = "8N1"
      /\ n = 1 => Head(setup).port = "modem command"
  <2>1. /\ n = 6 => Head(setup) = Out("line command", "DLAB")
        /\ n = 5 => Head(setup) = Out("data", DIVISOR \div BYTE)
        /\ n = 4 => Head(setup) = Out("data", DIVISOR % BYTE)
        /\ n = 3 => Head(setup) = Out("fifo command", "enable, clear")
        /\ n = 2 => Head(setup) = Out("line command", "8N1")
        /\ n = 1 => Head(setup) = Out("modem command", "RTS, DTR")
    <3>1. n \in 1 .. 6 /\ Head(setup) = Setup[7 - n]
      BY <1>2
    <3>2. /\ n = 6 => 7 - n = 1
          /\ n = 5 => 7 - n = 2
          /\ n = 4 => 7 - n = 3
          /\ n = 3 => 7 - n = 4
          /\ n = 2 => 7 - n = 5
          /\ n = 1 => 7 - n = 6
      BY <3>1
    <3> QED
      BY <3>1, <3>2, SetupIs, Zenon
  <2> QED
    <3>1. ASSUME n = 6
          PROVE  Head(setup).port = "line command" /\ Head(setup).val = "DLAB"
      <4>1. Head(setup) = Out("line command", "DLAB")
        BY <2>1, <3>1, Zenon
      <4> QED
        BY <4>1, OutFields, Zenon
    <3>2. ASSUME n = 5
          PROVE  Head(setup).port = "data" /\ Head(setup).val = DIVISOR \div BYTE
      <4>1. Head(setup) = Out("data", DIVISOR \div BYTE)
        BY <2>1, <3>2, Zenon
      <4> QED
        BY <4>1, OutFields, Zenon
    <3>3. ASSUME n = 4
          PROVE  Head(setup).port = "data" /\ Head(setup).val = DIVISOR % BYTE
      <4>1. Head(setup) = Out("data", DIVISOR % BYTE)
        BY <2>1, <3>3, Zenon
      <4> QED
        BY <4>1, OutFields, Zenon
    <3>4. ASSUME n = 3
          PROVE  Head(setup).port = "fifo command"
      <4>1. Head(setup) = Out("fifo command", "enable, clear")
        BY <2>1, <3>4, Zenon
      <4> QED
        BY <4>1, OutFields, Zenon
    <3>5. ASSUME n = 2
          PROVE  Head(setup).port = "line command" /\ Head(setup).val = "8N1"
      <4>1. Head(setup) = Out("line command", "8N1")
        BY <2>1, <3>5, Zenon
      <4> QED
        BY <4>1, OutFields, Zenon
    <3>6. ASSUME n = 1
          PROVE  Head(setup).port = "modem command"
      <4>1. Head(setup) = Out("modem command", "RTS, DTR")
        BY <2>1, <3>6, Zenon
      <4> QED
        BY <4>1, OutFields, Zenon
    <3> QED
      BY <3>1, <3>2, <3>3, <3>4, <3>5, <3>6, Zenon
<1>5. /\ n \in 2 .. 5 => uart.lcr = "DLAB"
      /\ n \in {1, 6} => uart.lcr = "8N1"
      /\ n \in 1 .. 3 => uart.lower = DIVISOR % BYTE
  BY DEF SetupInv, n
<1>6. outb(Head(setup).port, Head(setup).val)
  BY DEF SetupStep
<1>7. \* What the write does to the port.
      /\ uart' \in Uarts
      /\ n - 1 \in 2 .. 5 => uart'.lcr = "DLAB"
      /\ n - 1 \in {0, 1} => uart'.lcr = "8N1"
      /\ n - 1 \in 0 .. 3 => uart'.lower = DIVISOR % BYTE
      /\ uart'.fifo = IF n = 3 THEN << >> ELSE uart.fifo
  <2>1. CASE n = 6
    <3>1. uart' = [uart EXCEPT !.lcr = "DLAB"]
      BY <2>1, <1>4, <1>6 DEF outb
    <3> QED
      BY <3>1, <2>1, <1>1, LineControlWritten
  <2>2. CASE n = 5
    <3>1. outb("data", DIVISOR \div BYTE) /\ uart.lcr = "DLAB"
      BY <2>2, <1>4, <1>5, <1>6
    <3>2. uart' = [uart EXCEPT !.lower = DIVISOR \div BYTE]
      BY <3>1 DEF outb
    <3> QED
      BY <3>2, <2>2, <1>1, <1>5, DivisorBytes, LatchWritten
  <2>3. CASE n = 4
    <3>1. outb("data", DIVISOR % BYTE) /\ uart.lcr = "DLAB"
      BY <2>3, <1>4, <1>5, <1>6
    <3>2. uart' = [uart EXCEPT !.lower = DIVISOR % BYTE]
      BY <3>1 DEF outb
    <3> QED
      BY <3>2, <2>3, <1>1, <1>5, DivisorBytes, LatchWritten
  <2>4. CASE n = 3
    <3>1. uart' = WithQueue(uart, << >>)
      BY <2>4, <1>4, <1>6 DEF outb, WithQueue
    <3>2. << >> \in Seq(Bytes)
      OBVIOUS
    <3>3. uart' \in Uarts /\ uart'.lcr = uart.lcr /\ uart'.lower = uart.lower /\ uart'.fifo = << >>
      BY <3>1, <3>2, <1>1, QueueWritten
    <3> QED
      BY <3>3, <2>4, <1>5
  <2>5. CASE n = 2
    <3>1. uart' = [uart EXCEPT !.lcr = "8N1"]
      BY <2>5, <1>4, <1>6 DEF outb
    <3> QED
      BY <3>1, <2>5, <1>1, <1>5, LineControlWritten
  <2>6. CASE n = 1
    <3>1. uart' = uart
      BY <2>6, <1>4, <1>6 DEF outb
    <3> QED
      BY <3>1, <2>6, <1>1, <1>5
  <2> QED
    BY <2>1, <2>2, <2>3, <2>4, <2>5, <2>6, <1>2
<1>8. TypeInv'
  BY <1>1, <1>2, <1>3, <1>7 DEF TypeInv
<1>9. SetupInv'
  <2>1. setup' # << >> => ~ is_initialized' /\ buf' = << >> /\ ~ ready'
    BY <1>1, <1>2, <1>3
  <2>2. setup' = << >> /\ ~ in_handler' => uart'.lcr = "8N1"
    BY <1>2, <1>7
  <2> QED
    BY <2>1, <2>2, <1>2, <1>7 DEF SetupInv
<1>10. WriteInv'
  <2>1. is_initialized' => uart'.lcr = "8N1" /\ uart'.lower = DIVISOR % BYTE
    BY <1>3, <1>7
  <2>2. Len(uart'.fifo) <= 1
    BY <1>7 DEF WriteInv
  <2> QED
    BY <2>1, <2>2, <1>1 DEF WriteInv
<1>11. TextKept'
  <2>1. Head(setup).port = "fifo command" <=> n = 3
    <3>1. n = 6 \/ n = 5 \/ n = 4 \/ n = 3 \/ n = 2 \/ n = 1
      BY <1>2
    <3> QED
      BY <3>1, <1>4
  <2>2. sent' = IF n = 3 THEN line ELSE sent
    BY <2>1, Zenon DEF SetupStep
  <2>3. line \o << >> = line
    BY ConcatEmptySeq DEF TypeInv
  <2> QED
    BY <2>2, <2>3, <1>1, <1>7 DEF TextKept
<1> QED
  BY <1>8, <1>9, <1>10, <1>11

LEMMA NextIInv == IInv /\ [Next]_vars => IInv'
<1> SUFFICES ASSUME IInv, [Next]_vars PROVE IInv'
  OBVIOUS
<1> USE DEF IInv
<1>0. uart \in Uarts
  BY DEF TypeInv
<1>1. CASE Transmit
  <2>1. uart.fifo \in Seq(Bytes) /\ uart.fifo # << >> /\ Len(uart.fifo) <= 1
    BY <1>0, <1>1 DEF Uarts, Transmit, WriteInv
  <2>2. Head(uart.fifo) \in Bytes /\ Tail(uart.fifo) = << >>
        /\ Tail(uart.fifo) \in Seq(Bytes) /\ Len(Tail(uart.fifo)) <= 1
    BY <2>1, LastByte, Zenon
  <2>3. /\ uart' = WithQueue(uart, Tail(uart.fifo))
        /\ line' = Append(line, Head(uart.fifo))
        /\ UNCHANGED <<is_initialized, setup, buf, ready, in_handler, calls, sent>>
    BY <1>1 DEF Transmit, WithQueue
  <2>4. /\ uart' \in Uarts /\ uart'.lcr = uart.lcr /\ uart'.lower = uart.lower
        /\ uart'.fifo = Tail(uart.fifo)
    BY <2>2, <2>3, <1>0, QueueWritten
  <2>5. line' \in Seq(Bytes)
    BY <2>2, <2>3, AppendProperties DEF TypeInv
  <2>6. line' \o uart'.fifo = line \o uart.fifo
    BY <2>1, <2>3, <2>4, ByteMoves DEF TypeInv
  <2>7. Len(uart'.fifo) <= 1 /\ uart'.fifo = << >>
    <3>1. uart'.fifo = Tail(uart.fifo)
      BY <2>4
    <3>2. Tail(uart.fifo) = << >> /\ Len(Tail(uart.fifo)) <= 1
      BY <2>2, Zenon
    <3> QED
      BY <3>1, <3>2, Zenon
  <2>8. TypeInv'
    BY <2>3, <2>4, <2>5 DEF TypeInv
  <2> QED
    BY <2>3, <2>4, <2>6, <2>7, <2>8 DEF SetupInv, WriteInv, TextKept
<1>2. CASE serial_initialize
  <2>1. setup = << >> /\ buf = << >> /\ in_handler = FALSE /\ uart.lcr = "8N1" /\ ready = FALSE
    BY <1>2, <1>0 DEF serial_initialize, Call, Idle, SetupInv, WriteInv, TypeInv
  <2>2. calls' \in 0 .. MAX_CALLS
    BY <1>2, CallsAssumption DEF serial_initialize, Call, TypeInv
  <2>3. setup' \in Seq(Writes) /\ Len(setup') = 6 /\ setup' # << >>
        /\ \A k \in 1 .. Len(setup') : setup'[k] = Setup[6 - Len(setup') + k]
    <3>1. setup' = Setup
      BY <1>2 DEF serial_initialize
    <3>2. \A k \in 1 .. 6 : 6 - 6 + k = k
      OBVIOUS
    <3>3. Setup # << >>
      BY SetupIs, SixAreSome
    <3> QED
      BY <3>1, <3>2, <3>3, SetupIs, Zenon
  <2>4. is_initialized' = FALSE
        /\ UNCHANGED <<uart, line, buf, ready, in_handler, sent>>
    BY <1>2 DEF serial_initialize
  <2>5. TypeInv'
    BY <2>2, <2>3, <2>4 DEF TypeInv
  <2>6. SetupInv'
    BY <2>1, <2>3, <2>4 DEF SetupInv
  <2> QED
    BY <2>1, <2>4, <2>5, <2>6 DEF WriteInv, TextKept
<1>3. CASE serial_initializeInvalid
  <2>1. buf = << >> /\ is_initialized' = FALSE /\ setup = << >>
        /\ UNCHANGED <<uart, line, setup, buf, ready, in_handler, sent>>
    BY <1>3 DEF serial_initializeInvalid, Call, Idle
  <2>2. calls' \in 0 .. MAX_CALLS
    BY <1>3, CallsAssumption DEF serial_initializeInvalid, Call, TypeInv
  <2>3. TypeInv'
    BY <2>1, <2>2 DEF TypeInv
  <2> QED
    BY <2>1, <2>3 DEF SetupInv, WriteInv, TextKept
<1>4. CASE SetupStep
  BY <1>4, StepsOfSetup
<1>5. CASE SeesEmpty
  <2>1. UNCHANGED <<uart, line, is_initialized, setup, buf, in_handler, calls, sent>>
        /\ ready' = TRUE /\ buf # << >> /\ uart.fifo = << >> /\ setup = << >>
    BY <1>5 DEF SeesEmpty, serial_is_transmit_fifo_empty, SetupInv
  <2> QED
    BY <2>1 DEF TypeInv, SetupInv, WriteInv, TextKept
<1>6. CASE WriteByte
  <2>1. /\ buf # << >> /\ uart.fifo = << >> /\ setup = << >> /\ is_initialized
        /\ uart.lcr = "8N1" /\ uart.lower = DIVISOR % BYTE
        /\ ready' = FALSE /\ buf' = Tail(buf) /\ sent' = Append(sent, Head(buf))
        /\ UNCHANGED <<line, is_initialized, setup, in_handler, calls>>
    BY <1>6, <1>0 DEF WriteByte, SetupInv, WriteInv
  <2>2. Head(buf) \in Bytes /\ Tail(buf) \in Seq(Bytes)
    BY <2>1, HeadTailProperties DEF TypeInv
  <2>3. uart' = WithQueue(uart, Append(uart.fifo, Head(buf)))
    BY <1>6, <2>1, UartAssumption DEF WriteByte, outb, WithQueue
  <2>4. /\ uart' \in Uarts
        /\ uart'.lcr = "8N1" /\ uart'.lower = DIVISOR % BYTE
        /\ uart'.fifo = Append(<< >>, Head(buf))
    <3>1. Append(uart.fifo, Head(buf)) \in Seq(Bytes)
      BY <2>1, <2>2, EmptySeq, AppendProperties
    <3>2. /\ uart' \in Uarts /\ uart'.lcr = uart.lcr /\ uart'.lower = uart.lower
          /\ uart'.fifo = Append(uart.fifo, Head(buf))
      BY <3>1, <2>3, <1>0, QueueWritten
    <3> QED
      BY <3>2, <2>1
  <2>5. Len(uart'.fifo) <= 1
    BY <2>4
  <2>6. line = sent
    BY <2>1, ConcatEmptySeq DEF TextKept, TypeInv
  <2>7. line' \o uart'.fifo = sent'
    BY <2>1, <2>2, <2>4, <2>6, ByteJoins, ConcatEmptySeq DEF TypeInv
  <2>8. TypeInv'
    BY <2>1, <2>2, <2>4 DEF TypeInv
  <2> QED
    BY <2>1, <2>4, <2>5, <2>7, <2>8 DEF SetupInv, WriteInv, TextKept
<1>7. ASSUME NEW text \in Texts, serial_log(text)
      PROVE  IInv'
  <2>1. /\ buf = << >> /\ setup = << >> /\ buf' = IF is_initialized THEN text ELSE << >>
        /\ UNCHANGED <<uart, line, is_initialized, setup, ready, in_handler, sent>>
    BY <1>7 DEF serial_log, Call, Idle
  <2>2. ready = FALSE
    BY <2>1 DEF WriteInv, TypeInv
  <2>3. calls' \in 0 .. MAX_CALLS /\ buf' \in Seq(Bytes)
    BY <1>7, <2>1, TextsAssumption, CallsAssumption DEF serial_log, Call, TypeInv
  <2>4. TypeInv'
    BY <2>1, <2>3 DEF TypeInv
  <2> QED
    BY <2>1, <2>2, <2>4 DEF SetupInv, WriteInv, TextKept
<1>8. ASSUME NEW text \in Texts, Interrupt(text)
      PROVE  IInv'
  <2>1. /\ in_handler' = TRUE /\ setup' = << >> /\ ready' = FALSE
        /\ buf' = IF is_initialized THEN text ELSE << >>
        /\ UNCHANGED <<uart, line, is_initialized, calls, sent>>
    BY <1>8 DEF Interrupt
  <2>2. buf' \in Seq(Bytes)
    BY <2>1, TextsAssumption
  <2>3. setup' \in Seq(Writes) /\ Len(setup') = 0
    BY <2>1
  <2>4. TypeInv'
    BY <2>1, <2>2, <2>3 DEF TypeInv
  <2> QED
    BY <2>1, <2>3, <2>4 DEF SetupInv, WriteInv, TextKept
<1>9. CASE UNCHANGED vars
  BY <1>9 DEF vars, TypeInv, SetupInv, WriteInv, TextKept
<1> QED
  BY <1>1, <1>2, <1>3, <1>4, <1>5, <1>6, <1>7, <1>8, <1>9 DEF Next, Running

LEMMA SpecIInv == Spec => []IInv
  BY InitIInv, NextIInv, PTL DEF Spec

-----------------------------------------------------------------------------
\* Every variable of the driver and of the port keeps its type, and the transmit
\* queue never has more than one byte (serial_write waits for it).
THEOREM TypeCorrect == Spec => []TypeOK
<1>1. IInv => TypeOK
  <2> SUFFICES ASSUME IInv PROVE TypeOK
    OBVIOUS
  <2>1. uart.lcr \in {"8N1", "DLAB"} /\ uart.lower \in 0 .. BYTE - 1 /\ uart.upper \in 0 .. BYTE - 1
    BY UartAssumption DEF IInv, TypeInv, Uarts, Latch
  <2>2. setup = << >> \/ buf = << >>
    BY DEF IInv, SetupInv
  <2> QED
    BY <2>1, <2>2 DEF IInv, TypeInv, WriteInv, TypeOK
<1> QED
  BY <1>1, SpecIInv, PTL

\* No byte of a text is lost between serial_write and the line or written into
\* the divisor latch, whatever an exception has cut short.
THEOREM TextIsKept == Spec => []TextKept
<1>1. IInv => TextKept
  BY DEF IInv
<1> QED
  BY <1>1, SpecIInv, PTL

\* The port in use has the speed that serial_initialize asks for, on machines
\* whose firmware has left the divisor's upper byte in the latch: the driver
\* itself writes it to the lower one (serial_configure_baud_rate).
THEOREM BaudRateKept ==
    ASSUME UpperLatches = {DIVISOR \div BYTE}
    PROVE  Spec => []BaudRate
<1>1. IInv => BaudRate
  <2> SUFFICES ASSUME IInv, is_initialized PROVE uart.upper * BYTE + uart.lower = DIVISOR
    BY DEF BaudRate
  <2>1. uart.upper = DIVISOR \div BYTE /\ uart.lower = DIVISOR % BYTE
    BY DEF IInv, TypeInv, Uarts, WriteInv
  <2> QED
    BY <2>1, DivisorBytes
<1> QED
  BY <1>1, SpecIInv, PTL
=============================================================================
