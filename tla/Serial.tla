------------------------------- MODULE Serial -------------------------------
(***************************************************************************)
(* The serial port driver (kernel/arch/x86_64/io/serial.c) with serial_log  *)
(* of klog.c, against the UART it programs: port writes one by one, the     *)
(* UART sending at its own pace, and an exception at any point, whose       *)
(* handler logs in its turn and never returns.                             *)
(***************************************************************************)
EXTENDS Integers, Sequences

CONSTANTS
    Texts,          \* the texts serial_log formats: sequences of bytes
    DIVISOR,        \* of 115200 bits/s, asked for by serial_initialize
    UpperLatches,   \* what the firmware may have left in the latch's upper byte
    FIFO_SIZE,      \* of the UART
    MAX_CALLS       \* a bound on the calls of the driver

BYTE == 256
\* What the texts consist of.
Bytes == UNION {{text[k] : k \in DOMAIN text} : text \in Texts}

ASSUME TextsAssumption == Texts \subseteq Seq(Bytes)
ASSUME DivisorAssumption == DIVISOR \in 1 .. BYTE * BYTE - 1
ASSUME UartAssumption == UpperLatches \subseteq 0 .. BYTE - 1 /\ FIFO_SIZE \in Nat \ {0}
ASSUME CallsAssumption == MAX_CALLS \in Nat

VARIABLES
    uart,           \* the port: line control, divisor latch, transmit queue
    line,           \* the bytes that have left the UART
    is_initialized,
    setup,          \* the port writes serial_initialize has yet to do
    buf,            \* what serial_write has yet to write
    ready,          \* serial_write has seen the transmit queue empty
    in_handler,     \* an exception has been taken
    calls,
    sent            \* History: the bytes serial_write has given to the port

vars == <<uart, line, is_initialized, setup, buf, ready, in_handler, calls, sent>>

Init ==
    /\ uart \in [lcr : {"8N1"}, lower : {1, 12}, upper : UpperLatches, fifo : {<< >>}]
    /\ line = << >>
    /\ is_initialized = FALSE
    /\ setup = << >>
    /\ buf = << >>
    /\ ready = FALSE
    /\ in_handler = FALSE
    /\ calls = 0
    /\ sent = << >>

-----------------------------------------------------------------------------
(***************************************************************************)
(* The port.  While DLAB is set in the line control register, the data port  *)
(* is the latch's lower byte.                                              *)
(***************************************************************************)
outb(port, val) ==
    uart' = CASE port = "data" /\ uart.lcr = "DLAB" -> [uart EXCEPT !.lower = val]
              [] port = "data" /\ uart.lcr # "DLAB" ->
                    IF Len(uart.fifo) < FIFO_SIZE
                    THEN [uart EXCEPT !.fifo = Append(@, val)] ELSE uart
              [] port = "line command" -> [uart EXCEPT !.lcr = val]
              [] port = "fifo command" -> [uart EXCEPT !.fifo = << >>]
              [] port = "modem command" -> uart

\* The UART shifts the next byte out.
Transmit ==
    /\ uart.fifo # << >>
    /\ line' = Append(line, Head(uart.fifo))
    /\ uart' = [uart EXCEPT !.fifo = Tail(@)]
    /\ UNCHANGED <<is_initialized, setup, buf, ready, in_handler, calls, sent>>

-----------------------------------------------------------------------------
(***************************************************************************)
(* serial_initialize.                                                      *)
(***************************************************************************)
Out(port, val) == [port |-> port, val |-> val]

\* Mutant: the lower byte first.
serial_configure_baud_rateSwapped(divisor) ==
    <<Out("line command", "DLAB"), Out("data", divisor % BYTE), Out("data", divisor \div BYTE)>>
serial_configure_baud_rate(divisor) ==
    <<Out("line command", "DLAB"), Out("data", divisor \div BYTE), Out("data", divisor % BYTE)>>

Setup ==
    serial_configure_baud_rate(DIVISOR)
       \o <<Out("fifo command", "enable, clear"), Out("line command", "8N1"),
            Out("modem command", "RTS, DTR")>>

Idle == setup = << >> /\ buf = << >>
Call == Idle /\ ~ in_handler /\ calls < MAX_CALLS /\ calls' = calls + 1

\* Mutant: the flag keeps its value until the port has been set up.
serial_initializeStaysUp ==
    /\ Call
    /\ setup' = Setup
    /\ UNCHANGED <<uart, line, is_initialized, buf, ready, in_handler, sent>>
\* Up to the first port write.
serial_initialize ==
    /\ Call
    /\ is_initialized' = FALSE
    /\ setup' = Setup
    /\ UNCHANGED <<uart, line, buf, ready, in_handler, sent>>

\* com < 1.
serial_initializeInvalid ==
    /\ Call
    /\ is_initialized' = FALSE
    /\ UNCHANGED <<uart, line, setup, buf, ready, in_handler, sent>>

\* A port write of it, and the flag after the last.  Clearing the transmit
\* queue throws away a byte that is still in it.
SetupStep ==
    /\ setup # << >>
    /\ outb(Head(setup).port, Head(setup).val)
    /\ setup' = Tail(setup)
    /\ is_initialized' = (is_initialized \/ Tail(setup) = << >>)
    /\ sent' = IF Head(setup).port = "fifo command" THEN line ELSE sent
    /\ UNCHANGED <<line, buf, ready, in_handler, calls>>

-----------------------------------------------------------------------------
(***************************************************************************)
(* serial_log and serial_write.                                            *)
(***************************************************************************)
serial_log(text) ==
    /\ Call
    /\ buf' = IF is_initialized THEN text ELSE << >>
    /\ UNCHANGED <<uart, line, is_initialized, setup, ready, in_handler, sent>>

\* Mutant: the port is not asked.
serial_is_transmit_fifo_emptyAlways == TRUE
\* Mutant: the status bit is read the other way round.
serial_is_transmit_fifo_emptyInverted == uart.fifo # << >>
serial_is_transmit_fifo_empty == uart.fifo = << >>

\* The inner loop leaves when the line status says that the queue is empty.
SeesEmpty ==
    /\ buf # << >> /\ ~ ready
    /\ serial_is_transmit_fifo_empty
    /\ ready' = TRUE
    /\ UNCHANGED <<uart, line, is_initialized, setup, buf, in_handler, calls, sent>>

WriteByte ==
    /\ buf # << >> /\ ready
    /\ outb("data", Head(buf))
    /\ sent' = Append(sent, Head(buf))
    /\ buf' = Tail(buf)
    /\ ready' = FALSE
    /\ UNCHANGED <<line, is_initialized, setup, in_handler, calls>>

\* An exception: what it interrupts never goes on, its handler logs.
Interrupt(text) ==
    /\ ~ in_handler
    /\ in_handler' = TRUE
    /\ setup' = << >>
    /\ buf' = IF is_initialized THEN text ELSE << >>
    /\ ready' = FALSE
    /\ UNCHANGED <<uart, line, is_initialized, calls, sent>>

-----------------------------------------------------------------------------
Running == SetupStep \/ SeesEmpty \/ WriteByte

Next ==
    \/ Transmit
    \/ serial_initialize \/ serial_initializeInvalid
    \/ Running
    \/ \E text \in Texts : serial_log(text) \/ Interrupt(text)

\* The processor runs, and the UART sends what it is given.
Spec == Init /\ [][Next]_vars /\ WF_vars(Running) /\ WF_vars(Transmit)

-----------------------------------------------------------------------------
(***************************************************************************)
(* Properties.                                                             *)
(***************************************************************************)
\* Every variable has its type; the transmit queue never has more than the one
\* byte that was written when it was empty.
TypeOK ==
    /\ uart.lcr \in {"8N1", "DLAB"}
    /\ uart.lower \in 0 .. BYTE - 1 /\ uart.upper \in 0 .. BYTE - 1
    /\ Len(uart.fifo) <= 1
    /\ is_initialized \in BOOLEAN /\ ready \in BOOLEAN /\ in_handler \in BOOLEAN
    /\ calls \in 0 .. MAX_CALLS
    /\ setup = << >> \/ buf = << >>

\* Every byte given to the port is on the line or about to be, in order: no byte
\* is written to a full queue or into the divisor latch, whatever
\* serial_initialize or serial_write an exception has cut short.
TextKept == line \o uart.fifo = sent

\* "the resulting speed becomes (115200 / divisor) bits/s" (serial.c:9): a port
\* that is in use has the divisor serial_initialize asks for, also after a
\* handler has written while it was being set up again.
BaudRate ==
    is_initialized => uart.upper * BYTE + uart.lower = DIVISOR

\* serial_write's loops end if the UART sends: the driver comes to rest.
WriteEnds == buf # << >> ~> Idle
=============================================================================
