------------------------------- MODULE Kernel -------------------------------
(***************************************************************************)
(* The kernel's one thread of control: kernel_main runs the initialisation  *)
(* functions, they log, the logger (Ulog) calls serial_log and kernel_log,  *)
(* and an exception may stop all of that at any point, to log in its turn   *)
(* and halt the processor.                                                 *)
(*                                                                         *)
(* A boot function is the sequence of its effects on the logger, the        *)
(* outputs and the interrupt table; what else it does (Pmm has the memory   *)
(* manager) cannot be told apart here.                                     *)
(***************************************************************************)
EXTENDS Integers, Sequences, FiniteSets, SequencesExt, Exceptions

CONSTANTS
    ULOG_MAX_SUBSCRIBERS,
    Vectors,        \* exceptions that may strike anywhere
    MAX_STRIKES,    \* a bound on how many of them do
    MAX_HANDLERS    \* how many nested exception handlers the boot stack holds

ASSUME SlotsAssumption == ULOG_MAX_SUBSCRIBERS \in Nat \ {0}
ASSUME StackAssumption == MAX_HANDLERS \in Nat \ {0}
ASSUME VectorAssumption == Vectors \subseteq 0 .. 31 /\ MAX_STRIKES \in Nat

VARIABLES
    machine,        \* what the boot loader and the hardware provide
    pc,             \* the next effect of kernel_main
    idt_loaded,     \* lidt has been executed
    is_initialized, \* the serial port's flag
    s_subscribers, s_message, stack, result,  \* of the logger
    handlers,       \* the exception handlers entered, the innermost last
    serial,         \* the lines written to COM1
    screen,         \* the log lines printed on the terminal
    reset           \* "none", or the cause of the triple fault

ulog == <<s_subscribers, s_message, stack, result>>
boot == <<pc, idt_loaded, is_initialized>>
vars == <<machine, boot, ulog, handlers, serial, screen, reset>>

\* Severities, of ulog.h.
DEBUG == 101
INFO == 102
CRITICAL == 105

\* A message, tagged with who logs it: 0 for kernel_main, d for the d-th
\* exception handler.
Text(who, what) == [who |-> who, what |-> what]

Log == INSTANCE Ulog WITH
    Functions <- {"kernel_log", "serial_log"},
    NULL <- "NULL",
    Levels <- {DEBUG, INFO, CRITICAL},
    Texts <- {Text(0, "")},
    MAX_DEPTH <- MAX_HANDLERS + 1

-----------------------------------------------------------------------------
(***************************************************************************)
(* kernel_main and the functions it calls, as sequences of effects.        *)
(***************************************************************************)
Say(severity, what) == <<[op |-> "log", severity |-> severity, what |-> what]>>
Do(op) == <<[op |-> op]>>
\* Mutant: hcf returns.
hcfReturns == << >>
hcf == Do("hcf")

serial_initialize ==
    Say(INFO, "Initializing Serial port") \o Say(INFO, "Serial port initialized")
       \o Do("is_initialized")

terminal_initialize ==
    IF machine.framebuffer THEN Do("print") \o Say(INFO, "Terminal initialized")
                           ELSE hcf

\* Mutant: the subscriptions in the other order.
log_initializeSwapped ==
    Do("ulog_init") \o Do("subscribe serial_log") \o Do("subscribe kernel_log")
log_initialize ==
    Do("ulog_init") \o Do("subscribe kernel_log") \o Do("subscribe serial_log")

detect_cpu == Do("print")

gdt_initialize == Say(INFO, "Initializing GDT") \o Say(INFO, "GDT initialized")

idt_initialize == Do("lidt")

hhdm_initialize ==
    IF machine.hhdm THEN Say(INFO, "HHDM Set")
                    ELSE Say(CRITICAL, "HHDM Request Failed")

print_memmap == Say(INFO, "Found memory entries") \o Do("print")

pmm_initialize ==
    Say(INFO, "Total usable memory") \o Say(INFO, "Highest usable address")
       \o IF machine.room
          THEN Say(DEBUG, "Bitmap stored") \o print_memmap
                  \o Say(DEBUG, "Freeing") \o Say(INFO, "Bitmap created")
          ELSE Say(CRITICAL, "Could not allocate bitmap") \o hcf

kernel_main ==
    IF machine.revision
    THEN serial_initialize \o terminal_initialize \o log_initialize
            \o detect_cpu \o gdt_initialize \o idt_initialize
            \o hhdm_initialize \o pmm_initialize \o hcf
    ELSE hcf

-----------------------------------------------------------------------------
(***************************************************************************)
(* Who has the processor.  An exception handler never returns, so the       *)
(* dispatches it interrupted (the frames up to its base) never go on.       *)
(***************************************************************************)
Innermost == handlers[Len(handlers)]
\* Mutant: the handler returns once it has logged.
BaseAfterReturn ==
    IF handlers = << >> \/ Innermost.reports = << >> THEN 0 ELSE Innermost.base
Base == IF handlers = << >> THEN 0 ELSE Innermost.base

InDispatch == reset = "none" /\ Len(stack) > Base
InHandler == reset = "none" /\ handlers # << >> /\ Len(stack) = Base
InBoot == reset = "none" /\ handlers = << >> /\ stack = << >>

Effect == kernel_main[pc]

\* The processor waits in a hlt: of hcf, or of the exception handler.
Halted ==
    \/ InBoot /\ Effect.op = "hcf"
    \/ InHandler /\ Innermost.reports = << >>

-----------------------------------------------------------------------------
Machines == [revision : BOOLEAN, framebuffer : BOOLEAN, hhdm : BOOLEAN,
             room : BOOLEAN, terminal_faults : BOOLEAN]

Init ==
    /\ machine \in Machines
    /\ pc = 1
    /\ idt_loaded = FALSE
    /\ is_initialized = FALSE
    /\ s_subscribers = Log!EmptyTable
    /\ s_message = Text(0, "")
    /\ stack = << >>
    /\ result = "NONE"
    /\ handlers = << >>
    /\ serial = << >>
    /\ screen = << >>
    /\ reset = "none"

Step(op) == InBoot /\ Effect.op = op /\ pc' = pc + 1

BootLogs ==
    /\ Step("log")
    /\ Log!ulog_message(Effect.severity, Text(0, Effect.what))
    /\ UNCHANGED <<machine, idt_loaded, is_initialized, handlers, serial, screen, reset>>

\* printf straight to the terminal: the title card, the CPU's name, the map.
BootPrints ==
    /\ Step("print")
    /\ UNCHANGED <<machine, idt_loaded, is_initialized, ulog, handlers, serial, screen, reset>>

BootOpensSerial ==
    /\ Step("is_initialized")
    /\ is_initialized' = TRUE
    /\ UNCHANGED <<machine, idt_loaded, ulog, handlers, serial, screen, reset>>

BootUsesUlog ==
    /\ \/ Step("ulog_init") /\ Log!ulog_init
       \/ Step("subscribe kernel_log") /\ Log!ulog_subscribe("kernel_log", INFO)
       \/ Step("subscribe serial_log") /\ Log!ulog_subscribe("serial_log", DEBUG)
    /\ UNCHANGED <<machine, idt_loaded, is_initialized, handlers, serial, screen, reset>>

BootLoadsIdt ==
    /\ Step("lidt")
    /\ idt_loaded' = TRUE
    /\ UNCHANGED <<machine, is_initialized, ulog, handlers, serial, screen, reset>>

-----------------------------------------------------------------------------
(***************************************************************************)
(* Logging.                                                                *)
(***************************************************************************)
Dispatch ==
    /\ InDispatch
    /\ Log!Loop
    /\ UNCHANGED <<machine, boot, handlers, serial, screen, reset>>

In(subscriber) == InDispatch /\ Log!Top.fn = subscriber

serial_log ==
    /\ In("serial_log")
    /\ serial' = IF is_initialized THEN Append(serial, s_message) ELSE serial
    /\ Log!SubscriberReturns
    /\ UNCHANGED <<machine, boot, handlers, screen, reset>>

kernel_log ==
    /\ In("kernel_log")
    /\ screen' = Append(screen, s_message)
    /\ Log!SubscriberReturns
    /\ UNCHANGED <<machine, boot, handlers, serial, reset>>

-----------------------------------------------------------------------------
(***************************************************************************)
(* Exceptions.                                                             *)
(***************************************************************************)
\* The CPU takes the exception: through the table if it is loaded and there is
\* stack left, otherwise it ends in a triple fault, which resets the machine.
Raise(vector, cause) ==
    IF idt_loaded /\ Len(handlers) < MAX_HANDLERS
    THEN /\ handlers' = Append(handlers,
                [vector |-> vector, cause |-> cause, base |-> Len(stack),
                 error_code |-> Word(vector, "error_code"),
                 reports |-> Reports(vector_number(vector))])
         /\ UNCHANGED <<machine, boot, ulog, serial, screen, reset>>
    ELSE /\ reset' = cause
         /\ UNCHANGED <<machine, boot, ulog, handlers, serial, screen>>

Strikes == Cardinality({d \in DOMAIN handlers : handlers[d].cause = "strike"})

\* A non-maskable interrupt, a machine check or a fault of the code that runs.
Strike(vector) ==
    /\ reset = "none"
    /\ Strikes < MAX_STRIKES
    /\ Raise(vector, "strike")

\* Printing touches the framebuffer and takes a page fault there.
TerminalFault ==
    /\ machine.terminal_faults
    /\ \/ In("kernel_log")
       \/ InBoot /\ Effect.op = "print"
    /\ Raise(14, "terminal")

\* exception_handler logs its next message.
HandlerReports ==
    /\ InHandler
    /\ Innermost.reports # << >>
    /\ handlers' = [handlers EXCEPT ![Len(handlers)].reports = Tail(Innermost.reports)]
    /\ Log!ulog_message(CRITICAL, Text(Len(handlers), Head(Innermost.reports)))
    /\ UNCHANGED <<machine, boot, serial, screen, reset>>

-----------------------------------------------------------------------------
Progress ==
    \/ BootLogs \/ BootPrints \/ BootOpensSerial \/ BootUsesUlog \/ BootLoadsIdt
    \/ Dispatch \/ serial_log \/ kernel_log
    \/ HandlerReports

Next ==
    \/ Progress
    \/ \E vector \in Vectors : Strike(vector)
    \/ TerminalFault

\* The processor runs until it halts or resets; nothing makes exceptions
\* happen.
Spec == Init /\ [][Next]_vars /\ WF_vars(Progress \/ TerminalFault)

-----------------------------------------------------------------------------
(***************************************************************************)
(* Properties.                                                             *)
(***************************************************************************)
\* Every variable has its type.  kernel_main does not run past its end, and
\* each handler, like kernel_main, has at most one dispatch under way.
TypeOK ==
    /\ machine \in Machines
    /\ pc \in DOMAIN kernel_main
    /\ idt_loaded \in BOOLEAN
    /\ is_initialized \in BOOLEAN
    /\ Len(handlers) <= MAX_HANDLERS
    /\ Len(stack) <= Len(handlers) + 1
    /\ reset \in {"none", "strike", "terminal"}

\* Where kernel_main, before its effect p and since log_initialize, logs a
\* message of a severity or more.
Heard(p, severity) ==
    {k \in 1 .. p - 1 :
        /\ kernel_main[k].op = "log" /\ kernel_main[k].severity >= severity
        /\ \E l \in 1 .. k - 1 : kernel_main[l].op = "ulog_init"}

\* The output's n-th line is the n-th of these messages.
Lists(output, heard) ==
    /\ Len(output) = Cardinality(heard)
    /\ \A k \in heard :
          output[Cardinality({l \in heard : l <= k})] = Text(0, kernel_main[k].what)

\* Between two effects of kernel_main the serial line has every message since
\* log_initialize and the terminal those that are INFO or more, in order.
OutputsComplete ==
    InBoot => /\ Lists(serial, Heard(pc, DEBUG))
              /\ Lists(screen, Heard(pc, INFO))

\* No output gets a line twice, and what an exception has interrupted never
\* writes again: the buffer it was writing from now has another text
\* (exception_handler ends in cli; hlt and is declared noreturn).
Ordered(output) ==
    \A k, l \in DOMAIN output :
       k < l => output[k] # output[l] /\ output[k].who <= output[l].who
LinesOrdered == Ordered(serial) /\ Ordered(screen)

\* An exception taken through the table is named on the serial line, even if
\* printing on the terminal is what raises it, and raises it again in every
\* handler; only another exception that strikes meanwhile can prevent it.
OnSerial(d) ==
    /\ Len(handlers) >= d
    /\ \E k \in DOMAIN serial : serial[k] = Text(d, Name(handlers[d].vector))
StruckAfter(d) ==
    \/ Len(handlers) > d /\ handlers[d + 1].cause = "strike"
    \/ Len(handlers) = d /\ reset = "strike"
FaultReported ==
    \A d \in 1 .. MAX_HANDLERS :
       Len(handlers) = d ~> OnSerial(d) \/ StruckAfter(d)

\* kernel_main comes to rest, in a hlt or by a reset, with the messages
\* and exceptions there are.
ComesToRest == <>(Halted \/ reset # "none")

\* Each message of exception_handler names the exception that was raised
\* (idt.c:60 for vector 13, idt.c:91 for vector 21).
ReportsNameTheException ==
    \A k \in DOMAIN serial :
       serial[k].who > 0 => serial[k].what = Name(handlers[serial[k].who].vector)

\* The error code the handler can read is the CPU's, or the dummy of the stub
\* if the exception has none (idt.asm:3, and error_code of cpu_status_t).
ErrorCodeReadable ==
    \A d \in DOMAIN handlers :
       handlers[d].error_code =
          IF handlers[d].vector \in PushesErrorCode THEN "cpu error code" ELSE "dummy"
=============================================================================
