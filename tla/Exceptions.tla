----------------------------- MODULE Exceptions -----------------------------
(***************************************************************************)
(* What lies on the stack when exception_handler runs (asm/idt.asm), how    *)
(* cpu_status_t (cpu/idt.h) reads it, and what the handler (cpu/idt.c) logs. *)
(* A word of the stack is named for what it holds.  Stacks are written from *)
(* the lowest address up, the last word pushed first.                       *)
(***************************************************************************)
EXTENDS Naturals, Sequences, SequencesExt

\* The architecture: the exceptions for which the CPU pushes an error code.
PushesErrorCode == {8, 10, 11, 12, 13, 14, 17, 21, 29, 30}
CpuFrame(vector) ==
    (IF vector \in PushesErrorCode THEN <<"cpu error code">> ELSE << >>)
       \o <<"rip", "cs", "flags", "rsp", "ss">>

\* isr_stub_table: which vectors use isr_err_stub, the others isr_no_err_stub.
ErrStubs == {8, 10, 11, 12, 13, 14, 17, 30}

StubFrame(vector) ==
    IF vector \in ErrStubs THEN <<"vector", "dummy">> ELSE <<"vector">>

\* interrupt_stub
SavedRegisters == <<"r15", "r14", "rbx", "rax">>

Stack(vector) == SavedRegisters \o StubFrame(vector) \o CpuFrame(vector)

cpu_status_t ==
    SavedRegisters \o <<"vector_number", "error_code", "iret_rip", "iret_cs",
                        "iret_flags", "iret_rsp", "iret_ss">>

\* The word that the field of *context reads for this exception.
Word(vector, field) == Stack(vector)[SelectInSeq(cpu_status_t, LAMBDA f : f = field)]

\* context->vector_number; a word that is not the vector is no case of the
\* switch (255 stands for it).
vector_number(vector) ==
    IF Word(vector, "vector_number") = "vector" THEN vector ELSE 255

-----------------------------------------------------------------------------
\* The messages of the cases 0 .. 21 of exception_handler.
Names ==
    <<"Divide Error", "Debug Exception", "Non Maskable External Interrupt",
      "Breakpoint Reached", "Overflow", "BOUND Range Exceeded",
      "Invalid Opcode", "Device Not Available", "Double Fault",
      "Coprocessor Segment Overrun", "Invalid TSS", "Segment Not Present",
      "Stack-Segment Fault", "General Protection Fault", "Page Fault",
      "Reserved", "x87 FPU Floating-Point Error", "Alignment Check Fault",
      "Machine Check", "SIMD Floating-Point Exception",
      "Virtualization Exception", "Control Protection Exception">>
Name(case) == IF case + 1 \in DOMAIN Names THEN Names[case + 1]
                                           ELSE "Unexpected Interrupt"

\* The cases that end without a break.
FallsThrough == {12, 20}

\* The messages logged for a vector, in order.
Reports(vector) ==
    IF vector \in FallsThrough THEN <<Name(vector), Name(vector + 1)>>
                               ELSE <<Name(vector)>>
=============================================================================
