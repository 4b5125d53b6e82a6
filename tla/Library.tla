------------------------------- MODULE Library -------------------------------
(***************************************************************************)
(* One call at a time of what the kernel is built on: the printf family, the  *)
(* memory functions, itoa, and CPU detection.                               *)
(***************************************************************************)
EXTENDS Printf, Memory, Itoa, CpuDetect

VARIABLES running   \* Which of them has been called

libraryVars == <<running, vars, memoryVars, itoaVars, cpuVars>>

PrintfIdle ==
    /\ call = [out |-> "none", format |-> << >>, args |-> << >>, count |-> 0]
    /\ format = << >> /\ args = << >> /\ memory = << >> /\ stream = << >>
    /\ idx = 0 /\ ret = NONE /\ full = << >>
MemoryIdle ==
    /\ job = NONE /\ bytes = << >> /\ i = 0 /\ returned = FALSE
    /\ answer = NONE /\ before = << >>
ItoaIdle ==
    /\ number = NONE /\ value = 0 /\ negative = FALSE /\ str = << >>
    /\ start = 0 /\ end = 0 /\ phase = "idle"
CpuIdle == processor = NONE /\ step = "idle" /\ asked = {} /\ report = << >>

LibraryInit ==
    \/ running = "printf" /\ Init /\ MemoryIdle /\ ItoaIdle /\ CpuIdle
    \/ running = "memory" /\ PrintfIdle /\ MemoryInit /\ ItoaIdle /\ CpuIdle
    \/ running = "itoa" /\ PrintfIdle /\ MemoryIdle /\ ItoaInit /\ CpuIdle
    \/ running = "detect_cpu" /\ PrintfIdle /\ MemoryIdle /\ ItoaIdle /\ CpuInit

LibraryNext ==
    /\ \/ running = "printf" /\ Next /\ UNCHANGED <<memoryVars, itoaVars, cpuVars>>
       \/ running = "memory" /\ MemoryNext /\ UNCHANGED <<vars, itoaVars, cpuVars>>
       \/ running = "itoa" /\ ItoaNext /\ UNCHANGED <<vars, memoryVars, cpuVars>>
       \/ running = "detect_cpu" /\ CpuNext /\ UNCHANGED <<vars, memoryVars, itoaVars>>
    /\ running' = running

LibrarySpec == LibraryInit /\ [][LibraryNext]_libraryVars
=============================================================================
