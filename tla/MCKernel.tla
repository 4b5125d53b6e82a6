------------------------------ MODULE MCKernel ------------------------------
(***************************************************************************)
(* Instances of the kernel's boot and its exceptions.                      *)
(***************************************************************************)
EXTENDS Kernel

\* One exception without an error code and one with, and the exceptions
\* whose cases end without a break.
SomeVectors == {2, 12}
FallingVectors == {12, 20}
=============================================================================
