-------------------------- MODULE MCVirtualMemory --------------------------
(***************************************************************************)
(* Two of the kernel's seven sections.                                     *)
(***************************************************************************)
EXTENDS VirtualMemory

CONSTANTS code, stack

MCKernel == <<code, stack>>
=============================================================================
