-------------------------- MODULE MCCriticalSection --------------------------
(***************************************************************************)
(* Two cells suffice: the one interrupt_vector holds for a whole dispatch  *)
(* (INTERRUPT_HANDLERS) and one that sections of both levels compete for   *)
(* (UART_WRITER, GPROF).  Sections nest twice, as gprof_dump's println.    *)
(***************************************************************************)
EXTENDS CriticalSection

CONSTANTS handlers, uart

MCCells == {handlers, uart}

=============================================================================
