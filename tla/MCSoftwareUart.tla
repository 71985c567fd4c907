--------------------------- MODULE MCSoftwareUart ---------------------------
(***************************************************************************)
(* The pin of the UART and a handler's pin in the same registers.  No byte *)
(* and two bytes of two bits, four cycles a bit, a counter of sixteen that *)
(* wraps at every place of a frame.  Interrupts of a quarter of a bit, and *)
(* of more than a bit.                                                     *)
(***************************************************************************)
EXTENDS SoftwareUart

MCOne(p) == 1
MCMessages == {<<>>, <<1, 2>>}
MCOffsets == 0 .. 15

=============================================================================
