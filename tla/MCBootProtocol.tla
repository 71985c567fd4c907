---------------------------- MODULE MCBootProtocol ----------------------------
(***************************************************************************)
(* Room for fewer than Space = 3 bytes and a receive buffer of two: an     *)
(* empty program, one as long as the buffer, and one that does not fit.    *)
(* With Base = 1 and U32 = 6 the length 5 wraps to before BASE.  The       *)
(* checksum is collision-free: it is the program.                          *)
(***************************************************************************)
EXTENDS BootProtocol

MCPrograms == {<<>>, <<"a", "b">>, <<"a", "b", "a">>}
MCCrc(s) == s

=============================================================================
