---------------------------- MODULE MCExceptions ----------------------------
(***************************************************************************)
(* The application and two user-mode threads.                              *)
(***************************************************************************)
EXTENDS Exceptions, TLC

CONSTANTS a, b

MCThreads == {a, b}
Symmetry == Permutations(MCThreads)
=============================================================================
