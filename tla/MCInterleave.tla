---------------------------- MODULE MCInterleave ----------------------------
(***************************************************************************)
(* Interleave with the instructions of thread_a (SHARED_STATE *= 2; += 1)  *)
(* and thread_b (a store elsewhere) of lib/src/debug.rs.                   *)
(***************************************************************************)
EXTENDS Interleave

MCCode ==
  [f \in {"A", "B"} |->
     IF f = "A"
     THEN <<"load", "double", "store", "load", "increment", "store", "return">>
     ELSE <<"other", "return">>]

=============================================================================
