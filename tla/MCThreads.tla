------------------------------ MODULE MCThreads ------------------------------
(***************************************************************************)
(* Two places in the queue and four forks reach every way of exceeding it: *)
(* a fork into a full queue and a yield with one thread too many.          *)
(***************************************************************************)
EXTENDS Threads

=============================================================================
