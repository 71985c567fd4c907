------------------------------ MODULE MCConsole ------------------------------
(***************************************************************************)
(* A FIFO of one and a half lines, a heap of four bytes; blocks of one     *)
(* and of two bytes and the page table, which takes the heap.              *)
(***************************************************************************)
EXTENDS Console

MCLayouts == {[size |-> 1, align |-> 1], [size |-> 2, align |-> 2], [size |-> 4, align |-> 1]}

=============================================================================
