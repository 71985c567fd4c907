------------------------------ MODULE Allocator ------------------------------
(***************************************************************************)
(* The heap of lib/src/allocator.rs: blocks are handed out one after the   *)
(* other and never taken back.  The count of used bytes is in a RefCell    *)
(* that is borrowed while alloc works on it, outside critical sections.    *)
(***************************************************************************)
EXTENDS Integers, Sequences

CONSTANTS
  Heap,     \* ALLOCATED_AMOUNT, also the size of the section pinned for the heap
  Layouts   \* sizes and alignments asked for

ASSUME HeapAssumption ==
  /\ Heap \in Nat
  /\ \A l \in Layouts : l.size \in Nat /\ l.align \in Nat \ {0}

VARIABLES
  used,      \* BumpAllocator's used, the offset from HEAP_START of what is free
  borrowed,  \* the RefCell is borrowed
  blocks     \* history: the blocks handed out

heapVars == <<used, borrowed, blocks>>

HeapInit == used = 0 /\ borrowed = FALSE /\ blocks = <<>>

\* Mutant: a count that is not borrowed while it is read and written.
BorrowShared ==
  /\ borrowed' = FALSE
  /\ UNCHANGED <<used, blocks>>

\* The first half of alloc: borrow_mut succeeds.
Borrow ==
  /\ ~borrowed
  /\ borrowed' = TRUE
  /\ UNCHANGED <<used, blocks>>

Fits(layout, seen) == seen + layout.size <= Heap

\* The second half, having seen so much used: the next block.
Bump(layout, seen) ==
  /\ Fits(layout, seen)
  /\ used' = seen + layout.size
  /\ blocks' = Append(blocks, [start |-> seen, size |-> layout.size, align |-> layout.align])
  /\ borrowed' = FALSE

\* The second half: a null pointer.
Exhausted(layout, seen) ==
  /\ ~Fits(layout, seen)
  /\ borrowed' = FALSE
  /\ UNCHANGED <<used, blocks>>

\* Blocks are in the heap and apart, and a block is aligned as it was asked to be if
\* the blocks before it are of multiples of its alignment, for nothing rounds up.
HeapSound ==
  \A i \in DOMAIN blocks :
    LET b == blocks[i]
    IN /\ b.start >= 0 /\ b.start + b.size <= Heap
       /\ \A j \in 1 .. i - 1 : blocks[j].start + blocks[j].size <= b.start
       /\ (\A j \in 1 .. i - 1 : blocks[j].size % b.align = 0) => b.start % b.align = 0

=============================================================================
