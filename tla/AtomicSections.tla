--------------------------- MODULE AtomicSections ---------------------------
(***************************************************************************)
(* What the critical-section implementation of pi0-lib promises to the     *)
(* code above it, with no processor state at all: the program either wants *)
(* interrupts or does not, it may be inside a number of nested sections,   *)
(* and a handler is delivered only when interrupts are wanted, no section  *)
(* is open and no other handler is active.                                 *)
(***************************************************************************)
EXTENDS Naturals

VARIABLES
  want,      \* the program's own last enable_interrupts / disable_interrupts
  open,      \* how many nested critical sections the program is inside
  active,    \* an interrupt handler is running
  pending    \* a device asserts the interrupt line

vars == <<want, open, active, pending>>

TypeOK ==
  /\ want \in BOOLEAN
  /\ open \in Nat
  /\ active \in BOOLEAN
  /\ pending \in BOOLEAN

Init ==
  /\ want = FALSE
  /\ open = 0
  /\ active = FALSE
  /\ pending = FALSE

\* Only the program, outside every section, changes its mind.
SetWant ==
  /\ ~active
  /\ open = 0
  /\ want' \in BOOLEAN
  /\ UNCHANGED <<open, active, pending>>

Open ==
  /\ ~active
  /\ open' = open + 1
  /\ UNCHANGED <<want, active, pending>>

Close ==
  /\ ~active
  /\ open > 0
  /\ open' = open - 1
  /\ UNCHANGED <<want, active, pending>>

Raise ==
  /\ pending' = TRUE
  /\ UNCHANGED <<want, open, active>>

Deliver ==
  /\ pending
  /\ want
  /\ open = 0
  /\ ~active
  /\ active' = TRUE
  /\ UNCHANGED <<want, open, pending>>

\* The handler quiets the device, at any moment before it returns.
Quiet ==
  /\ active
  /\ pending' = FALSE
  /\ UNCHANGED <<want, open, active>>

Finish ==
  /\ active
  /\ active' = FALSE
  /\ UNCHANGED <<want, open, pending>>

Next ==
  \/ SetWant
  \/ Open
  \/ Close
  \/ Raise
  \/ Deliver
  \/ Quiet
  \/ Finish

Spec == Init /\ [][Next]_vars

=============================================================================
