-------------------------- MODULE CriticalSection --------------------------
(***************************************************************************)
(* Critical sections on a single ARM1176 core (lib/src/critical_section.rs *)
(* over enable_interrupts / disable_interrupts of lib/src/interrupts.rs).  *)
(*                                                                         *)
(* A section is opened by reading cpsr (mrs), writing it back with I set   *)
(* (msr), and keeping "interrupts were enabled" as the token; it is closed *)
(* by dropping the RefCell borrows made inside it and, if the token says   *)
(* so, a second mrs / msr pair that clears I.  An interrupt may be taken   *)
(* between any two instructions while I is clear, so every mrs / msr pair  *)
(* is two steps here.                                                      *)
(*                                                                         *)
(* Two levels of execution: the program (0) and the IRQ handler (1), which *)
(* the hardware enters with I set and which returns through spsr.          *)
(***************************************************************************)
EXTENDS Naturals, FiniteSets

CONSTANTS
  Cells,         \* the Mutex<RefCell<..>> statics
  DispatchCell,  \* INTERRUPT_HANDLERS: borrowed by interrupt_vector itself
  MaxNest        \* bound: how deep sections nest at one level

ASSUME ConstantsAssumption ==
  /\ DispatchCell \in Cells
  /\ MaxNest \in Nat \ {0}

Levels == {0, 1}
Program == 0
Handler == 1

VARIABLES
  cpsr,     \* current program status: the I bit and the mode
  spsr,     \* the copy of cpsr banked for IRQ mode
  pc,       \* per level: which mrs / msr pair the level is in the middle of
  r,        \* per level: the value its last mrs read (register r0)
  depth,    \* per level: number of open sections
  tok,      \* per level and section: the RawRestoreState token
  holder,   \* per cell: the section <<level, depth>> holding it, or Free
  pending,  \* the interrupt line
  want,     \* history: the program's last own enable / disable
  panicked  \* a RefCell was already borrowed

vars == <<cpsr, spsr, pc, r, depth, tok, holder, pending, want, panicked>>

Modes == {"svc", "user", "irq"}
Psr == [i : BOOLEAN, mode : Modes]
Labels == {"run", "acquire", "release", "enable", "disable"}
Sections == Levels \X (0 .. MaxNest)
Free == <<2, 0>>

level == IF cpsr.mode = "irq" THEN Handler ELSE Program

TypeOK ==
  /\ cpsr \in Psr
  /\ spsr \in Psr
  /\ pc \in [Levels -> Labels]
  /\ r \in [Levels -> Psr]
  /\ depth \in [Levels -> 0 .. MaxNest]
  /\ tok \in [Levels -> [1 .. MaxNest -> BOOLEAN]]
  /\ holder \in [Cells -> Sections \cup {Free}]
  /\ pending \in BOOLEAN
  /\ want \in BOOLEAN
  /\ panicked \in BOOLEAN

\* _start: supervisor mode with I set, nothing borrowed.
Init ==
  /\ cpsr = [i |-> TRUE, mode |-> "svc"]
  /\ spsr = [i |-> TRUE, mode |-> "svc"]
  /\ pc = [l \in Levels |-> "run"]
  /\ r = [l \in Levels |-> cpsr]
  /\ depth = [l \in Levels |-> 0]
  /\ tok = [l \in Levels |-> [d \in 1 .. MaxNest |-> FALSE]]
  /\ holder = [c \in Cells |-> Free]
  /\ pending = FALSE
  /\ want = FALSE
  /\ panicked = FALSE

-----------------------------------------------------------------------------
(* The processor.                                                          *)

\* Level l executes its next instruction.
At(l, label) ==
  /\ ~panicked
  /\ level = l
  /\ pc[l] = label

\* mrs r0, cpsr
Mrs(l, label) ==
  /\ r' = [r EXCEPT ![l] = cpsr]
  /\ pc' = [pc EXCEPT ![l] = label]

\* msr cpsr_c, r1 where r1 is r0 with I set or cleared: it writes the mode too,
\* and changes neither in user mode.
MsrValue(l, mask) ==
  IF cpsr.mode = "user" THEN cpsr ELSE [r[l] EXCEPT !.i = mask]

Msr(l, mask) ==
  /\ cpsr' = MsrValue(l, mask)
  /\ pc' = [pc EXCEPT ![l] = "run"]

\* Dropping the RefMut guards of level l's innermost section.
Dropped(l) ==
  [c \in Cells |-> IF holder[c] = <<l, depth[l]>> THEN Free ELSE holder[c]]

-----------------------------------------------------------------------------
(* critical_section::with: acquire, the closure's borrows, release.        *)

BeginAcquire(l) ==
  /\ At(l, "run")
  /\ depth[l] < MaxNest
  /\ Mrs(l, "acquire")
  /\ UNCHANGED <<cpsr, spsr, depth, tok, holder, pending, want, panicked>>

\* Mutant: the orr is dropped, so the msr masks nothing.
AcquireUnmasked(l) ==
  /\ At(l, "acquire")
  /\ cpsr' = r[l]
  /\ pc' = [pc EXCEPT ![l] = "run"]
  /\ depth' = [depth EXCEPT ![l] = @ + 1]
  /\ tok' = [tok EXCEPT ![l][depth[l] + 1] = ~r[l].i]
  /\ UNCHANGED <<spsr, r, holder, pending, want, panicked>>

\* Mutant: the wrapper tests == 1 where the assembly returns the I bit.
AcquireInverted(l) ==
  /\ At(l, "acquire")
  /\ Msr(l, TRUE)
  /\ depth' = [depth EXCEPT ![l] = @ + 1]
  /\ tok' = [tok EXCEPT ![l][depth[l] + 1] = r[l].i]
  /\ UNCHANGED <<spsr, r, holder, pending, want, panicked>>

\* acquire() returns disable_interrupts(): true iff they were enabled.
Acquire(l) ==
  /\ At(l, "acquire")
  /\ Msr(l, TRUE)
  /\ depth' = [depth EXCEPT ![l] = @ + 1]
  /\ tok' = [tok EXCEPT ![l][depth[l] + 1] = ~r[l].i]
  /\ UNCHANGED <<spsr, r, holder, pending, want, panicked>>

\* borrow_ref_mut inside the section; a level does not borrow what it holds.
Borrow(l, c) ==
  /\ At(l, "run")
  /\ depth[l] > 0
  /\ holder[c] = Free \/ holder[c][1] # l
  /\ IF holder[c] = Free
     THEN /\ holder' = [holder EXCEPT ![c] = <<l, depth[l]>>]
          /\ UNCHANGED panicked
     ELSE /\ panicked' = TRUE
          /\ UNCHANGED holder
  /\ UNCHANGED <<cpsr, spsr, pc, r, depth, tok, pending, want>>

\* Mutant: release enables interrupts without looking at its token.
ReleaseRegardless(l) ==
  /\ At(l, "run")
  /\ depth[l] > 0
  /\ ~tok[l][depth[l]]
  /\ holder' = Dropped(l)
  /\ depth' = [depth EXCEPT ![l] = @ - 1]
  /\ cpsr' = [cpsr EXCEPT !.i = (cpsr.mode = "user")]
  /\ UNCHANGED <<spsr, pc, r, tok, pending, want, panicked>>

\* release(false): nothing but the borrows is undone.
ReleaseNested(l) ==
  /\ At(l, "run")
  /\ depth[l] > 0
  /\ ~tok[l][depth[l]]
  /\ holder' = Dropped(l)
  /\ depth' = [depth EXCEPT ![l] = @ - 1]
  /\ UNCHANGED <<cpsr, spsr, pc, r, tok, pending, want, panicked>>

\* release(true): enable_interrupts().
BeginRelease(l) ==
  /\ At(l, "run")
  /\ depth[l] > 0
  /\ tok[l][depth[l]]
  /\ holder' = Dropped(l)
  /\ Mrs(l, "release")
  /\ UNCHANGED <<cpsr, spsr, depth, tok, pending, want, panicked>>

Release(l) ==
  /\ At(l, "release")
  /\ Msr(l, FALSE)
  /\ depth' = [depth EXCEPT ![l] = @ - 1]
  /\ UNCHANGED <<spsr, r, tok, holder, pending, want, panicked>>

-----------------------------------------------------------------------------
(* The program's own calls, made outside every section.                    *)

BeginEnable ==
  /\ At(Program, "run")
  /\ depth[Program] = 0
  /\ Mrs(Program, "enable")
  /\ UNCHANGED <<cpsr, spsr, depth, tok, holder, pending, want, panicked>>

Enable ==
  /\ At(Program, "enable")
  /\ Msr(Program, FALSE)
  /\ want' = (want \/ cpsr.mode # "user")
  /\ UNCHANGED <<spsr, r, depth, tok, holder, pending, panicked>>

BeginDisable ==
  /\ At(Program, "run")
  /\ depth[Program] = 0
  /\ Mrs(Program, "disable")
  /\ UNCHANGED <<cpsr, spsr, depth, tok, holder, pending, want, panicked>>

Disable ==
  /\ At(Program, "disable")
  /\ Msr(Program, TRUE)
  /\ want' = (want /\ cpsr.mode = "user")
  /\ UNCHANGED <<spsr, r, depth, tok, holder, pending, panicked>>

\* run_user_code_asm: msr cpsr with USER_MODE and I set; it never returns.
RunUserCode ==
  /\ At(Program, "run")
  /\ depth[Program] = 0
  /\ cpsr.mode = "svc"
  /\ cpsr' = [i |-> TRUE, mode |-> "user"]
  /\ want' = FALSE
  /\ UNCHANGED <<spsr, pc, r, depth, tok, holder, pending, panicked>>

-----------------------------------------------------------------------------
(* The hardware and interrupt_asm / interrupt_vector.                      *)

Raise ==
  /\ ~pending
  /\ pending' = TRUE
  /\ UNCHANGED <<cpsr, spsr, pc, r, depth, tok, holder, want, panicked>>

\* Mutant: interrupt_asm pushes r4-r12 only, as software_interrupt_asm does, and
\* the handler's r0 is what the interrupted code finds.
IrqEntryClobbers ==
  /\ ~panicked
  /\ pending
  /\ ~cpsr.i
  /\ spsr' = cpsr
  /\ cpsr' = [i |-> TRUE, mode |-> "irq"]
  /\ holder' = [holder EXCEPT ![DispatchCell] = <<Handler, 0>>]
  /\ r' = [r EXCEPT ![Program] = cpsr']
  /\ UNCHANGED <<pc, depth, tok, pending, want, panicked>>

\* The core banks cpsr and sets I; interrupt_vector borrows the handlers.
IrqEntry ==
  /\ ~panicked
  /\ pending
  /\ ~cpsr.i
  /\ spsr' = cpsr
  /\ cpsr' = [i |-> TRUE, mode |-> "irq"]
  /\ IF holder[DispatchCell] = Free
     THEN /\ holder' = [holder EXCEPT ![DispatchCell] = <<Handler, 0>>]
          /\ UNCHANGED panicked
     ELSE /\ panicked' = TRUE
          /\ UNCHANGED holder
  /\ UNCHANGED <<pc, r, depth, tok, pending, want>>

\* A handler clears its device (clear_event, ARM_TIMER_IRQ_CLEAR).
ClearDevice ==
  /\ At(Handler, "run")
  /\ pending
  /\ pending' = FALSE
  /\ UNCHANGED <<cpsr, spsr, pc, r, depth, tok, holder, want, panicked>>

\* Mutant: the borrow of the handler table outlives the dispatch.
IrqReturnLeaks ==
  /\ At(Handler, "run")
  /\ depth[Handler] = 0
  /\ cpsr' = spsr
  /\ UNCHANGED <<spsr, pc, r, depth, tok, holder, pending, want, panicked>>

\* interrupt_vector returns; movs pc, lr copies spsr to cpsr.
IrqReturn ==
  /\ At(Handler, "run")
  /\ depth[Handler] = 0
  /\ cpsr' = spsr
  /\ holder' = Dropped(Handler)
  /\ UNCHANGED <<spsr, pc, r, depth, tok, pending, want, panicked>>

Step(l) ==
  \/ BeginAcquire(l)
  \/ Acquire(l)
  \/ \E c \in Cells : Borrow(l, c)
  \/ ReleaseNested(l)
  \/ BeginRelease(l)
  \/ Release(l)

Next ==
  \/ \E l \in Levels : Step(l)
  \/ BeginEnable
  \/ Enable
  \/ BeginDisable
  \/ Disable
  \/ RunUserCode
  \/ Raise
  \/ IrqEntry
  \/ ClearDevice
  \/ IrqReturn

Spec == Init /\ [][Next]_vars

(***************************************************************************)
(* Fairness.  The core keeps executing: a begun mrs / msr pair finishes, a *)
(* closure passed to critical_section::with runs to its end (so the        *)
(* section at each depth is left again and again rather than never), a     *)
(* handler returns.  Taking the interrupt needs strong fairness: the       *)
(* program may open sections forever, and the core samples the line at     *)
(* every instruction boundary between two of them.                         *)
(***************************************************************************)
LeaveAt(l, d) ==
  /\ depth[l] = d
  /\ ReleaseNested(l) \/ BeginRelease(l)

Fairness ==
  /\ \A l \in Levels :
       /\ WF_vars(Acquire(l))
       /\ WF_vars(Release(l))
       /\ \A d \in 1 .. MaxNest : SF_vars(LeaveAt(l, d))
  /\ WF_vars(Enable)
  /\ WF_vars(Disable)
  /\ SF_vars(IrqEntry)
  /\ SF_vars(IrqReturn)

FairSpec == Spec /\ Fairness

-----------------------------------------------------------------------------
(* Properties.                                                             *)

\* The program's view of cpsr: what the handler will give back to it.
ProgramPsr == IF level = Handler THEN spsr ELSE cpsr

\* No handler ever meets a cell the code it interrupted has borrowed, and
\* interrupt_vector itself never does: the borrow_ref_mut of every
\* Mutex<RefCell<..>> in the crate relies on it.
NoBorrowPanic == ~panicked

\* The TODO in enable_interrupts asks whether r0 can go stale when the core is
\* interrupted between the mrs and the msr.  It cannot: whenever a level is
\* about to execute its msr, r0 still equals cpsr.
NoStaleMsr ==
  /\ level = Program /\ pc[Program] # "run" => r[Program] = cpsr
  /\ level = Handler /\ pc[Handler] # "run" => r[Handler] = cpsr

\* Whatever nests and whatever interrupts, once every section is closed the
\* I bit is what the program itself last asked for, and inside a section of
\* the program it is set.
RestoreState ==
  IF depth[Program] = 0
  THEN ProgramPsr.i <=> ~want
  ELSE /\ ProgramPsr.i
       /\ level = Program

\* A raised interrupt is delivered, if the program eventually wants interrupts
\* for good: sections delay it and never lose it.
Delivered == <>[]want => (pending ~> level = Handler)

\* The sections, tokens and the I bit implement atomic sections that leave the
\* program's choice alone.
Abstract == INSTANCE AtomicSections WITH
  open <- depth[Program],
  active <- level = Handler

Refines == Abstract!Spec

-----------------------------------------------------------------------------
(* The inductive invariant.                                                *)

\* A handler runs with I set, above a program that had it clear.
HandlerInv ==
  /\ level = Handler => cpsr.i /\ ~spsr.i /\ spsr.mode # "irq"
  /\ level = Program => depth[Handler] = 0 /\ pc[Handler] = "run"

\* The outermost token of the program records what it wanted, every other
\* token is false, a begun release is that of a true token, and a begun acquire
\* has room for its section.
TokenInv ==
  /\ \A l \in Levels : pc[l] = "acquire" => depth[l] < MaxNest
  /\ \A d \in 1 .. depth[Program] : tok[Program][d] <=> d = 1 /\ want
  /\ \A d \in 1 .. depth[Handler] : ~tok[Handler][d]
  /\ \A l \in Levels : pc[l] = "release" => depth[l] > 0 /\ tok[l][depth[l]]
  /\ pc[Program] \in {"enable", "disable"} => depth[Program] = 0
  /\ pc[Handler] \in {"run", "acquire"}

MaskInv ==
  /\ ProgramPsr.i <=> depth[Program] > 0 \/ ~want
  /\ ProgramPsr.mode = "user" => ~want
  /\ ProgramPsr.mode # "irq"

\* The read value is current at each level, interrupted or not.
ReadInv ==
  /\ pc[Program] # "run" => r[Program] = ProgramPsr
  /\ pc[Handler] # "run" => r[Handler] = cpsr

\* A held cell belongs to an open section, or to the running dispatch.
HolderInv ==
  /\ \A c \in Cells : holder[c] # Free =>
       \/ /\ holder[c][2] > 0
          /\ holder[c][2] <= depth[holder[c][1]]
       \/ /\ level = Handler
          /\ c = DispatchCell
          /\ holder[c] = <<Handler, 0>>
  /\ \A c \in Cells, l \in Levels : pc[l] = "release" => holder[c] # <<l, depth[l]>>

Inv ==
  /\ TypeOK
  /\ NoBorrowPanic
  /\ HandlerInv
  /\ TokenInv
  /\ MaskInv
  /\ ReadInv
  /\ HolderInv

=============================================================================
