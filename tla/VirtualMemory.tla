--------------------------- MODULE VirtualMemory ---------------------------
(***************************************************************************)
(* Virtual memory with pinned sections (lib/src/virtual_memory.rs) and the *)
(* abort handlers that open a forbidden section on demand                  *)
(* (lib/src/debug.rs 25-45, 138-168).                                      *)
(*                                                                         *)
(* setup pins the kernel's sections, one TLB lockdown entry each, with a   *)
(* page table in which nothing is valid.  An access outside the pins       *)
(* aborts; if it is to the one address 0xa77acc0 (Magic) the handler pins  *)
(* its section too, in the last entry, and the access is tried again.      *)
(* Handlers run with interrupts masked and are one step.  The program is   *)
(* any sequence of the operations, setup's demo being one of them.         *)
(***************************************************************************)
EXTENDS Naturals, Sequences

CONSTANTS
  Kernel,    \* the kernel's sections in the order they are pinned
  Illegal,   \* the section of 0xa77acc0
  Elsewhere, \* any other section
  None

KernelSections == {Kernel[k] : k \in 1 .. Len(Kernel)}

\* Addresses: of the section Illegal Magic and another one, of the others any.
Magic == [section |-> Illegal, word |-> "magic"]
Addresses == [section : KernelSections \cup {Illegal, Elsewhere}, word : {"other"}]
               \cup {Magic}

ASSUME SectionsAssumption ==
  /\ Kernel \in Seq(KernelSections)
  /\ \A j, k \in 1 .. Len(Kernel) : Kernel[j] = Kernel[k] => j = k
  /\ Illegal \notin KernelSections /\ Elsewhere \notin KernelSections \cup {Illegal}
  /\ None \notin Addresses

VARIABLES
  on,        \* the MMU is enabled
  index,     \* lockdown index register
  entry,     \* lockdown entries; the last one is for the section Illegal
  dacr,      \* the kernel's domain is accessible
  context,   \* the page table and the address space are set
  far,       \* fault address register
  watch,     \* watchpoint: its address, or None if disabled
  break,     \* breakpoint 0: disabled or mismatch
  bvr,       \* its address
  stage,     \* how far setup is
  access,    \* the access the program is executing, or Idle
  vector,    \* the abort vector the processor is at
  panicked

vars == <<on, index, entry, dacr, context, far, watch, break, bvr, stage, access,
          vector, panicked>>
tlb == <<index, entry>>
debug == <<watch, break, bvr>>
config == <<dacr, context, stage>>

Last == Len(Kernel)
Idle == [kind |-> "none", address |-> None]

Init ==
  /\ on = FALSE
  /\ index = 0
  /\ entry = [k \in 0 .. Last |-> [va |-> None, valid |-> FALSE]]
  /\ dacr = FALSE /\ context = FALSE
  /\ far = None /\ watch = None /\ break = "disabled" /\ bvr = None
  /\ stage = "init" /\ access = Idle /\ vector = "none" /\ panicked = FALSE

-----------------------------------------------------------------------------
(* setup.                                                                  *)

\* pin_mmu_sec
Pin(k, section) ==
  /\ index' = k
  /\ entry' = [entry EXCEPT ![k] = [va |-> section, valid |-> TRUE]]

MmuInit ==
  /\ stage = "init"
  /\ stage' = "pin"
  /\ UNCHANGED <<on, tlb, dacr, context, far, debug, access, vector, panicked>>

Pinned(k) == entry[k].valid

PinKernel ==
  /\ stage = "pin"
  /\ \E k \in 1 .. Last :
       /\ ~Pinned(k - 1)
       /\ \A j \in 1 .. k - 1 : Pinned(j - 1)
       /\ Pin(k - 1, Kernel[k])
  /\ UNCHANGED <<on, config, far, debug, access, vector, panicked>>

\* The domain, set_ctx; printing the entries leaves the index at the last one.
SetContext ==
  /\ stage = "pin"
  /\ \A k \in 1 .. Last : Pinned(k - 1)
  /\ dacr' = TRUE
  /\ context' = TRUE
  /\ index' = Last
  /\ stage' = "ready"
  /\ UNCHANGED <<on, entry, far, debug, access, vector, panicked>>

-----------------------------------------------------------------------------
(* The program's operations.                                               *)

Ready == stage = "ready" /\ access = Idle /\ ~panicked

Enable ==
  /\ Ready
  /\ ~on
  /\ on' = TRUE
  /\ UNCHANGED <<tlb, config, far, debug, access, vector, panicked>>

Disable ==
  /\ Ready
  /\ on
  /\ on' = FALSE
  /\ UNCHANGED <<tlb, config, far, debug, access, vector, panicked>>

\* Mutant: one entry too early.
PinIllegalEarly == Pin(Last - 1, Illegal)

\* allow_segment_illegal_access
PinIllegal == Pin(Last, Illegal)

Allow ==
  /\ Ready
  /\ PinIllegal
  /\ UNCHANGED <<on, config, far, debug, access, vector, panicked>>

Disallow ==
  /\ Ready
  /\ index' = Last
  /\ entry' = [entry EXCEPT ![index'].valid = FALSE]
  /\ UNCHANGED <<on, config, far, debug, access, vector, panicked>>

SetWatchpoint ==
  /\ Ready
  /\ watch' \in Addresses \cup {None}
  /\ UNCHANGED <<on, tlb, config, far, break, bvr, access, vector, panicked>>

SetBreakpoint ==
  /\ Ready
  /\ \/ break' = "mismatch" /\ bvr' = None
     \/ break' = "disabled" /\ UNCHANGED bvr
  /\ UNCHANGED <<on, tlb, config, far, watch, access, vector, panicked>>

\* A load, store or jump.
Access ==
  /\ Ready
  /\ access' \in [kind : {"data", "jump"}, address : Addresses]
  /\ UNCHANGED <<on, tlb, config, far, debug, vector, panicked>>

-----------------------------------------------------------------------------
(* The processor.                                                          *)

Mapped(section) == \E k \in 0 .. Last : entry[k] = [va |-> section, valid |-> TRUE]

Executing == access # Idle /\ vector = "none" /\ ~panicked
Faults == on /\ ~Mapped(access.address.section)
Watched == access.kind = "data" /\ watch = access.address

\* Only user code is stopped, and no pin lets user code run with the MMU on.
Breaks ==
  ~on /\ access.kind = "jump" /\ break = "mismatch" /\ bvr # access.address

Complete ==
  /\ Executing
  /\ ~Faults /\ ~Watched /\ ~Breaks
  /\ access' = Idle
  /\ UNCHANGED <<on, tlb, config, far, debug, vector, panicked>>

\* A data abort on a fault sets far; on a watchpoint it does not.
DataAbort ==
  /\ Executing
  /\ access.kind = "data"
  /\ \/ Faults /\ far' = access.address
     \/ Watched /\ UNCHANGED far
  /\ vector' = "data"
  /\ UNCHANGED <<on, tlb, config, debug, access, panicked>>

\* A prefetch abort sets ifar, which the handler does not read.
PrefetchAbort ==
  /\ Executing
  /\ access.kind = "jump"
  /\ Faults \/ Breaks
  /\ vector' = "prefetch"
  /\ UNCHANGED <<on, tlb, config, far, debug, access, panicked>>

-----------------------------------------------------------------------------
(* The abort handlers; the access is executed again afterwards.            *)

Handles(v) == vector = v /\ vector' = "none"

\* Mutant: after the watchpoint the address is looked at all the same.
DataVectorFallsThrough ==
  /\ Handles("data")
  /\ watch' = None
  /\ \/ far = Magic /\ PinIllegal /\ UNCHANGED panicked
     \/ far # Magic /\ panicked' = TRUE /\ UNCHANGED tlb
  /\ UNCHANGED <<on, config, far, break, bvr, access>>

\* Mutant: the watchpoint stays enabled.
DataVectorKeepsWatch ==
  /\ Handles("data")
  /\ \/ watch # None /\ UNCHANGED <<tlb, panicked>>
     \/ watch = None /\ far = Magic /\ PinIllegal /\ UNCHANGED panicked
     \/ watch = None /\ far # Magic /\ panicked' = TRUE /\ UNCHANGED tlb
  /\ UNCHANGED <<on, config, far, debug, access>>

\* data_abort_vector: an enabled watchpoint is taken for the cause.
DataVector ==
  /\ Handles("data")
  /\ watch' = None
  /\ \/ watch # None /\ UNCHANGED <<tlb, panicked>>
     \/ watch = None /\ far = Magic /\ PinIllegal /\ UNCHANGED panicked
     \/ watch = None /\ far # Magic /\ panicked' = TRUE /\ UNCHANGED tlb
  /\ UNCHANGED <<on, config, far, break, bvr, access>>

\* prefetch_abort_vector looks at far, wherever the last data abort left it; the
\* single-stepper goes on with the instruction.
PrefetchVector ==
  /\ Handles("prefetch")
  /\ \/ far = Magic /\ PinIllegal /\ UNCHANGED <<bvr, panicked>>
     \/ /\ far # Magic
        /\ \/ break = "disabled" /\ panicked' = TRUE /\ UNCHANGED bvr
           \/ break = "mismatch" /\ bvr' = access.address /\ UNCHANGED panicked
        /\ UNCHANGED tlb
  /\ UNCHANGED <<on, config, far, watch, break, access>>

Setup == MmuInit \/ PinKernel \/ SetContext

Client ==
  \/ Enable
  \/ Disable
  \/ Allow
  \/ Disallow
  \/ SetWatchpoint
  \/ SetBreakpoint
  \/ Access

Processor ==
  \/ Complete
  \/ DataAbort
  \/ PrefetchAbort
  \/ DataVector
  \/ PrefetchVector

Next == Setup \/ Client \/ Processor

Spec == Init /\ [][Next]_vars

\* The processor executes; what the program does next is its own business.
FairSpec == Spec /\ WF_vars(Processor)

-----------------------------------------------------------------------------
(* Properties.                                                             *)

\* The variables have their types; the lockdown index names an existing entry.
TypeOK ==
  /\ {on, dacr, context, panicked} \subseteq BOOLEAN
  /\ index \in 0 .. Last
  /\ entry \in [0 .. Last -> [va : KernelSections \cup {Illegal, None}, valid : BOOLEAN]]
  /\ {far, watch, bvr} \subseteq Addresses \cup {None}
  /\ break \in {"disabled", "mismatch"}
  /\ stage \in {"init", "pin", "ready"}
  /\ access = Idle \/ access \in [kind : {"data", "jump"}, address : Addresses]
  /\ vector \in {"none", "data", "prefetch"}

\* While the MMU is on everything the kernel and its handlers run on is mapped, and
\* the entry that is opened and closed on demand maps nothing but the section
\* Illegal.
KernelMapped ==
  /\ on => /\ dacr /\ context
           /\ \A k \in 1 .. Last : entry[k - 1] = [va |-> Kernel[k], valid |-> TRUE]
  /\ Pinned(Last) => entry[Last].va = Illegal

\* The handlers panic only over an access that really cannot be made, and over one
\* to 0xa77acc0 only if it is a jump and the last data abort was elsewhere: the
\* prefetch handler goes by the address of that abort.
Panics ==
  panicked =>
    /\ Faults \/ Breaks
    /\ access.address = Magic => access.kind = "jump" /\ far # Magic

\* The prefetch handler takes an abort for another one: since the last data abort
\* was at 0xa77acc0, or since the single-stepper is on.
Misled == access.kind = "jump" /\ (far = Magic \/ (Faults /\ break = "mismatch"))

\* Every load and store ends, or panics, however watchpoints and faults coincide,
\* and so does every jump unless the handler is misled; then the jump may abort for
\* ever.
AccessEnds == access # Idle ~> access = Idle \/ panicked \/ Misled

=============================================================================
