------------------------ MODULE VirtualMemoryProof ------------------------
(***************************************************************************)
(* For every sequence of kernel sections, the kernel and its handlers stay *)
(* mapped while the MMU is on, and the handlers panic only over an access  *)
(* that cannot be made.                                                    *)
(***************************************************************************)
EXTENDS VirtualMemory, TLAPS

\* Entries before the last are for the kernel's sections, the last one is for
\* Illegal; after setup all the kernel's are valid; the MMU is only enabled then.
PinInv ==
  /\ \A k \in 1 .. Last : Pinned(k - 1) => entry[k - 1].va = Kernel[k]
  /\ Pinned(Last) => entry[Last].va = Illegal
  /\ stage = "ready" => dacr /\ context /\ \A k \in 1 .. Last : Pinned(k - 1)
  /\ on => stage = "ready"

\* The vector the processor is at has the abort it is for, and data aborts at an
\* unmapped address have left it in far.
AbortInv ==
  /\ access # Idle => stage = "ready"
  /\ panicked => access # Idle
  /\ vector = "data" => access.kind = "data" /\ (watch = None => Faults /\ far = access.address)
  /\ vector = "prefetch" => access.kind = "jump" /\ (Faults \/ Breaks)
  /\ vector # "none" => access # Idle /\ ~panicked

Inv == TypeOK /\ PinInv /\ AbortInv /\ Panics

\* The number of sections is a natural number.
LEMMA LastType == Last \in Nat
BY SectionsAssumption DEF Last

\* At first nothing is pinned and nothing is executed.
LEMMA InitInv == Init => Inv
<1> SUFFICES ASSUME Init
             PROVE  Inv
  OBVIOUS
<1> USE LastType DEF Init
<1>1. TypeOK
  <2>1. index \in 0 .. Last
    OBVIOUS
  <2> QED
    BY <2>1 DEF TypeOK
<1>2. PinInv
  BY DEF PinInv, Pinned
<1>3. AbortInv
  BY DEF AbortInv
<1>4. Panics
  BY DEF Panics
<1> QED
  BY <1>1, <1>2, <1>3, <1>4 DEF Inv

\* Pinning a section changes one entry.
LEMMA PinOne ==
  ASSUME TypeOK, NEW k \in 0 .. Last, NEW s \in KernelSections \cup {Illegal}, Pin(k, s)
  PROVE  /\ index' \in 0 .. Last
         /\ entry' \in [0 .. Last -> [va : KernelSections \cup {Illegal, None},
                                      valid : BOOLEAN]]
         /\ entry'[k] = [va |-> s, valid |-> TRUE]
         /\ \A j \in 0 .. Last : j # k => entry'[j] = entry[j]
<1>1. index' = k /\ entry' = [entry EXCEPT ![k] = [va |-> s, valid |-> TRUE]]
  BY DEF Pin
<1>2. [va |-> s, valid |-> TRUE] \in [va : KernelSections \cup {Illegal, None}, valid : BOOLEAN]
  OBVIOUS
<1> QED
  BY <1>1, <1>2 DEF TypeOK

\* Setup pins one section after the other; nothing is executed meanwhile.
LEMMA SetupStep == ASSUME Inv, Setup PROVE Inv'
<1> USE LastType DEF Inv
<1>1. /\ stage # "ready" /\ stage' \in {"pin", "ready"}
      /\ ~on /\ access = Idle /\ vector = "none" /\ ~panicked
      /\ UNCHANGED <<on, access, vector, panicked, far, watch, break, bvr>>
  BY DEF Setup, MmuInit, PinKernel, SetContext, config, debug, tlb, TypeOK, PinInv, AbortInv
<1>2. AbortInv' /\ Panics'
  BY <1>1 DEF AbortInv, Panics
<1>3. CASE MmuInit
  BY <1>1, <1>2, <1>3 DEF MmuInit, tlb, TypeOK, PinInv, Pinned
<1>4. CASE PinKernel
  <2>1. PICK k \in 1 .. Last : ~Pinned(k - 1) /\ Pin(k - 1, Kernel[k])
    BY <1>4 DEF PinKernel
  <2>2. k - 1 \in 0 .. Last /\ Kernel[k] \in KernelSections
    BY <2>1 DEF Last, KernelSections
  <2>3. /\ index' \in 0 .. Last
        /\ entry' \in [0 .. Last -> [va : KernelSections \cup {Illegal, None},
                                     valid : BOOLEAN]]
        /\ entry'[k - 1] = [va |-> Kernel[k], valid |-> TRUE]
        /\ \A j \in 0 .. Last : j # k - 1 => entry'[j] = entry[j]
    BY <2>1, <2>2, PinOne
  <2>4. stage' = "pin" /\ UNCHANGED <<dacr, context>>
    BY <1>4 DEF PinKernel, config
  <2>5. TypeOK'
    BY <1>1, <2>3, <2>4 DEF TypeOK
  <2>6. PinInv'
    BY <1>1, <2>2, <2>3, <2>4 DEF PinInv, Pinned
  <2> QED
    BY <1>2, <2>5, <2>6
<1>5. CASE SetContext
  <2>1. TypeOK'
    BY <1>1, <1>5 DEF SetContext, TypeOK
  <2>2. PinInv'
    BY <1>1, <1>5 DEF SetContext, PinInv, Pinned
  <2> QED
    BY <1>2, <2>1, <2>2
<1> QED
  BY <1>3, <1>4, <1>5 DEF Setup

\* Opening the section Illegal leaves the kernel's entries alone.
LEMMA PinIllegalKeeps ==
  ASSUME TypeOK, PinInv, PinIllegal, UNCHANGED <<on, dacr, context, stage>>
  PROVE  /\ PinInv'
         /\ index' \in 0 .. Last
         /\ entry' \in [0 .. Last -> [va : KernelSections \cup {Illegal, None},
                                      valid : BOOLEAN]]
<1>1. Last \in 0 .. Last
  BY LastType
<1>2. /\ entry'[Last] = [va |-> Illegal, valid |-> TRUE]
      /\ \A j \in 0 .. Last : j # Last => entry'[j] = entry[j]
  BY <1>1, PinOne DEF PinIllegal
<1>3. \A k \in 1 .. Last : entry'[k - 1] = entry[k - 1]
  BY <1>2, LastType
<1>4. PinInv'
  BY <1>2, <1>3 DEF PinInv, Pinned
<1> QED
  BY <1>1, <1>4, PinOne DEF PinIllegal

\* Closing it does, too.
LEMMA DisallowKeeps ==
  ASSUME TypeOK, PinInv, Disallow
  PROVE  TypeOK' /\ PinInv'
<1>1. /\ index' = Last
      /\ entry' = [entry EXCEPT ![Last].valid = FALSE]
      /\ UNCHANGED <<on, dacr, context, stage, far, watch, break, bvr, access, vector, panicked>>
  BY DEF Disallow, config, debug
<1>2. Last \in 0 .. Last
  BY LastType
<1>3. /\ entry' \in [0 .. Last -> [va : KernelSections \cup {Illegal, None}, valid : BOOLEAN]]
      /\ entry'[Last].valid = FALSE
      /\ \A j \in 0 .. Last : j # Last => entry'[j] = entry[j]
  BY <1>1, <1>2 DEF TypeOK
<1>4. TypeOK'
  BY <1>1, <1>2, <1>3 DEF TypeOK
<1>5. \A k \in 1 .. Last : entry'[k - 1] = entry[k - 1]
  BY <1>3, LastType
<1> QED
  BY <1>1, <1>3, <1>4, <1>5 DEF PinInv, Pinned

\* The program's operations: nothing is executed but, afterwards, an access.
LEMMA ClientStep == ASSUME Inv, Client PROVE Inv'
<1> USE DEF Inv
<1>1. Ready /\ UNCHANGED <<config, far, vector, panicked>>
  <2>1. CASE Enable \/ Disable \/ Allow \/ Disallow
    BY <2>1 DEF Enable, Disable, Allow, Disallow
  <2>2. CASE SetWatchpoint \/ SetBreakpoint \/ Access
    BY <2>2 DEF SetWatchpoint, SetBreakpoint, Access
  <2> QED
    BY <2>1, <2>2 DEF Client
<1>2. Ready /\ UNCHANGED <<stage, dacr, context, far, vector, panicked>>
  BY <1>1 DEF config
<1>3. vector = "none" /\ stage = "ready" /\ ~panicked
  BY <1>2 DEF AbortInv, Ready
<1>4. AbortInv' /\ Panics'
  BY <1>2, <1>3 DEF AbortInv, Panics
<1>5. CASE Enable
  BY <1>2, <1>3, <1>4, <1>5 DEF Enable, Ready, TypeOK, PinInv, Pinned, tlb, debug
<1>6. CASE Disable
  <2>1. UNCHANGED <<index, entry, watch, break, bvr, access>> /\ on' = FALSE
    BY <1>6 DEF Disable, tlb, debug
  <2>2. TypeOK'
    BY <1>2, <2>1 DEF TypeOK
  <2>3. PinInv'
    BY <1>2, <2>1 DEF PinInv, Pinned
  <2> QED
    BY <1>4, <2>2, <2>3
<1>7. CASE Allow
  <2>1. PinInv' /\ index' \in 0 .. Last
        /\ entry' \in [0 .. Last -> [va : KernelSections \cup {Illegal, None},
                                     valid : BOOLEAN]]
    BY <1>2, <1>7, PinIllegalKeeps DEF Allow
  <2>2. TypeOK'
    BY <1>2, <1>7, <2>1 DEF Allow, TypeOK, debug
  <2> QED
    BY <1>4, <2>1, <2>2
<1>8. CASE Disallow
  BY <1>4, <1>8, DisallowKeeps
<1>9. CASE SetWatchpoint
  BY <1>2, <1>3, <1>4, <1>9 DEF SetWatchpoint, TypeOK, PinInv, Pinned, tlb
<1>10. CASE SetBreakpoint
  BY <1>2, <1>3, <1>4, <1>10 DEF SetBreakpoint, TypeOK, PinInv, Pinned, tlb
<1>11. CASE Access
  BY <1>2, <1>3, <1>4, <1>11 DEF Access, TypeOK, PinInv, Pinned, tlb, debug
<1> QED
  BY <1>5, <1>6, <1>7, <1>8, <1>9, <1>10, <1>11 DEF Client

\* The processor and the handlers: an abort goes to the vector that it is for, and a
\* handler that panics has found an address other than 0xa77acc0 in far.
LEMMA ProcessorStep == ASSUME Inv, Processor PROVE Inv'
<1> USE DEF Inv
<1>1. CASE Complete
  BY <1>1 DEF Complete, Executing, TypeOK, PinInv, Pinned, AbortInv, Panics, tlb, debug, config
<1>2. CASE DataAbort
  <2>1. UNCHANGED <<on, index, entry, dacr, context, watch, break, bvr, stage, access, panicked>>
        /\ access # Idle /\ ~panicked /\ access.kind = "data" /\ vector' = "data"
    BY <1>2 DEF DataAbort, Executing, tlb, debug, config
  <2>2. access.address \in Addresses
    BY <2>1 DEF TypeOK
  <2>3. far' \in Addresses \cup {None}
    BY <1>2, <2>2 DEF DataAbort, TypeOK
  <2>4. TypeOK'
    BY <2>1, <2>3 DEF TypeOK
  <2>5. PinInv'
    BY <2>1 DEF PinInv, Pinned
  <2>6. watch = None => Faults /\ far' = access.address
    BY <1>2, <2>2, SectionsAssumption DEF DataAbort, Watched
  <2>7. AbortInv'
    BY <2>1, <2>6 DEF AbortInv, Faults, Mapped
  <2> QED
    BY <2>1, <2>4, <2>5, <2>7 DEF Panics
<1>3. CASE PrefetchAbort
  BY <1>3 DEF PrefetchAbort, Executing, TypeOK, PinInv, Pinned, AbortInv, Panics, tlb, debug,
              config, Faults, Breaks, Mapped
<1>4. CASE DataVector
  <2>1. /\ UNCHANGED <<on, dacr, context, stage, far, break, bvr, access>>
        /\ vector = "data" /\ vector' = "none" /\ watch' = None
        /\ access.kind = "data" /\ access # Idle /\ ~panicked /\ stage = "ready"
    BY <1>4 DEF DataVector, Handles, config, AbortInv
  <2>2. AbortInv'
    BY <2>1 DEF AbortInv
  <2>3. CASE PinIllegal /\ UNCHANGED panicked
    BY <2>1, <2>2, <2>3, PinIllegalKeeps DEF TypeOK, Panics
  <2>4. CASE UNCHANGED <<index, entry, panicked>>
    BY <2>1, <2>2, <2>4 DEF TypeOK, PinInv, Pinned, Panics
  <2>5. CASE watch = None /\ far # Magic /\ panicked' = TRUE /\ UNCHANGED <<index, entry>>
    <3>1. Faults /\ access.address # Magic
      BY <2>1, <2>5 DEF AbortInv
    <3>2. Panics'
      BY <2>1, <2>5, <3>1 DEF Panics, Faults, Mapped
    <3> QED
      BY <2>1, <2>2, <2>5, <3>2 DEF TypeOK, PinInv, Pinned
  <2> QED
    BY <1>4, <2>3, <2>4, <2>5 DEF DataVector, tlb
<1>5. CASE PrefetchVector
  <2>1. /\ UNCHANGED <<on, dacr, context, stage, far, watch, break, access>>
        /\ vector = "prefetch" /\ vector' = "none"
        /\ access.kind = "jump" /\ access # Idle /\ ~panicked /\ stage = "ready"
    BY <1>5 DEF PrefetchVector, Handles, config, AbortInv
  <2>2. AbortInv'
    BY <2>1 DEF AbortInv
  <2>3. CASE PinIllegal /\ UNCHANGED <<bvr, panicked>>
    BY <2>1, <2>2, <2>3, PinIllegalKeeps DEF TypeOK, Panics
  <2>4. CASE bvr' = access.address /\ UNCHANGED <<index, entry, panicked>>
    <3>1. access.address \in Addresses
      BY <2>1 DEF TypeOK
    <3> QED
      BY <2>1, <2>2, <2>4, <3>1 DEF TypeOK, PinInv, Pinned, Panics
  <2>5. CASE far # Magic /\ break = "disabled" /\ panicked' = TRUE /\ UNCHANGED <<bvr, index, entry>>
    <3>1. Faults
      BY <2>1, <2>5 DEF AbortInv, Breaks
    <3>2. Panics'
      BY <2>1, <2>5, <3>1 DEF Panics, Faults, Mapped
    <3> QED
      BY <2>1, <2>2, <2>5, <3>2 DEF TypeOK, PinInv, Pinned
  <2> QED
    BY <1>5, <2>3, <2>4, <2>5 DEF PrefetchVector, tlb
<1> QED
  BY <1>1, <1>2, <1>3, <1>4, <1>5 DEF Processor

\* The invariant is inductive.
LEMMA Inductive == Spec => []Inv
<1>1. ASSUME Inv, [Next]_vars
      PROVE  Inv'
  <2>1. CASE UNCHANGED vars
    BY <1>1, <2>1 DEF vars, Inv, TypeOK, PinInv, Pinned, AbortInv, Panics, Faults, Breaks, Mapped
  <2> QED
    BY <1>1, <2>1, SetupStep, ClientStep, ProcessorStep DEF Next
<1> QED
  BY <1>1, InitInv, PTL DEF Spec

\* The variables have their types.
THEOREM TypeCorrect == Spec => []TypeOK
<1>1. Inv => TypeOK
  BY DEF Inv
<1> QED
  BY <1>1, Inductive, PTL

\* While the MMU is on the kernel and its handlers are mapped, whatever is opened
\* and closed on demand.
THEOREM KernelStaysMapped == Spec => []KernelMapped
<1>1. ASSUME Inv
      PROVE  KernelMapped
  <2>1. ASSUME on, NEW k \in 1 .. Last
        PROVE  entry[k - 1] = [va |-> Kernel[k], valid |-> TRUE]
    <3>1. k - 1 \in 0 .. Last
      BY LastType
    <3>2. entry[k - 1] \in [va : KernelSections \cup {Illegal, None}, valid : BOOLEAN]
      BY <1>1, <3>1 DEF Inv, TypeOK
    <3>3. entry[k - 1].valid = TRUE /\ entry[k - 1].va = Kernel[k]
      BY <1>1, <2>1, <3>2 DEF Inv, PinInv, Pinned
    <3> QED
      BY <3>2, <3>3
  <2> QED
    BY <1>1, <2>1 DEF Inv, PinInv, KernelMapped
<1> QED
  BY <1>1, Inductive, PTL

\* The handlers panic only over an access that cannot be made, and not over one that
\* they could have opened unless it is a jump.
THEOREM PanicsJustified == Spec => []Panics
<1>1. Inv => Panics
  BY DEF Inv
<1> QED
  BY <1>1, Inductive, PTL
=============================================================================
