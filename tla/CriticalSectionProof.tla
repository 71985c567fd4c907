------------------------ MODULE CriticalSectionProof ------------------------
(***************************************************************************)
(* Proofs about CriticalSection for every set of cells and every nesting   *)
(* bound.  Inv is inductive: each conjunct is preserved by every action    *)
(* (one lemma per conjunct, one step per action), and the four properties  *)
(* the module is about follow from it.                                     *)
(***************************************************************************)
EXTENDS CriticalSection, TLAPS

\* _start establishes the invariant: nothing open, nothing borrowed, I set.
LEMMA InitInv == Init => Inv
<1> SUFFICES ASSUME Init PROVE Inv
  OBVIOUS
<1> USE ConstantsAssumption DEF Init, Levels, Program, Handler, level
<1>1. TypeOK
  <2>1. cpsr \in Psr /\ spsr \in Psr
    BY DEF Psr, Modes
  <2>2. /\ pc \in [Levels -> Labels]
        /\ r \in [Levels -> Psr]
        /\ depth \in [Levels -> 0 .. MaxNest]
    BY <2>1 DEF Labels
  <2>3. tok \in [Levels -> [1 .. MaxNest -> BOOLEAN]]
    OBVIOUS
  <2>4. holder \in [Cells -> Sections \cup {Free}]
    OBVIOUS
  <2> QED
    BY <2>1, <2>2, <2>3, <2>4 DEF TypeOK
<1>2. HandlerInv /\ TokenInv /\ MaskInv /\ ReadInv
  BY DEF HandlerInv, TokenInv, MaskInv, ReadInv, ProgramPsr
<1>3. HolderInv /\ NoBorrowPanic
  BY DEF HolderInv, NoBorrowPanic, Free
<1> QED
  BY <1>1, <1>2, <1>3 DEF Inv

-----------------------------------------------------------------------------
(* Steps that need more than one leaf.                                     *)

\* An acquire that was begun has room for one more section, so types hold.
LEMMA TypeAcquire == Inv /\ (\E l \in Levels : Acquire(l)) => TypeOK'
<1> SUFFICES ASSUME Inv, NEW l \in Levels, Acquire(l) PROVE TypeOK'
  OBVIOUS
<1> USE ConstantsAssumption DEF Inv, TypeOK, Acquire
<1>1. depth[l] \in 0 .. MaxNest - 1
  BY DEF TokenInv, At
<1>2. depth' \in [Levels -> 0 .. MaxNest]
  BY <1>1
<1>3. tok' \in [Levels -> [1 .. MaxNest -> BOOLEAN]]
  BY <1>1
<1>4. cpsr' \in Psr /\ pc' \in [Levels -> Labels]
  BY DEF Msr, MsrValue, Psr, Labels
<1> QED
  BY <1>2, <1>3, <1>4

\* A borrow stores a section of its own level in a cell.
LEMMA TypeBorrow == Inv /\ (\E l \in Levels, c \in Cells : Borrow(l, c)) => TypeOK'
<1> SUFFICES ASSUME Inv, NEW l \in Levels, NEW c \in Cells, Borrow(l, c) PROVE TypeOK'
  OBVIOUS
<1> USE ConstantsAssumption DEF Inv, TypeOK, Borrow
<1>1. <<l, depth[l]>> \in Sections
  BY DEF Sections
<1>2. holder' \in [Cells -> Sections \cup {Free}]
  BY <1>1
<1> QED
  BY <1>2

\* A release lowers the depth of a level that has a section open.
LEMMA TypeRelease == Inv /\ (\E l \in Levels : Release(l)) => TypeOK'
<1> SUFFICES ASSUME Inv, NEW l \in Levels, Release(l) PROVE TypeOK'
  OBVIOUS
<1> USE ConstantsAssumption DEF Inv, TypeOK, Release
<1>1. depth[l] \in 1 .. MaxNest
  BY DEF TokenInv, At
<1>2. depth' \in [Levels -> 0 .. MaxNest]
  BY <1>1
<1>4. cpsr' \in Psr /\ pc' \in [Levels -> Labels]
  BY DEF Msr, MsrValue, Psr, Labels
<1> QED
  BY <1>2, <1>4

\* The hardware's entry into the handler saves a well-typed cpsr.
LEMMA TypeIrqEntry == Inv /\ IrqEntry => TypeOK'
<1> SUFFICES ASSUME Inv, IrqEntry PROVE TypeOK'
  OBVIOUS
<1> USE ConstantsAssumption DEF Inv, TypeOK, IrqEntry
<1>1. <<Handler, 0>> \in Sections
  BY DEF Sections, Handler, Levels
<1>2. holder' \in [Cells -> Sections \cup {Free}]
  BY <1>1
<1>3. cpsr' \in Psr
  BY DEF Psr, Modes
<1> QED
  BY <1>2, <1>3

\* The msr that closes the outermost section restores the I bit asked for.
LEMMA MaskRelease == Inv /\ (\E l \in Levels : Release(l)) => MaskInv'
<1> SUFFICES ASSUME Inv, NEW l \in Levels, Release(l) PROVE MaskInv'
  OBVIOUS
<1> USE ConstantsAssumption DEF Inv, TypeOK, Psr, Modes, Levels, Program, Handler, level, At, Msr, MsrValue, Release
<1>0. /\ cpsr \in Psr /\ spsr \in Psr /\ r[l] \in Psr
  OBVIOUS
<1>1. l = Program
  BY DEF TokenInv
<1>2. r[l] = cpsr
  BY <1>0, <1>1 DEF ReadInv, ProgramPsr
<1>3. depth[l] = 1 /\ want
  BY <1>1 DEF TokenInv
<1>4. cpsr.mode = "svc"
  BY <1>0, <1>1, <1>3 DEF MaskInv, ProgramPsr
<1>5. cpsr' = [cpsr EXCEPT !.i = FALSE]
  BY <1>2, <1>4
<1>6. depth'[Program] = 0 /\ want' = want
  BY <1>1, <1>3
<1> QED
  BY <1>0, <1>3, <1>4, <1>5, <1>6 DEF MaskInv, ProgramPsr

\* A borrow succeeds only on a free cell, and then belongs to the open section.
LEMMA HolderBorrow == Inv /\ (\E l \in Levels, c \in Cells : Borrow(l, c)) => HolderInv'
<1> SUFFICES ASSUME Inv, NEW l \in Levels, NEW c \in Cells, Borrow(l, c) PROVE HolderInv'
  OBVIOUS
<1> USE ConstantsAssumption DEF Inv, TypeOK, Borrow, Program, Handler, Levels
<1>1. CASE holder' = holder
  BY <1>1 DEF HolderInv, level
<1>2. CASE holder' = [holder EXCEPT ![c] = <<l, depth[l]>>]
  <2>1. l = level /\ pc[l] = "run" /\ depth[l] > 0 /\ depth[l] \in Nat
    BY DEF At
  <2>2. ASSUME NEW x \in Cells, holder'[x] # Free
        PROVE  \/ holder'[x][2] > 0 /\ holder'[x][2] <= depth'[holder'[x][1]]
               \/ level' = Handler /\ x = DispatchCell /\ holder'[x] = <<Handler, 0>>
    <3>1. CASE x = c
      BY <1>2, <2>1, <3>1
    <3>2. CASE x # c
      BY <1>2, <2>2, <3>2 DEF HolderInv, level
    <3> QED
      BY <3>1, <3>2
  <2>3. ASSUME NEW x \in Cells, NEW k \in Levels, pc'[k] = "release"
        PROVE  holder'[x] # <<k, depth'[k]>>
    <3>1. CASE x = c
      BY <1>2, <2>1, <2>3, <3>1
    <3>2. CASE x # c
      BY <1>2, <2>3, <3>2 DEF HolderInv
    <3> QED
      BY <3>1, <3>2
  <2> QED
    BY <2>2, <2>3 DEF HolderInv, level
<1> QED
  BY <1>1, <1>2

-----------------------------------------------------------------------------
(* Every conjunct of Inv is preserved.                                     *)

\* Types: only a begun acquire has room for one more section.
LEMMA TypeStep == Inv /\ [Next]_vars => TypeOK'
<1> SUFFICES ASSUME Inv, [Next]_vars PROVE TypeOK'
  OBVIOUS
<1> USE ConstantsAssumption DEF Inv, TypeOK, Psr, Modes, Labels, Levels, Program, Handler,
  Free, At, Mrs, Msr, MsrValue, Dropped, TokenInv
<1>1. CASE \E l \in Levels : BeginAcquire(l)
  BY <1>1 DEF BeginAcquire
<1>2. CASE \E l \in Levels : Acquire(l)
  BY <1>2, TypeAcquire
<1>3. CASE \E l \in Levels, c \in Cells : Borrow(l, c)
  BY <1>3, TypeBorrow
<1>4. CASE \E l \in Levels : ReleaseNested(l)
  BY <1>4 DEF ReleaseNested
<1>5. CASE \E l \in Levels : BeginRelease(l)
  BY <1>5 DEF BeginRelease
<1>6. CASE \E l \in Levels : Release(l)
  BY <1>6, TypeRelease
<1>7. CASE BeginEnable
  BY <1>7 DEF BeginEnable
<1>8. CASE Enable
  BY <1>8 DEF Enable
<1>9. CASE BeginDisable
  BY <1>9 DEF BeginDisable
<1>10. CASE Disable
  BY <1>10 DEF Disable
<1>11. CASE RunUserCode
  BY <1>11 DEF RunUserCode
<1>12. CASE Raise
  BY <1>12 DEF Raise
<1>13. CASE IrqEntry
  BY <1>13, TypeIrqEntry
<1>14. CASE ClearDevice
  BY <1>14 DEF ClearDevice
<1>15. CASE IrqReturn
  BY <1>15 DEF IrqReturn
<1>16. CASE UNCHANGED vars
  BY <1>16 DEF vars
<1> QED
  BY <1>1, <1>2, <1>3, <1>4, <1>5, <1>6, <1>7, <1>8, <1>9, <1>10, <1>11, <1>12, <1>13, <1>14, <1>15, <1>16
     DEF Next, Step

\* A panic needs a cell held by the other level while this one runs: a program
\* holding a cell has I set, and a handler that returned holds none.
LEMMA PanicStep == Inv /\ [Next]_vars => NoBorrowPanic'
<1> SUFFICES ASSUME Inv, [Next]_vars PROVE NoBorrowPanic'
  OBVIOUS
<1> USE ConstantsAssumption DEF Inv, TypeOK, Psr, Modes, Levels, Program, Handler, level,
  At, Free, Sections, NoBorrowPanic, HandlerInv, MaskInv, HolderInv, ProgramPsr
<1>1. CASE \E l \in Levels : BeginAcquire(l)
  BY <1>1 DEF BeginAcquire
<1>2. CASE \E l \in Levels : Acquire(l)
  BY <1>2 DEF Acquire
<1>3. CASE \E l \in Levels, c \in Cells : Borrow(l, c)
  BY <1>3 DEF Borrow
<1>4. CASE \E l \in Levels : ReleaseNested(l)
  BY <1>4 DEF ReleaseNested
<1>5. CASE \E l \in Levels : BeginRelease(l)
  BY <1>5 DEF BeginRelease
<1>6. CASE \E l \in Levels : Release(l)
  BY <1>6 DEF Release
<1>7. CASE BeginEnable
  BY <1>7 DEF BeginEnable
<1>8. CASE Enable
  BY <1>8 DEF Enable
<1>9. CASE BeginDisable
  BY <1>9 DEF BeginDisable
<1>10. CASE Disable
  BY <1>10 DEF Disable
<1>11. CASE RunUserCode
  BY <1>11 DEF RunUserCode
<1>12. CASE Raise
  BY <1>12 DEF Raise
<1>13. CASE IrqEntry
  BY <1>13 DEF IrqEntry
<1>14. CASE ClearDevice
  BY <1>14 DEF ClearDevice
<1>15. CASE IrqReturn
  BY <1>15 DEF IrqReturn
<1>16. CASE UNCHANGED vars
  BY <1>16 DEF vars
<1> QED
  BY <1>1, <1>2, <1>3, <1>4, <1>5, <1>6, <1>7, <1>8, <1>9, <1>10, <1>11, <1>12, <1>13, <1>14, <1>15, <1>16
     DEF Next, Step

\* Handlers stay masked: they only ever release nested sections.
LEMMA HandlerStep == Inv /\ [Next]_vars => HandlerInv'
<1> SUFFICES ASSUME Inv, [Next]_vars PROVE HandlerInv'
  OBVIOUS
<1> USE ConstantsAssumption DEF Inv, TypeOK, Psr, Modes, Levels, Program, Handler, level,
  At, Mrs, Msr, MsrValue, HandlerInv, TokenInv, MaskInv, ReadInv, ProgramPsr
<1>1. CASE \E l \in Levels : BeginAcquire(l)
  BY <1>1 DEF BeginAcquire
<1>2. CASE \E l \in Levels : Acquire(l)
  BY <1>2 DEF Acquire
<1>3. CASE \E l \in Levels, c \in Cells : Borrow(l, c)
  BY <1>3 DEF Borrow
<1>4. CASE \E l \in Levels : ReleaseNested(l)
  BY <1>4 DEF ReleaseNested
<1>5. CASE \E l \in Levels : BeginRelease(l)
  BY <1>5 DEF BeginRelease
<1>6. CASE \E l \in Levels : Release(l)
  BY <1>6 DEF Release
<1>7. CASE BeginEnable
  BY <1>7 DEF BeginEnable
<1>8. CASE Enable
  BY <1>8 DEF Enable
<1>9. CASE BeginDisable
  BY <1>9 DEF BeginDisable
<1>10. CASE Disable
  BY <1>10 DEF Disable
<1>11. CASE RunUserCode
  BY <1>11 DEF RunUserCode
<1>12. CASE Raise
  BY <1>12 DEF Raise
<1>13. CASE IrqEntry
  BY <1>13 DEF IrqEntry
<1>14. CASE ClearDevice
  BY <1>14 DEF ClearDevice
<1>15. CASE IrqReturn
  BY <1>15 DEF IrqReturn
<1>16. CASE UNCHANGED vars
  BY <1>16 DEF vars
<1> QED
  BY <1>1, <1>2, <1>3, <1>4, <1>5, <1>6, <1>7, <1>8, <1>9, <1>10, <1>11, <1>12, <1>13, <1>14, <1>15, <1>16
     DEF Next, Step

\* Tokens: a new one is true exactly when I was clear, that is, for the
\* program's outermost section when it wanted interrupts.
LEMMA TokenStep == Inv /\ [Next]_vars => TokenInv'
<1> SUFFICES ASSUME Inv, [Next]_vars PROVE TokenInv'
  OBVIOUS
<1> USE ConstantsAssumption DEF Inv, TypeOK, Psr, Modes, Levels, Program, Handler, level,
  At, Mrs, Msr, MsrValue, HandlerInv, TokenInv, MaskInv, ReadInv, ProgramPsr
<1>1. CASE \E l \in Levels : BeginAcquire(l)
  BY <1>1 DEF BeginAcquire
<1>2. CASE \E l \in Levels : Acquire(l)
  BY <1>2 DEF Acquire
<1>3. CASE \E l \in Levels, c \in Cells : Borrow(l, c)
  BY <1>3 DEF Borrow
<1>4. CASE \E l \in Levels : ReleaseNested(l)
  BY <1>4 DEF ReleaseNested
<1>5. CASE \E l \in Levels : BeginRelease(l)
  BY <1>5 DEF BeginRelease
<1>6. CASE \E l \in Levels : Release(l)
  BY <1>6 DEF Release
<1>7. CASE BeginEnable
  BY <1>7 DEF BeginEnable
<1>8. CASE Enable
  BY <1>8 DEF Enable
<1>9. CASE BeginDisable
  BY <1>9 DEF BeginDisable
<1>10. CASE Disable
  BY <1>10 DEF Disable
<1>11. CASE RunUserCode
  BY <1>11 DEF RunUserCode
<1>12. CASE Raise
  BY <1>12 DEF Raise
<1>13. CASE IrqEntry
  BY <1>13 DEF IrqEntry
<1>14. CASE ClearDevice
  BY <1>14 DEF ClearDevice
<1>15. CASE IrqReturn
  BY <1>15 DEF IrqReturn
<1>16. CASE UNCHANGED vars
  BY <1>16 DEF vars
<1> QED
  BY <1>1, <1>2, <1>3, <1>4, <1>5, <1>6, <1>7, <1>8, <1>9, <1>10, <1>11, <1>12, <1>13, <1>14, <1>15, <1>16
     DEF Next, Step

\* The I bit follows the program's sections and its wish.
LEMMA MaskStep == Inv /\ [Next]_vars => MaskInv'
<1> SUFFICES ASSUME Inv, [Next]_vars PROVE MaskInv'
  OBVIOUS
<1> USE ConstantsAssumption DEF Inv, TypeOK, Psr, Modes, Levels, Program, Handler, level,
  At, Mrs, Msr, MsrValue, HandlerInv, TokenInv, MaskInv, ReadInv, ProgramPsr
<1>1. CASE \E l \in Levels : BeginAcquire(l)
  BY <1>1 DEF BeginAcquire
<1>2. CASE \E l \in Levels : Acquire(l)
  BY <1>2 DEF Acquire
<1>3. CASE \E l \in Levels, c \in Cells : Borrow(l, c)
  BY <1>3 DEF Borrow
<1>4. CASE \E l \in Levels : ReleaseNested(l)
  BY <1>4 DEF ReleaseNested
<1>5. CASE \E l \in Levels : BeginRelease(l)
  BY <1>5 DEF BeginRelease
<1>6. CASE \E l \in Levels : Release(l)
  BY <1>6, MaskRelease
<1>7. CASE BeginEnable
  BY <1>7 DEF BeginEnable
<1>8. CASE Enable
  BY <1>8 DEF Enable
<1>9. CASE BeginDisable
  BY <1>9 DEF BeginDisable
<1>10. CASE Disable
  BY <1>10 DEF Disable
<1>11. CASE RunUserCode
  BY <1>11 DEF RunUserCode
<1>12. CASE Raise
  BY <1>12 DEF Raise
<1>13. CASE IrqEntry
  BY <1>13 DEF IrqEntry
<1>14. CASE ClearDevice
  BY <1>14 DEF ClearDevice
<1>15. CASE IrqReturn
  BY <1>15 DEF IrqReturn
<1>16. CASE UNCHANGED vars
  BY <1>16 DEF vars
<1> QED
  BY <1>1, <1>2, <1>3, <1>4, <1>5, <1>6, <1>7, <1>8, <1>9, <1>10, <1>11, <1>12, <1>13, <1>14, <1>15, <1>16
     DEF Next, Step

\* The value read by mrs survives an interrupt: the handler gives back cpsr.
LEMMA ReadStep == Inv /\ [Next]_vars => ReadInv'
<1> SUFFICES ASSUME Inv, [Next]_vars PROVE ReadInv'
  OBVIOUS
<1> USE ConstantsAssumption DEF Inv, TypeOK, Psr, Modes, Levels, Program, Handler, level,
  At, Mrs, Msr, MsrValue, HandlerInv, ReadInv, ProgramPsr
<1>1. CASE \E l \in Levels : BeginAcquire(l)
  BY <1>1 DEF BeginAcquire
<1>2. CASE \E l \in Levels : Acquire(l)
  BY <1>2 DEF Acquire
<1>3. CASE \E l \in Levels, c \in Cells : Borrow(l, c)
  BY <1>3 DEF Borrow
<1>4. CASE \E l \in Levels : ReleaseNested(l)
  BY <1>4 DEF ReleaseNested
<1>5. CASE \E l \in Levels : BeginRelease(l)
  BY <1>5 DEF BeginRelease
<1>6. CASE \E l \in Levels : Release(l)
  BY <1>6 DEF Release
<1>7. CASE BeginEnable
  BY <1>7 DEF BeginEnable
<1>8. CASE Enable
  BY <1>8 DEF Enable
<1>9. CASE BeginDisable
  BY <1>9 DEF BeginDisable
<1>10. CASE Disable
  BY <1>10 DEF Disable
<1>11. CASE RunUserCode
  BY <1>11 DEF RunUserCode
<1>12. CASE Raise
  BY <1>12 DEF Raise
<1>13. CASE IrqEntry
  BY <1>13 DEF IrqEntry
<1>14. CASE ClearDevice
  BY <1>14 DEF ClearDevice
<1>15. CASE IrqReturn
  BY <1>15 DEF IrqReturn
<1>16. CASE UNCHANGED vars
  BY <1>16 DEF vars
<1> QED
  BY <1>1, <1>2, <1>3, <1>4, <1>5, <1>6, <1>7, <1>8, <1>9, <1>10, <1>11, <1>12, <1>13, <1>14, <1>15, <1>16
     DEF Next, Step

\* Borrows end with the section, or the dispatch, that made them.
LEMMA HolderStep == Inv /\ [Next]_vars => HolderInv'
<1> SUFFICES ASSUME Inv, [Next]_vars PROVE HolderInv'
  OBVIOUS
<1> USE ConstantsAssumption DEF Inv, TypeOK, Psr, Modes, Levels, Program, Handler, level,
  At, Mrs, Msr, MsrValue, Dropped, Sections, Free, NoBorrowPanic, HandlerInv,
  TokenInv, MaskInv, ReadInv, HolderInv, ProgramPsr
<1>1. CASE \E l \in Levels : BeginAcquire(l)
  BY <1>1 DEF BeginAcquire
<1>2. CASE \E l \in Levels : Acquire(l)
  BY <1>2 DEF Acquire
<1>3. CASE \E l \in Levels, c \in Cells : Borrow(l, c)
  BY <1>3, HolderBorrow
<1>4. CASE \E l \in Levels : ReleaseNested(l)
  BY <1>4 DEF ReleaseNested
<1>5. CASE \E l \in Levels : BeginRelease(l)
  BY <1>5 DEF BeginRelease
<1>6. CASE \E l \in Levels : Release(l)
  BY <1>6 DEF Release
<1>7. CASE BeginEnable
  BY <1>7 DEF BeginEnable
<1>8. CASE Enable
  BY <1>8 DEF Enable
<1>9. CASE BeginDisable
  BY <1>9 DEF BeginDisable
<1>10. CASE Disable
  BY <1>10 DEF Disable
<1>11. CASE RunUserCode
  BY <1>11 DEF RunUserCode
<1>12. CASE Raise
  BY <1>12 DEF Raise
<1>13. CASE IrqEntry
  BY <1>13 DEF IrqEntry
<1>14. CASE ClearDevice
  BY <1>14 DEF ClearDevice
<1>15. CASE IrqReturn
  BY <1>15 DEF IrqReturn
<1>16. CASE UNCHANGED vars
  BY <1>16 DEF vars
<1> QED
  BY <1>1, <1>2, <1>3, <1>4, <1>5, <1>6, <1>7, <1>8, <1>9, <1>10, <1>11, <1>12, <1>13, <1>14, <1>15, <1>16
     DEF Next, Step

-----------------------------------------------------------------------------
(* The theorems.                                                           *)

\* Types, masking, tokens, reads and borrows stay consistent forever.
THEOREM Invariance == Spec => []Inv
<1>1. Inv /\ [Next]_vars => Inv'
  BY TypeStep, PanicStep, HandlerStep, TokenStep, MaskStep, ReadStep, HolderStep
     DEF Inv
<1> QED
  BY InitInv, <1>1, PTL DEF Spec

\* No RefCell of the crate is ever borrowed twice: the handlers and the program
\* exclude each other on every cell.
THEOREM Exclusion == Spec => []NoBorrowPanic
<1>1. Inv => NoBorrowPanic
  BY DEF Inv
<1> QED
  BY Invariance, <1>1, PTL

\* r0 is never stale at the msr of enable_interrupts or disable_interrupts.
THEOREM NoRace == Spec => []NoStaleMsr
<1>1. Inv => NoStaleMsr
  BY DEF Inv, NoStaleMsr, ReadInv, ProgramPsr, Program, Handler
<1> QED
  BY Invariance, <1>1, PTL

\* Closing every section gives the program back the interrupt state it asked
\* for, however sections nested and whatever interrupted them.
THEOREM Restored == Spec => []RestoreState
<1>1. Inv => RestoreState
  BY DEF Inv, TypeOK, Levels, RestoreState, MaskInv, HandlerInv, ProgramPsr, level,
     Program, Handler
<1> QED
  BY Invariance, <1>1, PTL

-----------------------------------------------------------------------------
(* Refinement of AtomicSections.                                           *)

\* Leaving for user mode is a change of mind: no interrupts from there on.
LEMMA UserRefines == RunUserCode => Abstract!SetWant
<1> SUFFICES ASSUME RunUserCode PROVE Abstract!SetWant
  OBVIOUS
<1>1. level = Program /\ level' = Program
  BY DEF RunUserCode, At, level
<1>2. (level = Handler) = FALSE /\ (level' = Handler) = FALSE
  BY <1>1 DEF Program, Handler
<1>3. want' \in BOOLEAN
  BY DEF RunUserCode
<1>4. depth[Program] = 0 /\ UNCHANGED <<depth, pending>>
  BY DEF RunUserCode
<1> QED
  BY <1>2, <1>3, <1>4 DEF Abstract!SetWant

\* The msr of an acquire opens the abstract section, the msr (or the untaken
\* branch) of a release closes it, and everything a handler does to its own
\* sections and every mrs is a stutter.
LEMMA StepRefines == Inv /\ [Next]_vars => [Abstract!Next]_(Abstract!vars)
<1> SUFFICES ASSUME Inv, [Next]_vars PROVE [Abstract!Next]_(Abstract!vars)
  OBVIOUS
<1> USE ConstantsAssumption DEF Inv, TypeOK, Psr, Modes, Levels, Program, Handler,
  level, At, Mrs, Msr, MsrValue, HandlerInv, TokenInv, MaskInv, ReadInv, ProgramPsr,
  Abstract!vars, Abstract!Next
<1>1. CASE \E l \in Levels : BeginAcquire(l)
  BY <1>1 DEF BeginAcquire
<1>2. CASE \E l \in Levels : Acquire(l)
  BY <1>2 DEF Acquire, Abstract!Open
<1>3. CASE \E l \in Levels, c \in Cells : Borrow(l, c)
  BY <1>3 DEF Borrow
<1>4. CASE \E l \in Levels : ReleaseNested(l)
  BY <1>4 DEF ReleaseNested, Abstract!Close
<1>5. CASE \E l \in Levels : BeginRelease(l)
  BY <1>5 DEF BeginRelease
<1>6. CASE \E l \in Levels : Release(l)
  BY <1>6 DEF Release, Abstract!Close
<1>7. CASE BeginEnable
  BY <1>7 DEF BeginEnable
<1>8. CASE Enable
  BY <1>8 DEF Enable, Abstract!SetWant
<1>9. CASE BeginDisable
  BY <1>9 DEF BeginDisable
<1>10. CASE Disable
  BY <1>10 DEF Disable, Abstract!SetWant
<1>11. CASE RunUserCode
  BY <1>11, UserRefines
<1>12. CASE Raise
  BY <1>12 DEF Raise, Abstract!Raise
<1>13. CASE IrqEntry
  BY <1>13 DEF IrqEntry, Abstract!Deliver
<1>14. CASE ClearDevice
  BY <1>14 DEF ClearDevice, Abstract!Quiet
<1>15. CASE IrqReturn
  BY <1>15 DEF IrqReturn, Abstract!Finish
<1>16. CASE UNCHANGED vars
  BY <1>16 DEF vars
<1> QED
  BY <1>1, <1>2, <1>3, <1>4, <1>5, <1>6, <1>7, <1>8, <1>9, <1>10, <1>11, <1>12, <1>13, <1>14, <1>15, <1>16
     DEF Next, Step

\* The I bit, the tokens and spsr implement atomic sections that never change
\* what the program wants, and into which no handler is delivered.
THEOREM Refinement == Spec => Refines
<1>1. Init => Abstract!Init
  BY DEF Init, Abstract!Init, level, Levels, Program, Handler
<1> QED
  BY <1>1, InitInv, Invariance, StepRefines, PTL DEF Spec, Refines, Abstract!Spec

=============================================================================
