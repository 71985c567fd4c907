--------------------------- MODULE InterleaveProof ---------------------------
(***************************************************************************)
(* For all straight-line code and every scheduler: the threads keep their  *)
(* own registers, main gets its back, and a decision of the scheduler lies *)
(* between any two instructions.  With umain's scheduler, each run of the  *)
(* search switches where it means to.                                      *)
(*                                                                         *)
(* None of them is inductive.  Isolation needs to know what the threads'   *)
(* registers are before and between runs (Fresh), and that an id is in     *)
(* THREADS or in FINISHED_THREADS and not in both (Parted).  The search    *)
(* needs what the scheduler counts (PhaseInv) and umain's loop (LoopInv).  *)
(***************************************************************************)
EXTENDS Interleave, FiniteSetTheorems, TLAPS

Functions == {"A", "B"}
MainAt == {Enable, Prepare, Trigger, Collect, End}
Addresses == MainAt \cup {Zero, Finished} \cup (Functions \X Nat)
Registers == [pc : Addresses, sp : Ids \cup {Main}, r : Int]
ThreadType == [fn : Functions, regs : Registers, count : Nat, finished : BOOLEAN]

TypeInv ==
  /\ cpu \in Registers
  /\ bp \in [on : BOOLEAN, addr : Addresses]
  /\ present \in SUBSET Ids
  /\ thread \in [Ids -> ThreadType]
  /\ done \in Seq(Ids)
  /\ scheduler \in {"search", "any"}
  /\ running \in [id : Ids \cup {Main}, regs : Registers]
  /\ shared \in Int
  /\ executed \in [Ids -> Nat]
  /\ reg \in [Ids \cup {Main} -> Int]

\* Both threads are in THREADS, at the beginning of their functions.
Fresh ==
  /\ present = Ids /\ done = <<>>
  /\ \A i \in Ids : thread[i].regs.pc = Entry(thread[i].fn) /\ thread[i].regs.sp = i

\* Both have left it.
Over ==
  /\ ~bp.on
  /\ present = {} /\ Len(done) = 2 /\ done[1] # done[2]
  /\ \A i \in Ids : thread[i].finished

\* Main's side: before the run the breakpoint is at the instruction main is at, or
\* one it has left; after it stepping is off.
MainInv ==
  running.id = Main =>
    /\ running = None
    /\ cpu.pc \in MainAt
    /\ cpu.pc \in {Enable, Prepare, End} => Fresh
    /\ cpu.pc = Prepare => bp.on /\ bp.addr \in {Zero, Prepare}
    /\ cpu.pc = Trigger /\ bp.on => Fresh /\ bp.addr = Prepare
    /\ cpu.pc \in {Prepare, Trigger} /\ bp.on => executed = [i \in Ids |-> 0]
    /\ cpu.pc = Trigger /\ ~bp.on => Over
    /\ cpu.pc = Collect => Over

\* While the threads run one is gone at most, and it is the one that finished.
Parted ==
  running.id # Main =>
    /\ running.id \in present
    /\ bp.on
    /\ \/ present = Ids /\ done = <<>>
       \/ \E i \in Ids : present = {1 - i} /\ done = <<i>> /\ thread[i].finished

\* A thread has executed no more instructions than it has.
Counted ==
  running.id # Main => \A i \in present : executed[i] <= Len(Code[thread[i].fn])

Inv == TypeInv /\ MainInv /\ Parted /\ Counted /\ Isolation /\ MainRestored

-----------------------------------------------------------------------------
(* The search.                                                             *)

LengthA == Len(Code["A"])
LengthB == Len(Code["B"])

\* The instructions of thread_a before the switch, in the run with this A_STOP.
Before == IF aStop = 0 THEN 0 ELSE aStop - 1

\* Whose the k-th instruction of the run is.
Turn(k) == IF k <= Before \/ k > Before + LengthB THEN 0 ELSE 1

\* What has been executed is the beginning of that.
TraceInv ==
  /\ trace \in Seq(Ids)
  /\ Len(trace) = executed[0] + executed[1]
  /\ \A k \in 1 .. Len(trace) : trace[k] = Turn(k)

\* Thread 0's aborts: one before each instruction, those that it has executed and
\* the one it is let to execute.
Aborted == thread[0].count = executed[0] + (IF Aborts THEN 0 ELSE 1)

\* Thread 0 up to the switch, thread 1 to its end, thread 0 to its end.
PhaseInv ==
  running.id # Main =>
    /\ TraceInv
    /\ running.id = 0 /\ present = Ids =>
         /\ executed[0] <= Before /\ executed[1] = 0 /\ Aborted
         /\ ~Aborts => executed[0] < Before
    /\ running.id = 1 =>
         present = Ids /\ executed[0] = Before /\ thread[0].count = Before + 1
    /\ present = {0} => Before <= executed[0] /\ executed[1] = LengthB /\ Aborted

\* Between runs nothing is counted, and after one all has been executed.
BetweenInv ==
  running.id = Main =>
    /\ Fresh => thread[0].count = 0
    /\ cpu.pc \in {Prepare, Trigger} /\ bp.on => trace = <<>>
    /\ Over => /\ done[1] = 1 /\ done[2] = 0 /\ thread[0].count = LengthA + 1
               /\ executed[0] = LengthA /\ executed[1] = LengthB /\ TraceInv

\* umain's loop: A_STOP lags behind by one run, and a run adds one switch.
LoopInv ==
  /\ iter \in Int /\ -1 <= iter /\ iter <= LengthA + 1
  /\ running.id = Main /\ cpu.pc = End <=> iter = LengthA + 1
  /\ aStop = IF iter >= 1 THEN iter - 1 ELSE 0
  /\ iter >= 0 => aEnd = LengthA + 1
  /\ explored = IF iter = -1 THEN {} ELSE 0 .. IF iter >= 3 THEN iter - 3 ELSE 0

SearchInv ==
  scheduler = "search" =>
    thread[0].fn = "A" /\ thread[1].fn = "B" /\ PhaseInv /\ BetweenInv /\ LoopInv

-----------------------------------------------------------------------------
(* Addresses, and which of them is whose.                                  *)

\* The addresses of main, thread_finished and the functions differ.
LEMMA AddressesDiffer ==
  /\ Enable \notin {Prepare, Trigger, Collect, End, Zero, Finished}
  /\ Prepare \notin {Trigger, Collect, End, Zero, Finished}
  /\ Trigger \notin {Collect, End, Zero, Finished}
  /\ Collect \notin {End, Zero, Finished}
  /\ End \notin {Zero, Finished}
  /\ \A a \in MainAt : a[1] \notin Functions
  /\ Finished[1] \notin Functions
BY DEF Enable, Prepare, Trigger, Collect, End, Zero, Finished, MainAt, Functions

\* An address of a function is a place in it.
LEMMA InFunction ==
  ASSUME NEW a \in Addresses, a[1] \in Functions
  PROVE  a[2] \in Nat /\ a = <<a[1], a[2]>>
BY DEF Addresses, MainAt, Enable, Prepare, Trigger, Collect, End, Zero, Finished, Functions

\* A function begins at its entry, and the place after its last one is not in it.
LEMMA Places ==
  ASSUME NEW f \in Functions
  PROVE  /\ Entry(f) \in Addresses /\ Entry(f)[1] = f
         /\ \A n \in Nat : <<f, n + 1>> \in Addresses
         /\ Len(Code[f]) \in Nat \ {0}
         /\ \A k \in 1 .. Len(Code[f]) :
              Code[f][k] \in Operations /\ (Code[f][k] = "return" <=> k = Len(Code[f]))
<1>1. Code[f] \in Seq(Operations) /\ Code[f] # <<>>
  BY CodeAssumption DEF Functions
<1>2. Len(Code[f]) \in Nat \ {0}
  BY <1>1
<1>3. \A k \in 1 .. Len(Code[f]) : Code[f][k] \in Operations
  BY <1>1
<1>4. \A k \in 1 .. Len(Code[f]) : Code[f][k] = "return" <=> k = Len(Code[f])
  BY CodeAssumption DEF Functions
<1>5. Entry(f) \in Addresses /\ Entry(f)[1] = f /\ \A n \in Nat : <<f, n + 1>> \in Addresses
  BY DEF Entry, Addresses
<1> QED
  BY <1>2, <1>3, <1>4, <1>5

\* Threads run exactly when there is a current one.
LEMMA Running == ASSUME Inv PROVE Interleaving <=> running.id # Main
BY DEF Inv, MainInv, Interleaving, None

\* The least of some ids is one of them.
LEMMA FirstOf == ASSUME NEW S \in SUBSET Ids, S # {} PROVE First(S) \in S
<1>1. CASE 0 \in S
  <2>1. 0 \in S /\ \A j \in S : 0 <= j
    BY <1>1 DEF Ids
  <2> QED
    BY <2>1, Zenon DEF First
<1>2. CASE 0 \notin S
  <2>1. S = {1}
    BY <1>2 DEF Ids
  <2>2. 1 \in S /\ \A j \in S : 1 <= j
    BY <2>1
  <2> QED
    BY <2>2, Zenon DEF First
<1> QED
  BY <1>1, <1>2

\* A scheduler asked about a thread in THREADS answers with one.
LEMMA Chosen ==
  ASSUME NEW S, NEW c \in S, NEW T PROVE Choices(c, S, T) \subseteq S
BY DEF Choices

-----------------------------------------------------------------------------
(* The threads.                                                            *)

\* The processor is where the running thread is.
LEMMA AtThread ==
  ASSUME Inv, Interleaving
  PROVE  /\ running.id \in Ids /\ running.id \in present /\ bp.on
         /\ cpu = [pc |-> Position(running.id), sp |-> running.id, r |-> reg[running.id]]
         /\ \A i \in present \ {running.id} :
              thread[i].regs = [pc |-> Position(i), sp |-> i, r |-> reg[i]]
BY Running DEF Inv, TypeInv, Parted, Isolation, Live

\* Main's instructions are not a thread's.
LEMMA MainRuns == ASSUME Inv, cpu.pc \in MainAt PROVE ~Interleaving
<1> SUFFICES ASSUME Interleaving
             PROVE  FALSE
  OBVIOUS
<1>1. thread[running.id].fn \in Functions
  BY AtThread DEF Inv, TypeInv, ThreadType
<1>2. cpu.pc = Position(running.id)
  BY AtThread
<1> QED
  BY <1>1, <1>2, AddressesDiffer DEF Position, MainAt

\* A thread's are not main's, and are the ones it has not executed.
LEMMA ThreadRuns ==
  ASSUME Inv, cpu.pc[1] \in Functions
  PROVE  Interleaving /\ cpu.pc[2] = executed[running.id] + 1
         /\ cpu.pc[1] = thread[running.id].fn /\ executed[running.id] < Len(Code[cpu.pc[1]])
<1>1. Interleaving
  BY Running, AddressesDiffer DEF Inv, MainInv
<1>2. cpu.pc = Position(running.id)
  BY <1>1, AtThread
<1> QED
  BY <1>1, <1>2, AtThread, AddressesDiffer DEF Position

-----------------------------------------------------------------------------
(* The initial states and main's steps: no thread runs.                    *)

LEMMA InitInv == Init => Inv
<1> SUFFICES ASSUME Init
             PROVE  Inv
  OBVIOUS
<1> USE DEF Init, Ids, Main
<1>1. TypeInv
  BY Places DEF TypeInv, Registers, ThreadType, NewThread, None, Functions, Addresses, MainAt
<1>2. MainInv
  BY AddressesDiffer DEF MainInv, None, Fresh, NewThread, MainAt
<1>3. Parted /\ Counted /\ Isolation
  BY DEF Parted, Counted, Isolation, Interleaving, None
<1>4. MainRestored
  BY AddressesDiffer DEF MainRestored, Interleaving, None
<1> QED
  BY <1>1, <1>2, <1>3, <1>4 DEF Inv

\* While no thread runs, types and main's side are all there is to prove.
LEMMA MainOnly ==
  ASSUME Inv, TypeInv', MainInv', running' = None, cpu'.sp = Main, cpu'.r = reg'[Main]
  PROVE  Inv'
BY DEF Inv, Parted, Counted, Isolation, MainRestored, Interleaving, None, MainInv, Over

\* The system call before a run: the breakpoint is at address 0 again.
LEMMA MainEnablesStep == Inv /\ MainEnables => Inv'
<1> SUFFICES ASSUME Inv, MainEnables
             PROVE  Inv'
  OBVIOUS
<1> USE DEF MainEnables, At, search
<1>1. ~Interleaving
  BY MainRuns DEF MainAt
<1>2. TypeInv'
  BY DEF Inv, TypeInv, Registers, Addresses, MainAt, Ids
<1>3. MainInv'
  BY <1>1, AddressesDiffer DEF Inv, MainInv, Fresh, Interleaving, None, MainAt
<1> QED
  BY <1>1, <1>2, <1>3, MainOnly DEF Inv, MainRestored, Interleaving, TypeInv, Registers

\* Main reached this instruction with the breakpoint on it.
LEMMA MainPreparesStep == Inv /\ MainPrepares => Inv'
<1> SUFFICES ASSUME Inv, MainPrepares
             PROVE  Inv'
  OBVIOUS
<1> USE DEF MainPrepares, At, search
<1>1. ~Interleaving
  BY MainRuns DEF MainAt
<1>2. TypeInv'
  <2>1. cpu.r \in Int /\ 1 - cpu.r \in Int /\ Trigger \in Addresses
    BY DEF Inv, TypeInv, Registers, Addresses, MainAt
  <2>2. cpu' \in Registers
    BY <2>1 DEF Inv, TypeInv, Registers
  <2>3. reg' \in [Ids \cup {Main} -> Int]
    BY <2>1 DEF Inv, TypeInv
  <2> QED
    BY <2>2, <2>3 DEF Inv, TypeInv
<1>3. bp.on /\ bp.addr = Prepare
  BY <1>1, AddressesDiffer DEF Inv, MainInv, Interleaving, None, Aborts
<1>4. MainInv'
  BY <1>1, <1>3, AddressesDiffer DEF Inv, MainInv, Fresh, Interleaving, None, MainAt, TypeInv,
     Registers
<1>5. cpu'.sp = Main /\ cpu'.r = reg'[Main]
  BY <1>1 DEF Inv, MainRestored, TypeInv, Registers, Main
<1> QED
  BY <1>1, <1>2, <1>4, <1>5, MainOnly DEF Interleaving

\* Main executes trigger_interleaving only with stepping off, after the run.
LEMMA MainReturnsStep == Inv /\ MainReturns => Inv'
<1> SUFFICES ASSUME Inv, MainReturns
             PROVE  Inv'
  OBVIOUS
<1> USE DEF MainReturns, At, search, ghosts
<1>1. ~Interleaving
  BY MainRuns DEF MainAt
<1>2. TypeInv'
  BY DEF Inv, TypeInv, Registers, Addresses, MainAt
<1>3. ~bp.on
  BY <1>1, AddressesDiffer DEF Inv, MainInv, Interleaving, None, Aborts
<1>4. MainInv'
  BY <1>1, <1>3, AddressesDiffer DEF Inv, MainInv, Over, Interleaving, None, MainAt, TypeInv,
     Registers
<1>5. cpu'.sp = Main /\ cpu'.r = reg'[Main]
  BY <1>1 DEF Inv, MainRestored, TypeInv, Registers
<1> QED
  BY <1>1, <1>2, <1>4, <1>5, MainOnly DEF Interleaving

\* Both threads are reset, whichever was the last to finish.
LEMMA MainCollectsStep == Inv /\ MainCollects => Inv'
<1> SUFFICES ASSUME Inv, MainCollects
             PROVE  Inv'
  OBVIOUS
<1> USE DEF MainCollects, At, ghosts
<1>1. ~Interleaving
  BY MainRuns DEF MainAt
<1>2. running = None /\ Over
  BY <1>1 DEF Inv, MainInv, Interleaving, None
<1> DEFINE a == done[2]
           b == done[1]
<1>3. a \in Ids /\ b \in Ids /\ Ids = {a, b} /\ a # b
  <2>1. Len(done) = 2 /\ done \in Seq(Ids) /\ a # b
    BY <1>2 DEF Inv, TypeInv, Over
  <2>2. a \in Ids /\ b \in Ids
    BY <2>1
  <2> QED
    BY <2>1, <2>2 DEF Ids
<1>4. thread' = [thread EXCEPT ![a] = ResetThread(thread[a], a, "A"),
                               ![b] = ResetThread(thread[b], b, "B")]
      /\ present' = present \cup {a, b} /\ done' = SubSeq(done, 1, 0)
  BY <1>2 DEF Over
<1>5. thread'[a] = ResetThread(thread[a], a, "A") /\ thread'[b] = ResetThread(thread[b], b, "B")
  BY <1>3, <1>4 DEF Inv, TypeInv
<1>6. done' = <<>>
  BY <1>4 DEF Inv, TypeInv
<1>7. present' = Ids
  BY <1>2, <1>3, <1>4 DEF Over
<1> HIDE DEF a, b
<1>8. \A i \in Ids, f \in Functions :
        /\ ResetThread(thread[i], i, f) \in ThreadType
        /\ ResetThread(thread[i], i, f).regs.pc = Entry(ResetThread(thread[i], i, f).fn)
        /\ ResetThread(thread[i], i, f).regs.sp = i
  BY Places DEF Inv, TypeInv, ThreadType, Registers, ResetThread, Ids
<1>9. Fresh'
  BY <1>3, <1>5, <1>6, <1>7, <1>8 DEF Fresh, Functions
<1>10. thread' \in [Ids -> ThreadType]
  BY <1>3, <1>4, <1>8 DEF Functions, Inv, TypeInv
<1>11. cpu'.pc \in {Enable, End} /\ cpu' \in Registers /\ cpu'.sp = Main /\ cpu'.r = reg'[Main]
  BY <1>1 DEF Inv, MainRestored, TypeInv, Registers, Addresses, MainAt
<1>12. TypeInv'
  <2>1. shared' \in Int
    OBVIOUS
  <2>2. UNCHANGED <<bp, scheduler, running, executed, reg>>
    OBVIOUS
  <2> HIDE DEF MainCollects
  <2>3. done' \in Seq(Ids)
    BY <1>6
  <2> QED
    BY <1>7, <1>10, <1>11, <2>1, <2>2, <2>3 DEF Inv, TypeInv
<1>13. MainInv'
  BY <1>2, <1>9, <1>11, AddressesDiffer DEF MainInv, MainAt
<1> QED
  BY <1>2, <1>11, <1>12, <1>13, MainOnly

\* The breakpoint is moved to main's instruction.
LEMMA AbortMainStep == Inv /\ AbortMain => Inv'
<1> SUFFICES ASSUME Inv, AbortMain
             PROVE  Inv'
  OBVIOUS
<1> USE DEF AbortMain, search, ghosts
<1>1. TypeInv'
  BY DEF Inv, TypeInv, Registers
<1>2. bp.on /\ bp'.on = bp.on
  BY DEF Aborts, Inv, TypeInv
<1>3. MainInv'
  BY <1>2, AddressesDiffer DEF Inv, MainInv, Fresh, Over, TypeInv
<1> QED
  BY <1>1, <1>3, MainOnly DEF Inv, MainRestored, Interleaving

\* The first thread goes on from where it begins, and nothing has been executed.
LEMMA AbortTriggerStep == Inv /\ AbortTrigger => Inv'
<1> SUFFICES ASSUME Inv, AbortTrigger
             PROVE  Inv'
  OBVIOUS
<1> USE DEF AbortTrigger, search
<1>1. running = None /\ bp.on /\ Fresh /\ executed = [i \in Ids |-> 0]
  <2>1. running = None /\ running.id = Main
    BY DEF Interleaving, None
  <2>2. bp.on
    BY DEF Aborts
  <2> QED
    BY <2>1, <2>2, AddressesDiffer DEF Inv, MainInv
<1>2. First(present) \in Ids
  BY <1>1, FirstOf DEF Fresh, Ids
<1>3. running'.id \in Ids /\ running'.id # Main /\ running' # None /\ running'.regs = cpu
  BY <1>2 DEF Ids, Main, None
<1>4. cpu' = thread[running'.id].regs /\ cpu' \in Registers
  BY <1>2 DEF Inv, TypeInv, ThreadType
<1>5. \A i \in Ids : reg'[i] = thread[i].regs.r /\ reg'[i] \in Int
  BY DEF Inv, TypeInv, ThreadType, Registers, Ids, Main
<1>6. reg'[Main] = reg[Main] /\ DOMAIN reg' = Ids \cup {Main}
  BY DEF Inv, TypeInv, Ids, Main
<1>7. TypeInv'
  <2>1. reg' \in [Ids \cup {Main} -> Int]
    BY DEF Inv, TypeInv, ThreadType, Registers, Ids, Main
  <2> QED
    BY <1>2, <1>4, <2>1 DEF Inv, TypeInv
<1>8. MainInv' /\ Parted'
  BY <1>1, <1>2, <1>3 DEF MainInv, Parted, Fresh
<1>9. \A i \in Ids : Position(i)' = Entry(thread[i].fn)
  BY <1>1, Places DEF Inv, TypeInv, ThreadType, Position, Entry
<1>10. Counted'
  BY <1>1, Places DEF Counted, Inv, TypeInv, ThreadType
<1>11. Isolation'
  <2>1. \A i \in Ids : thread[i].regs = [pc |-> Position(i)', sp |-> i, r |-> reg'[i]]
    BY <1>1, <1>5, <1>9 DEF Fresh, Inv, TypeInv, ThreadType, Registers
  <2>2. \A i \in Ids : Live(i)' = thread[i].regs
    BY <1>4 DEF Live
  <2> QED
    BY <1>1, <2>1, <2>2 DEF Isolation, Fresh
<1>12. MainRestored'
  <2>1. cpu = [pc |-> Trigger, sp |-> Main, r |-> reg[Main]]
    BY <1>1 DEF Inv, MainRestored, Interleaving, TypeInv, Registers
  <2>2. cpu'.pc # Collect
    BY <1>1, <1>2, <1>4, AddressesDiffer, Places DEF Fresh, Inv, TypeInv, ThreadType, MainAt
  <2> QED
    BY <1>3, <1>6, <2>1, <2>2 DEF MainRestored, Interleaving
<1> QED
  BY <1>7, <1>8, <1>10, <1>11, <1>12 DEF Inv

-----------------------------------------------------------------------------
(* The threads' steps.                                                     *)

\* What an instruction leaves in r is an integer.
LEMMA Computed ==
  ASSUME TypeInv, NEW op PROVE NewR(op) \in Int
BY DEF TypeInv, Registers, NewR

\* An instruction of the running thread: the other's registers and main's stay.
LEMMA ThreadStep == Inv /\ ThreadInstruction => Inv'
<1> SUFFICES ASSUME Inv, ThreadInstruction
             PROVE  Inv'
  OBVIOUS
<1> DEFINE i == running.id
           f == cpu.pc[1]
           op == Code[f][cpu.pc[2]]
<1>1. f \in Functions
  BY DEF ThreadInstruction, Functions
<1>2. /\ Interleaving /\ cpu.pc[2] = executed[i] + 1 /\ f = thread[i].fn
      /\ executed[i] < Len(Code[f])
  BY <1>1, ThreadRuns
<1>3. i \in Ids /\ i # Main /\ i \in present /\ cpu.sp = i
  BY <1>2, AtThread DEF Ids, Main
<1>4. /\ cpu' = [cpu EXCEPT !.r = NewR(op),
                            !.pc = IF op = "return" THEN Finished ELSE <<f, cpu.pc[2] + 1>>]
      /\ shared' = IF op = "store" THEN cpu.r ELSE shared
      /\ executed' = [executed EXCEPT ![i] = @ + 1]
      /\ reg' = [reg EXCEPT ![i] = NewR(op)]
      /\ UNCHANGED <<scheduler, bp, present, thread, done, running>>
  BY <1>1, <1>3, InFunction DEF ThreadInstruction, Inv, TypeInv, Registers
<1>5. op = "return" <=> executed[i] + 1 = Len(Code[f])
  <2>1. executed[i] \in Nat /\ Len(Code[f]) \in Nat
    BY <1>1, <1>3, Places DEF Inv, TypeInv
  <2>2. executed[i] + 1 \in 1 .. Len(Code[f]) /\ op = Code[f][executed[i] + 1]
    BY <1>2, <2>1
  <2> HIDE DEF op, f, i
  <2> QED
    BY <1>1, <2>2, Places
<1>6. NewR(op) \in Int
  BY Computed DEF Inv
<1> HIDE DEF op
<1>7. executed[i] \in Nat /\ executed'[i] = executed[i] + 1 /\ cpu \in Registers
  BY <1>3, <1>4 DEF Inv, TypeInv
<1>8. cpu' = [pc |-> IF op = "return" THEN Finished ELSE <<f, executed[i] + 2>>,
              sp |-> i, r |-> NewR(op)]
  <2>1. cpu.pc[2] + 1 = executed[i] + 2
    BY <1>2, <1>7
  <2> DEFINE there == IF op = "return" THEN Finished ELSE <<f, executed[i] + 2>>
             value == NewR(op)
  <2>2. cpu' = [cpu EXCEPT !.r = value, !.pc = there]
    BY <1>4, <2>1
  <2> HIDE DEF there, value
  <2>3. cpu' = [pc |-> there, sp |-> i, r |-> value]
    BY <1>3, <1>7, <2>2 DEF Registers
  <2> QED
    BY <2>3 DEF there, value
<1>9. cpu' \in Registers
  <2>1. <<f, executed[i] + 2>> \in Addresses /\ Finished \in Addresses
    BY <1>1, <1>7, Places DEF Addresses
  <2> QED
    BY <1>3, <1>6, <1>8, <2>1 DEF Registers
<1>10. TypeInv'
  <2>1. executed' \in [Ids -> Nat] /\ reg' \in [Ids \cup {Main} -> Int]
    BY <1>3, <1>4, <1>6 DEF Inv, TypeInv
  <2>2. shared' \in Int
    BY <1>4, <1>7 DEF Inv, TypeInv, Registers
  <2> QED
    BY <1>4, <1>9, <2>1, <2>2 DEF Inv, TypeInv
<1>11. MainInv' /\ Parted'
  BY <1>3, <1>4 DEF Inv, MainInv, Parted
<1>12. Counted'
  BY <1>1, <1>2, <1>3, <1>4, <1>7, Places DEF Inv, TypeInv, Counted
<1>13. Position(i)' = cpu'.pc
  BY <1>1, <1>2, <1>4, <1>5, <1>7, <1>8, Places DEF Position
<1>14. \A j \in present \ {i} : Position(j)' = Position(j) /\ reg'[j] = reg[j] /\ Live(j)' = Live(j)
  BY <1>3, <1>4 DEF Position, Live, Inv, TypeInv
<1>15. reg'[i] = NewR(op) /\ reg'[Main] = reg[Main]
  BY <1>3, <1>4 DEF Inv, TypeInv
<1>16. Isolation'
  <2>1. Live(i)' = [pc |-> Position(i)', sp |-> i, r |-> reg'[i]]
    <3>1. Live(i)' = cpu'
      BY <1>4 DEF Live
    <3>2. cpu'.sp = i /\ cpu'.r = NewR(op)
      BY <1>8
    <3> QED
      BY <1>9, <1>13, <1>15, <3>1, <3>2 DEF Registers
  <2> QED
    BY <1>2, <1>4, <1>14, <2>1 DEF Isolation, Inv
<1>17. MainRestored'
  <2>1. cpu'.pc # Collect
    BY <1>1, <1>8, AddressesDiffer DEF MainAt
  <2> QED
    BY <1>2, <1>4, <1>15, <2>1 DEF MainRestored, Interleaving, Inv
<1> QED
  BY <1>10, <1>11, <1>12, <1>16, <1>17 DEF Inv

\* The handler saves the current thread where it is.
LEMMA SavedThreads ==
  ASSUME Inv, Interleaving
  PROVE  /\ Saved \in [Ids -> ThreadType]
         /\ \A j \in Ids : /\ Saved[j].fn = thread[j].fn
                           /\ Saved[j].finished = thread[j].finished
         /\ \A j \in present : Saved[j].regs = [pc |-> Position(j), sp |-> j, r |-> reg[j]]
<1>1. /\ running.id \in Ids /\ cpu \in Registers
      /\ thread \in [Ids -> ThreadType] /\ present \subseteq Ids
  BY AtThread DEF Inv, TypeInv
<1> DEFINE i == running.id
           saved == [thread[i] EXCEPT !.regs = cpu, !.count = @ + 1]
<1>2. Saved = [thread EXCEPT ![i] = saved]
  BY <1>1 DEF Saved
<1>3. saved \in ThreadType /\ saved.fn = thread[i].fn /\ saved.finished = thread[i].finished
      /\ saved.regs = cpu
  <2> DEFINE t == thread[i]
             n == t.count + 1
  <2>1. t \in ThreadType /\ cpu \in Registers
    BY <1>1
  <2>2. n \in Nat
    BY <2>1 DEF ThreadType
  <2>3. saved = [t EXCEPT !.regs = cpu, !.count = n]
    OBVIOUS
  <2> HIDE DEF saved, t, n
  <2>4. saved = [fn |-> t.fn, regs |-> cpu, count |-> n, finished |-> t.finished]
    BY <2>1, <2>3 DEF ThreadType
  <2>5. t.fn \in Functions /\ t.finished \in BOOLEAN
    BY <2>1 DEF ThreadType
  <2> QED
    BY <2>1, <2>2, <2>4, <2>5 DEF ThreadType, t
<1> HIDE DEF saved, i
<1>4. i \in Ids /\ i = running.id
  BY <1>1 DEF i
<1> QED
  BY <1>1, <1>2, <1>3, <1>4, AtThread

\* A thread that is resumed goes on where it was.
LEMMA Resumed ==
  ASSUME Inv, Interleaving, TypeInv', Parted', UNCHANGED <<executed, reg>>,
         present' \subseteq present, NEW i \in present', Resume(i, Saved),
         \A j \in Ids : thread'[j].fn = thread[j].fn /\ thread'[j].regs = Saved[j].regs
  PROVE  Inv'
<1>1. i \in Ids /\ i # Main /\ present \subseteq Ids
  <2>1. present \subseteq Ids
    BY DEF Inv, TypeInv
  <2> QED
    BY <2>1 DEF Ids, Main
<1>2. running' = [running EXCEPT !.id = i] /\ cpu' = Saved[i].regs
  BY DEF Resume
<1>3. running'.id = i /\ running'.regs = running.regs
  BY <1>2 DEF Inv, TypeInv
<1>4. running' # None
  BY <1>1, <1>3 DEF None
<1>5. \A j \in present : Position(j)' = Position(j)
  BY <1>1 DEF Position
<1>6. MainInv'
  BY <1>1, <1>3 DEF MainInv
<1>7. Counted'
  BY <1>1, Running DEF Inv, Counted
<1>8. \A j \in present' : Live(j)' = Saved[j].regs
  BY <1>1, <1>2, <1>3 DEF Live
<1>9. Isolation'
  BY <1>5, <1>8, SavedThreads DEF Isolation
<1>10. MainRestored'
  <2>1. cpu'.pc = Position(i)
    <3>1. Saved[i].regs = [pc |-> Position(i), sp |-> i, r |-> reg[i]]
      BY SavedThreads
    <3> QED
      BY <1>2, <3>1
  <2>2. Position(i) # Collect
    <3>1. thread[i].fn \in Functions
      BY <1>1 DEF Inv, TypeInv, ThreadType
    <3> QED
      BY <3>1, AddressesDiffer DEF Position, MainAt
  <2> QED
    BY <1>3, <1>4, <2>1, <2>2 DEF MainRestored, Interleaving, Inv
<1> QED
  BY <1>6, <1>7, <1>9, <1>10 DEF Inv

\* The current thread is saved and one of those in THREADS goes on.
LEMMA AbortThreadStep == Inv /\ AbortThread => Inv'
<1> SUFFICES ASSUME Inv, AbortThread
             PROVE  Inv'
  OBVIOUS
<1>1. Interleaving /\ running.id \in present /\ present \subseteq Ids /\ bp.on
  BY AtThread DEF AbortThread, Inv, TypeInv
<1>2. PICK i \in Choices(running.id, present, Saved) : Resume(i, Saved)
  BY DEF AbortThread
<1>3. thread' = Saved /\ UNCHANGED <<scheduler, present, done, shared, executed, reg>>
  BY DEF AbortThread, ghosts
<1>4. i \in present /\ i \in Ids
  BY <1>1, <1>2, Chosen
<1>5. Saved[i].regs \in Registers
  BY <1>4, <1>1, SavedThreads DEF ThreadType
<1>6. TypeInv'
  <2>1. /\ running' \in [id : Ids \cup {Main}, regs : Registers]
        /\ bp' \in [on : BOOLEAN, addr : Addresses]
    BY <1>2, <1>4, <1>5 DEF Resume, Inv, TypeInv, Registers
  <2>2. cpu' \in Registers
    BY <1>2, <1>5 DEF Resume
  <2> QED
    BY <1>1, <1>3, <2>1, <2>2, SavedThreads DEF Inv, TypeInv
<1>7. Parted'
  <2>1. running'.id = i /\ bp'.on = bp.on
    BY <1>2 DEF Resume, Inv, TypeInv
  <2>2. \A j \in Ids : thread'[j].finished = thread[j].finished
    BY <1>1, <1>3, SavedThreads
  <2> QED
    BY <1>1, <1>3, <1>4, <2>1, <2>2, Running DEF Inv, Parted
<1> QED
  BY <1>1, <1>2, <1>3, <1>4, <1>6, <1>7, Resumed, SavedThreads

\* The current thread leaves; it is the other's turn, or main's.
LEMMA AbortFinishedStep == Inv /\ AbortFinished => Inv'
<1> SUFFICES ASSUME Inv, AbortFinished
             PROVE  Inv'
  OBVIOUS
<1> DEFINE c == running.id
<1>1. Interleaving /\ c \in present /\ c \in Ids /\ c # Main /\ present \subseteq Ids /\ bp.on
  BY AtThread DEF AbortFinished, Inv, TypeInv, Ids, Main
<1>2. /\ thread' = [Saved EXCEPT ![c].finished = TRUE]
      /\ present' = present \ {c} /\ done' = Append(done, c)
      /\ UNCHANGED <<scheduler, shared, executed, reg>>
  BY DEF AbortFinished, Leave, ghosts
<1>3. /\ thread' \in [Ids -> ThreadType] /\ thread'[c].finished
      /\ \A j \in Ids : /\ thread'[j].fn = thread[j].fn /\ thread'[j].regs = Saved[j].regs
                        /\ j # c => thread'[j].finished = thread[j].finished
  <2>1. Saved \in [Ids -> ThreadType]
    BY <1>1, SavedThreads
  <2> DEFINE left == [Saved[c] EXCEPT !.finished = TRUE]
  <2>2. thread' = [Saved EXCEPT ![c] = left]
    BY <1>2
  <2>3. Saved[c] \in ThreadType
    BY <1>1, <2>1
  <2>4. left \in ThreadType /\ left.finished /\ left.fn = Saved[c].fn /\ left.regs = Saved[c].regs
    BY <2>3 DEF ThreadType
  <2> HIDE DEF left
  <2> QED
    BY <1>1, <2>1, <2>2, <2>4, SavedThreads
<1>4. present' \in SUBSET Ids /\ done' \in Seq(Ids)
  BY <1>1, <1>2 DEF Inv, TypeInv
<1>5. CASE present' = {}
  <2>1. bp' = [bp EXCEPT !.on = FALSE] /\ cpu' = running.regs /\ running' = None
    BY <1>5 DEF AbortFinished, BackToMain
  <2>2. cpu' = [pc |-> Trigger, sp |-> Main, r |-> reg[Main]] /\ cpu' \in Registers
    BY <1>1, <2>1 DEF Inv, MainRestored, TypeInv
  <2>3. Over'
    <3>1. \E i \in Ids : present = {1 - i} /\ done = <<i>> /\ thread[i].finished
      BY <1>1, <1>2, <1>5, Running DEF Inv, Parted, Ids
    <3>2. PICK i \in Ids : present = {1 - i} /\ done = <<i>> /\ thread[i].finished
      BY <3>1
    <3>3. c = 1 - i /\ i # c /\ Ids = {i, c}
      BY <1>1, <3>2 DEF Ids
    <3>4. Len(done') = 2 /\ done'[1] = i /\ done'[2] = c
      BY <1>2, <3>2
    <3>5. ~bp'.on
      BY <2>1 DEF Inv, TypeInv
    <3>6. \A j \in Ids : thread'[j].finished
      BY <1>3, <3>2, <3>3
    <3> QED
      BY <1>5, <3>3, <3>4, <3>5, <3>6 DEF Over
  <2>4. TypeInv'
    <3>1. None \in [id : Ids \cup {Main}, regs : Registers]
      BY DEF None, Registers, Addresses
    <3>2. bp' \in [on : BOOLEAN, addr : Addresses]
      BY <2>1 DEF Inv, TypeInv
    <3> QED
      BY <1>2, <1>3, <1>4, <2>1, <2>2, <3>1, <3>2 DEF Inv, TypeInv
  <2>5. MainInv'
    BY <2>1, <2>2, <2>3, AddressesDiffer DEF MainInv, MainAt, Over
  <2> QED
    BY <1>2, <2>1, <2>2, <2>4, <2>5, MainOnly
<1>6. CASE present' # {}
  <2>1. PICK i \in Choices(First(present'), present', Saved) : Resume(i, Saved)
    BY <1>6 DEF AbortFinished
  <2>2. i \in present' /\ i \in Ids
    BY <1>4, <1>6, FirstOf, Chosen
  <2>3. Saved[i].regs \in Registers
    BY <1>1, <2>2, SavedThreads DEF ThreadType
  <2>4. TypeInv'
    <3>1. running' \in [id : Ids \cup {Main}, regs : Registers]
          /\ bp' \in [on : BOOLEAN, addr : Addresses]
      BY <2>1, <2>2, <2>3 DEF Resume, Inv, TypeInv, Registers
    <3>2. cpu' \in Registers
      BY <2>1, <2>3 DEF Resume
    <3> QED
      BY <1>2, <1>3, <1>4, <3>1, <3>2 DEF Inv, TypeInv
  <2>5. Parted'
    <3>1. running'.id = i /\ bp'.on = bp.on
      BY <2>1 DEF Resume, Inv, TypeInv
    <3>2. present = Ids /\ done = <<>>
      BY <1>1, <1>2, <1>6, Running DEF Inv, Parted, Ids
    <3>3. present' = {1 - c} /\ done' = <<c>>
      BY <1>1, <1>2, <3>2 DEF Ids
    <3> QED
      BY <1>1, <1>3, <2>2, <3>1, <3>3 DEF Parted
  <2>6. present' \subseteq present
    BY <1>2
  <2> QED
    BY <1>1, <1>2, <1>3, <2>1, <2>2, <2>4, <2>5, <2>6, Resumed
<1> QED
  BY <1>5, <1>6

\* All steps.
LEMMA NextInv == Inv /\ [Next]_vars => Inv'
<1> SUFFICES ASSUME Inv, [Next]_vars
             PROVE  Inv'
  OBVIOUS
<1>1. CASE ThreadInstruction
  BY <1>1, ThreadStep
<1>2. CASE MainEnables
  BY <1>2, MainEnablesStep
<1>3. CASE MainPrepares
  BY <1>3, MainPreparesStep
<1>4. CASE MainReturns
  BY <1>4, MainReturnsStep
<1>5. CASE MainCollects
  BY <1>5, MainCollectsStep
<1>6. CASE AbortMain
  BY <1>6, AbortMainStep
<1>7. CASE AbortTrigger
  BY <1>7, AbortTriggerStep
<1>8. CASE AbortThread
  BY <1>8, AbortThreadStep
<1>9. CASE AbortFinished
  BY <1>9, AbortFinishedStep
<1>10. CASE UNCHANGED vars
  BY <1>10 DEF vars, search, ghosts, Inv, TypeInv, MainInv, Fresh, Over, Parted, Counted,
     Isolation, Interleaving, Live, Position, MainRestored
<1> QED
  BY <1>1, <1>2, <1>3, <1>4, <1>5, <1>6, <1>7, <1>8, <1>9, <1>10 DEF Next

\* An instruction leaves its own address, and the breakpoint stays there.
LEMMA StepAborts == Inv /\ ThreadInstruction => Aborts'
<1> SUFFICES ASSUME Inv, ThreadInstruction
             PROVE  Aborts'
  OBVIOUS
<1> DEFINE f == cpu.pc[1]
<1>1. f \in Functions
  BY DEF ThreadInstruction, Functions
<1>2. bp.on /\ cpu.pc = bp.addr /\ bp' = bp
  BY <1>1, ThreadRuns, AtThread DEF ThreadInstruction, Aborts
<1>3. cpu.pc[2] \in Nat /\ cpu.pc = <<f, cpu.pc[2]>>
  BY <1>1, InFunction DEF Inv, TypeInv, Registers
<1>4. cpu'.pc = Finished \/ cpu'.pc = <<f, cpu.pc[2] + 1>>
  BY <1>3 DEF ThreadInstruction, Inv, TypeInv, Registers
<1>5. cpu'.pc # cpu.pc
  BY <1>1, <1>3, <1>4, AddressesDiffer
<1> QED
  BY <1>2, <1>5 DEF Aborts

-----------------------------------------------------------------------------
(* The steps of the search.                                                *)

LEMMA Lengths == LengthA \in Nat \ {0} /\ LengthB \in Nat \ {0}
BY Places DEF LengthA, LengthB, Functions

\* The search never stops thread_a after its last instruction.
LEMMA Stops ==
  ASSUME LoopInv
  PROVE  Before \in Nat /\ (iter <= LengthA => Before < LengthA)
BY Lengths DEF LoopInv, Before

LEMMA FirstIsZero == ASSUME NEW S \in SUBSET Ids, 0 \in S PROVE First(S) = 0
<1>1. 0 \in S /\ \A j \in S : 0 <= j
  BY DEF Ids
<1>2. First(S) \in S /\ \A j \in S : First(S) <= j
  BY <1>1, Zenon DEF First
<1>3. First(S) <= 0 /\ First(S) \in {0, 1}
  BY <1>2 DEF Ids
<1> QED
  BY <1>3

LEMMA TwoIds == Ids # {0}
<1>1. 1 \in Ids /\ 1 \notin {0}
  BY DEF Ids
<1> QED
  BY <1>1

\* An instruction of the thread whose turn it is.
LEMMA TraceGrows ==
  ASSUME TraceInv, executed \in [Ids -> Nat], NEW i \in Ids, aStop' = aStop,
         trace' = Append(trace, i), executed' = [executed EXCEPT ![i] = @ + 1],
         Turn(executed[0] + executed[1] + 1) = i
  PROVE  TraceInv'
<1>1. trace \in Seq(Ids) /\ Len(trace) = executed[0] + executed[1] /\ Len(trace) \in Nat
  BY DEF TraceInv
<1>2. trace' \in Seq(Ids) /\ Len(trace') = Len(trace) + 1
      /\ trace'[Len(trace) + 1] = i /\ \A k \in 1 .. Len(trace) : trace'[k] = trace[k]
  BY <1>1
<1>3. executed'[0] + executed'[1] = executed[0] + executed[1] + 1
  BY DEF Ids
<1>4. \A k : Turn(k)' = Turn(k)
  BY DEF Turn, Before, LengthB
<1>5. \A k \in 1 .. Len(trace) : trace[k] = Turn(k)
  BY DEF TraceInv
<1>6. ASSUME NEW k \in 1 .. Len(trace) + 1
      PROVE  trace'[k] = Turn(k)
  <2>1. CASE k = Len(trace) + 1
    BY <1>1, <1>2, <2>1
  <2>2. CASE k # Len(trace) + 1
    <3>1. k \in 1 .. Len(trace)
      BY <1>1, <2>2
    <3> QED
      BY <1>2, <1>5, <3>1
  <2> QED
    BY <2>1, <2>2
<1> QED
  BY <1>1, <1>2, <1>3, <1>4, <1>6 DEF TraceInv

LEMMA TraceKept ==
  ASSUME TraceInv, UNCHANGED <<aStop, executed, trace>>
  PROVE  TraceInv'
BY DEF TraceInv, Turn, Before, LengthB

LEMMA NoTrace ==
  ASSUME trace = <<>>, executed = [i \in Ids |-> 0]
  PROVE  TraceInv
<1>1. trace \in Seq(Ids) /\ Len(trace) = 0 /\ executed[0] + executed[1] = 0
  BY DEF Ids
<1> QED
  BY <1>1 DEF TraceInv

LEMMA InitSearch == Init => SearchInv
<1> SUFFICES ASSUME Init
             PROVE  SearchInv
  OBVIOUS
<1> USE DEF Init, Ids, Main
<1>1. thread[0].fn = "A" /\ thread[1].fn = "B" /\ thread[0].count = 0
  BY DEF NewThread
<1>2. running.id = Main /\ cpu.pc = Enable /\ ~Over
  BY DEF None, Over
<1>3. PhaseInv /\ BetweenInv
  BY <1>1, <1>2, AddressesDiffer DEF PhaseInv, BetweenInv
<1>4. LoopInv
  BY <1>2, Lengths, AddressesDiffer DEF LoopInv
<1> QED
  BY <1>1, <1>3, <1>4 DEF SearchInv

\* A step of main that starts and ends no run.
LEMMA MainKeeps ==
  ASSUME SearchInv, scheduler = "search", running.id = Main,
         UNCHANGED <<scheduler, running, thread, present, done, search, executed, trace>>,
         bp'.on = bp.on, cpu'.pc = End <=> cpu.pc = End,
         cpu'.pc \in {Prepare, Trigger} /\ bp.on => cpu.pc \in {Prepare, Trigger}
  PROVE  SearchInv'
<1> USE DEF search
<1>1. (Fresh' <=> Fresh) /\ (Over' <=> Over)
  BY DEF Fresh, Over
<1>2. TraceInv => TraceInv'
  BY TraceKept
<1>3. PhaseInv'
  BY DEF PhaseInv
<1>4. BetweenInv'
  BY <1>1, <1>2 DEF SearchInv, BetweenInv
<1>5. LoopInv'
  BY DEF SearchInv, LoopInv, LengthA
<1> QED
  BY <1>3, <1>4, <1>5 DEF SearchInv

LEMMA MainEnablesSearch ==
  ASSUME Inv, SearchInv, scheduler = "search", MainEnables
  PROVE  SearchInv'
<1> USE DEF MainEnables, At, search
<1>1. running.id = Main /\ Fresh
  BY MainRuns, Running, AddressesDiffer DEF Inv, MainInv, MainAt
<1>2. Fresh' /\ ~Over'
  BY <1>1 DEF Fresh, Over, Ids
<1>3. cpu'.pc = Prepare
  BY DEF Inv, TypeInv, Registers
<1>4. PhaseInv' /\ BetweenInv'
  BY <1>1, <1>2 DEF PhaseInv, SearchInv, BetweenInv
<1>5. LoopInv'
  BY <1>1, <1>3, AddressesDiffer DEF SearchInv, LoopInv, LengthA
<1> QED
  BY <1>4, <1>5 DEF SearchInv

\* The first instructions are to be thread 0's.
LEMMA AbortTriggerSearch ==
  ASSUME Inv, SearchInv, scheduler = "search", AbortTrigger
  PROVE  SearchInv'
<1> USE DEF AbortTrigger, search
<1>1. running.id = Main /\ bp.on /\ bp.addr = Prepare /\ Fresh /\ executed = [i \in Ids |-> 0]
  <2>1. running.id = Main /\ bp.on
    BY Running DEF Aborts
  <2> QED
    BY <2>1, AddressesDiffer DEF Inv, MainInv
<1>2. trace = <<>> /\ thread[0].count = 0 /\ executed[0] = 0 /\ executed[1] = 0
  BY <1>1 DEF SearchInv, BetweenInv, Ids
<1>3. running'.id = 0 /\ 0 # Main /\ present' = Ids /\ present' # {0}
  <2>1. First(present) = 0
    BY <1>1, FirstIsZero DEF Fresh, Ids
  <2>2. running'.id = 0 /\ 0 # Main
    BY <2>1 DEF Main
  <2> QED
    BY <1>1, <2>2, TwoIds DEF Fresh
<1>4. cpu'.pc = Entry("A") /\ Aborts'
  <2>1. cpu' = thread[0].regs
    BY <1>1, FirstIsZero DEF Fresh, Ids
  <2>2. thread[0].regs.pc = Entry("A") /\ Entry("A") # Prepare
    BY <1>1, Places, AddressesDiffer DEF Fresh, SearchInv, Ids, Functions, MainAt
  <2> QED
    BY <1>1, <2>1, <2>2 DEF Aborts
<1>5. TraceInv'
  BY <1>1, <1>2, NoTrace, TraceKept
<1>6. LoopInv' /\ Before' = Before /\ Before \in Nat
  <2>1. iter # LengthA + 1
    BY <1>1, AddressesDiffer DEF SearchInv, LoopInv
  <2> QED
    BY <1>3, <2>1, Stops DEF SearchInv, LoopInv, LengthA, Before
<1>7. PhaseInv'
  BY <1>2, <1>3, <1>4, <1>5, <1>6 DEF PhaseInv, Aborted
<1>8. BetweenInv'
  BY <1>3 DEF BetweenInv
<1> QED
  BY <1>6, <1>7, <1>8 DEF SearchInv

\* What the loop has to say does not change while the threads run.
LEMMA LoopKept ==
  ASSUME LoopInv, running.id # Main, search' = search, running'.id # Main \/ cpu'.pc # End
  PROVE  LoopInv' /\ Before' = Before /\ Before \in Nat /\ Before < LengthA
<1>1. UNCHANGED <<aStop, aEnd, iter, explored>>
  BY DEF search
<1>2. iter <= LengthA
  BY Lengths DEF LoopInv
<1>3. Before \in Nat /\ Before < LengthA
  BY <1>2, Stops
<1>4. LoopInv'
  BY <1>1, <1>2, Lengths DEF LoopInv, LengthA
<1> QED
  BY <1>1, <1>3, <1>4 DEF Before

\* Which of the three phases it is.
LEMMA Phases ==
  ASSUME Inv, SearchInv, scheduler = "search", Interleaving
  PROVE  \/ running.id = 0 /\ present = Ids
         \/ running.id = 1 /\ present = Ids
         \/ running.id = 0 /\ present = {0}
<1>1. running.id \in present /\ (present = Ids \/ \E i \in Ids : present = {1 - i})
  BY Running DEF Inv, Parted
<1>2. running.id = 1 => present = Ids
  BY Running DEF SearchInv, PhaseInv, Ids, Main
<1> QED
  BY <1>1, <1>2 DEF Ids

LEMMA ThreadSearch ==
  ASSUME Inv, SearchInv, scheduler = "search", ThreadInstruction
  PROVE  SearchInv'
<1> DEFINE i == running.id
<1>1. Interleaving /\ i \in Ids /\ i # Main /\ cpu.sp = i /\ ~Aborts /\ Aborts'
  BY ThreadRuns, AtThread, StepAborts DEF ThreadInstruction, Functions, Ids, Main
<1>2. /\ executed' = [executed EXCEPT ![i] = @ + 1] /\ trace' = Append(trace, i)
      /\ UNCHANGED <<scheduler, present, thread, running, search>>
  BY <1>1 DEF ThreadInstruction
<1>3. executed \in [Ids -> Nat] /\ executed[0] \in Nat /\ executed[1] \in Nat
  BY DEF Inv, TypeInv, Ids
<1>4. executed[i] < Len(Code[thread[i].fn])
  <2>1. cpu.pc[1] \in Functions
    BY DEF ThreadInstruction, Functions
  <2> QED
    BY <2>1, ThreadRuns
<1>5. LoopInv' /\ Before' = Before /\ Before \in Nat /\ LengthB \in Nat
  BY <1>1, <1>2, LoopKept, Lengths DEF SearchInv
<1>6. PhaseInv /\ TraceInv /\ thread[0].count \in Nat
  BY <1>1 DEF SearchInv, PhaseInv, Inv, TypeInv, ThreadType, Ids
<1>7. BetweenInv'
  BY <1>1, <1>2 DEF BetweenInv
<1>8. aStop' = aStop
  BY <1>2 DEF search
<1>9. CASE i = 0 /\ present = Ids
  <2>1. executed[0] < Before /\ executed[1] = 0 /\ thread[0].count = executed[0] + 1
    BY <1>1, <1>6, <1>9 DEF PhaseInv, Aborted
  <2>2. Turn(executed[0] + executed[1] + 1) = 0
    BY <1>3, <1>5, <2>1 DEF Turn
  <2>3. TraceInv'
    BY <1>1, <1>2, <1>3, <1>6, <1>8, <1>9, <2>2, TraceGrows
  <2>4. executed'[0] = executed[0] + 1 /\ executed'[1] = executed[1] /\ present # {0}
    BY <1>2, <1>3, <1>9, TwoIds DEF Ids
  <2>5. PhaseInv'
    BY <1>1, <1>2, <1>3, <1>5, <1>9, <2>1, <2>3, <2>4 DEF PhaseInv, Aborted
  <2> QED
    BY <1>2, <1>5, <1>7, <2>5 DEF SearchInv
<1>10. CASE i = 1 /\ present = Ids
  <2>1. executed[0] = Before /\ thread[0].count = Before + 1 /\ executed[1] < LengthB
    BY <1>1, <1>4, <1>6, <1>10 DEF PhaseInv, SearchInv, LengthB
  <2>2. Turn(executed[0] + executed[1] + 1) = 1
    BY <1>3, <1>5, <2>1 DEF Turn
  <2>3. TraceInv'
    BY <1>1, <1>2, <1>3, <1>6, <1>8, <1>10, <2>2, TraceGrows
  <2>4. executed'[0] = executed[0] /\ present # {0}
    BY <1>2, <1>3, <1>10, TwoIds DEF Ids
  <2>5. PhaseInv'
    BY <1>1, <1>2, <1>5, <1>10, <2>1, <2>3, <2>4 DEF PhaseInv
  <2> QED
    BY <1>2, <1>5, <1>7, <2>5 DEF SearchInv
<1>11. CASE i = 0 /\ present = {0}
  <2>1. Before <= executed[0] /\ executed[1] = LengthB /\ thread[0].count = executed[0] + 1
    BY <1>1, <1>6, <1>11 DEF PhaseInv, Aborted
  <2>2. Turn(executed[0] + executed[1] + 1) = 0
    BY <1>3, <1>5, <2>1 DEF Turn
  <2>3. TraceInv'
    BY <1>1, <1>2, <1>3, <1>6, <1>8, <1>11, <2>2, TraceGrows
  <2>4. executed'[0] = executed[0] + 1 /\ executed'[1] = executed[1] /\ present # Ids
        /\ LengthB' = LengthB
    BY <1>2, <1>3, <1>11, TwoIds DEF Ids, LengthB
  <2>5. PhaseInv'
    BY <1>1, <1>2, <1>3, <1>5, <1>11, <2>1, <2>3, <2>4 DEF PhaseInv, Aborted
  <2> QED
    BY <1>2, <1>5, <1>7, <2>5 DEF SearchInv
<1> QED
  BY <1>1, <1>9, <1>10, <1>11, Phases

\* The handler counts the abort of the current thread.
LEMMA SavedCount ==
  ASSUME Inv, Interleaving
  PROVE  \A j \in Ids :
           Saved[j].count = IF j = running.id THEN thread[j].count + 1 ELSE thread[j].count
<1>1. running.id \in Ids /\ thread \in [Ids -> ThreadType]
  BY AtThread DEF Inv, TypeInv
<1> DEFINE i == running.id
           saved == [thread[i] EXCEPT !.regs = cpu, !.count = @ + 1]
<1>2. Saved = [thread EXCEPT ![i] = saved]
  BY <1>1 DEF Saved
<1>3. saved.count = thread[i].count + 1
  <2>1. thread[i] \in ThreadType
    BY <1>1
  <2> QED
    BY <2>1 DEF ThreadType
<1> HIDE DEF saved
<1> QED
  BY <1>1, <1>2, <1>3

\* A thread that goes on is let to execute one instruction.
LEMMA ResumedRuns ==
  ASSUME Inv, NEW i \in Ids, Resume(i, Saved)
  PROVE  running'.id = i /\ ~Aborts'
<1>1. running'.id = i /\ bp'.addr = Saved[i].regs.pc /\ cpu' = Saved[i].regs
  BY DEF Resume, Inv, TypeInv
<1> QED
  BY <1>1 DEF Aborts

LEMMA AbortThreadSearch ==
  ASSUME Inv, SearchInv, scheduler = "search", AbortThread
  PROVE  SearchInv'
<1> DEFINE c == running.id
<1>1. Interleaving /\ c \in Ids /\ c \in present /\ c # Main /\ Aborts
  BY AtThread DEF AbortThread, Ids, Main
<1>2. PICK i \in Choices(c, present, Saved) : Resume(i, Saved)
  BY DEF AbortThread
<1>3. thread' = Saved /\ UNCHANGED <<scheduler, present, done, search, executed, trace>>
  BY DEF AbortThread, ghosts
<1>4. i \in present /\ i \in Ids /\ i # Main
  <2>1. i \in present
    BY <1>1, <1>2, Chosen
  <2> QED
    BY <2>1 DEF Inv, TypeInv, Ids, Main
<1>5. running'.id = i /\ ~Aborts'
  BY <1>2, <1>4, ResumedRuns
<1>6. executed[0] \in Nat /\ executed[1] \in Nat /\ thread[0].count \in Nat
  BY DEF Inv, TypeInv, ThreadType, Ids
<1>7. LoopInv' /\ Before' = Before /\ Before \in Nat /\ aStop' = aStop
      /\ Before = (IF aStop = 0 THEN 0 ELSE aStop - 1) /\ aStop \in Nat
  <2>1. aStop \in Nat
    BY DEF SearchInv, LoopInv
  <2> QED
    BY <1>1, <1>3, <1>4, <1>5, <2>1, LoopKept DEF SearchInv, Before, search
<1>8. PhaseInv /\ TraceInv'
  BY <1>1, <1>3, <1>7, TraceKept DEF SearchInv, PhaseInv
<1>9. thread'[0].fn = "A" /\ thread'[1].fn = "B"
  BY <1>1, <1>3, SavedThreads DEF SearchInv, Ids
<1>10. BetweenInv'
  BY <1>4, <1>5 DEF BetweenInv
<1>11. SUFFICES PhaseInv'
  BY <1>3, <1>7, <1>9, <1>10 DEF SearchInv
<1>12. CASE c = 0 /\ present = Ids
  <2>1. /\ executed[0] <= Before /\ executed[1] = 0 /\ thread[0].count = executed[0]
    BY <1>1, <1>6, <1>8, <1>12 DEF PhaseInv, Aborted
  <2>2. Saved[0].count = executed[0] + 1 /\ 1 \in present /\ present # {0}
    BY <1>1, <1>12, <2>1, SavedCount DEF Ids
  <2>3. i = IF executed[0] + 1 >= aStop THEN 1 ELSE 0
    BY <1>2, <1>12, <2>2 DEF Choices
  <2>4. executed[0] + 1 >= aStop => executed[0] = Before
    BY <1>6, <1>7, <2>1
  <2>5. executed[0] + 1 < aStop => executed[0] < Before
    BY <1>6, <1>7, <2>1
  <2> QED
    BY <1>3, <1>5, <1>6, <1>7, <1>8, <1>12, <2>1, <2>2, <2>3, <2>4, <2>5 DEF PhaseInv, Aborted
<1>13. CASE c = 1 /\ present = Ids
  <2>1. executed[0] = Before /\ thread[0].count = Before + 1
    BY <1>1, <1>8, <1>13 DEF PhaseInv
  <2>2. Saved[0].count = thread[0].count /\ present # {0}
    BY <1>1, <1>13, SavedCount DEF Ids
  <2>3. i = 1
    BY <1>2, <1>13 DEF Choices
  <2> QED
    BY <1>3, <1>5, <1>7, <1>8, <1>13, <2>1, <2>2, <2>3 DEF PhaseInv
<1>14. CASE c = 0 /\ present = {0}
  <2>1. Before <= executed[0] /\ executed[1] = LengthB /\ thread[0].count = executed[0]
    BY <1>1, <1>6, <1>8, <1>14 DEF PhaseInv, Aborted
  <2>2. Saved[0].count = executed[0] + 1 /\ present # Ids
    BY <1>1, <1>14, <2>1, SavedCount DEF Ids
  <2>3. i = 0 /\ LengthB' = LengthB
    BY <1>4, <1>14 DEF LengthB
  <2> QED
    BY <1>3, <1>5, <1>7, <1>8, <1>14, <2>1, <2>2, <2>3 DEF PhaseInv, Aborted
<1> QED
  BY <1>1, <1>12, <1>13, <1>14, Phases

\* Thread 1 finishes first, and then thread 0.
LEMMA AbortFinishedSearch ==
  ASSUME Inv, Inv', SearchInv, scheduler = "search", AbortFinished
  PROVE  SearchInv'
<1> DEFINE c == running.id
<1>1. Interleaving /\ c \in Ids /\ c \in present /\ c # Main /\ Aborts /\ cpu.pc = Finished
  BY AtThread DEF AbortFinished, Ids, Main
<1>2. /\ thread' = [Saved EXCEPT ![c].finished = TRUE]
      /\ present' = present \ {c} /\ done' = Append(done, c)
      /\ UNCHANGED <<scheduler, search, executed, trace>>
  BY DEF AbortFinished, Leave, ghosts
<1>3. /\ thread'[0].fn = "A" /\ thread'[1].fn = "B"
      /\ thread'[0].count = IF c = 0 THEN thread[0].count + 1 ELSE thread[0].count
  <2> DEFINE left == [Saved[c] EXCEPT !.finished = TRUE]
  <2>1. Saved \in [Ids -> ThreadType] /\ Saved[c] \in ThreadType
    BY <1>1, SavedThreads
  <2>2. thread' = [Saved EXCEPT ![c] = left]
    BY <1>2
  <2>3. left.fn = Saved[c].fn /\ left.count = Saved[c].count
    BY <2>1 DEF ThreadType
  <2> HIDE DEF left
  <2>4. \A j \in Ids : thread'[j].fn = Saved[j].fn /\ thread'[j].count = Saved[j].count
    BY <1>1, <2>1, <2>2, <2>3
  <2> QED
    BY <1>1, <2>4, SavedThreads, SavedCount DEF SearchInv, Ids
<1>4. executed[0] \in Nat /\ executed[1] \in Nat /\ thread[0].count \in Nat
  BY DEF Inv, TypeInv, ThreadType, Ids
<1>5. executed[c] = Len(Code[thread[c].fn])
  <2>1. thread[c].fn \in Functions /\ cpu.pc = Position(c)
    BY <1>1, AtThread DEF Inv, TypeInv, ThreadType
  <2>2. executed[c] <= Len(Code[thread[c].fn]) /\ executed[c] \in Nat
    BY <1>1 DEF Inv, Counted, TypeInv
  <2>3. ~(executed[c] < Len(Code[thread[c].fn]))
    BY <1>1, <2>1, AddressesDiffer DEF Position
  <2> QED
    BY <2>1, <2>2, <2>3, Places
<1>6. PhaseInv /\ TraceInv /\ TraceInv'
  <2>1. PhaseInv /\ TraceInv /\ aStop' = aStop
    BY <1>1, <1>2 DEF SearchInv, PhaseInv, search
  <2> QED
    BY <1>2, <2>1, TraceKept
<1>7. LoopInv /\ Before \in Nat /\ Before < LengthA /\ LengthA \in Nat
  <2>1. iter <= LengthA
    BY <1>1, Lengths DEF SearchInv, LoopInv
  <2> QED
    BY <2>1, Stops, Lengths DEF SearchInv
<1>8. ~(c = 0 /\ present = Ids)
  BY <1>4, <1>5, <1>6, <1>7, <1>1 DEF PhaseInv, SearchInv, LengthA
<1>9. CASE c = 1 /\ present = Ids
  <2>1. present' = {0} /\ 0 \in present'
    BY <1>2, <1>9 DEF Ids
  <2>2. PICK i \in Choices(First(present'), present', Saved) : Resume(i, Saved)
    BY <2>1 DEF AbortFinished
  <2>3. First(present') = 0 /\ i = 0
    <3>1. First(present') = 0
      BY <2>1, FirstIsZero DEF Ids
    <3> QED
      BY <2>1, <2>2, <3>1, Chosen
  <2>4. running'.id = 0 /\ 0 # Main /\ ~Aborts'
    BY <2>2, <2>3, ResumedRuns DEF Ids, Main
  <2>5. LoopInv' /\ Before' = Before
    BY <1>1, <1>2, <1>7, <2>4, LoopKept
  <2>6. executed[0] = Before /\ thread[0].count = Before + 1 /\ executed[1] = LengthB
    BY <1>1, <1>5, <1>6, <1>9 DEF PhaseInv, SearchInv, LengthB
  <2>7. PhaseInv'
    <3>1. present' # Ids /\ LengthB' = LengthB /\ thread'[0].count = executed[0] + 1
      BY <1>3, <1>9, <2>1, <2>6 DEF Ids, LengthB
    <3> QED
      BY <1>2, <1>4, <1>6, <2>1, <2>4, <2>5, <2>6, <3>1 DEF PhaseInv, Aborted
  <2>8. BetweenInv'
    BY <2>4 DEF BetweenInv
  <2> QED
    BY <1>2, <1>3, <2>5, <2>7, <2>8 DEF SearchInv
<1>10. CASE c = 0 /\ present = {0}
  <2>1. present' = {}
    BY <1>2, <1>10
  <2>2. running' = None /\ running'.id = Main /\ cpu' = running.regs
    BY <2>1 DEF AbortFinished, BackToMain, None
  <2>3. cpu'.pc = Trigger
    BY <1>1, <2>2 DEF Inv, MainRestored
  <2>4. LoopInv'
    BY <1>1, <1>2, <1>7, <2>3, AddressesDiffer, LoopKept
  <2>5. executed[0] = LengthA /\ executed[1] = LengthB /\ thread'[0].count = LengthA + 1
    BY <1>1, <1>3, <1>4, <1>5, <1>6, <1>10 DEF PhaseInv, Aborted, SearchInv, LengthA
  <2>6. done'[1] = 1 /\ done'[2] = 0
    <3>1. \E j \in Ids : present = {1 - j} /\ done = <<j>>
      BY <1>1, <1>10, Running DEF Inv, Parted, Ids
    <3>2. done = <<1>>
      <4>1. PICK j \in Ids : present = {1 - j} /\ done = <<j>>
        BY <3>1
      <4>2. 1 - j \in {0}
        BY <1>10, <4>1
      <4>3. j = 1
        BY <4>2 DEF Ids
      <4> QED
        BY <4>1, <4>3
    <3>3. done' = Append(done, 0)
      BY <1>2, <1>10
    <3> QED
      BY <3>2, <3>3
  <2>7. ~bp'.on /\ ~Fresh'
    <3>1. bp' = [bp EXCEPT !.on = FALSE]
      BY <2>1 DEF AbortFinished, BackToMain
    <3> QED
      BY <2>1, <3>1 DEF Inv, TypeInv, Fresh, Ids
  <2>8. BetweenInv'
    BY <1>2, <1>6, <2>5, <2>6, <2>7 DEF BetweenInv, LengthA, LengthB
  <2>9. PhaseInv'
    BY <2>2 DEF PhaseInv
  <2> QED
    BY <1>2, <1>3, <2>4, <2>8, <2>9 DEF SearchInv
<1> QED
  BY <1>1, <1>8, <1>9, <1>10, Phases

\* What umain's loop adds to the search is the switch of the run that is over.
LEMMA SwitchOfRun ==
  ASSUME TraceInv, Before \in Nat, executed[0] = LengthA, executed[1] = LengthB,
         Before < LengthA
  PROVE  SwitchedAfter = Before
<1>1. trace \in Seq(Ids) /\ Len(trace) = LengthA + LengthB /\ DOMAIN trace = 1 .. LengthA + LengthB
  BY DEF TraceInv
<1>2. LengthA \in Nat /\ LengthB \in Nat \ {0}
  BY Lengths
<1> DEFINE zeros == {k \in DOMAIN trace : \A j \in 1 .. k : trace[j] = 0}
<1>3. ASSUME NEW k \in 1 .. Before
      PROVE  k \in zeros
  <2>1. \A j \in 1 .. k : j \in 1 .. Len(trace) /\ Turn(j) = 0
    BY <1>1, <1>2 DEF Turn
  <2>2. \A j \in 1 .. k : trace[j] = 0
    BY <2>1 DEF TraceInv
  <2>3. k \in DOMAIN trace
    BY <1>1, <1>2
  <2> QED
    BY <2>2, <2>3
<1>4. ASSUME NEW k \in zeros, k > Before
      PROVE  FALSE
  <2>1. k \in 1 .. LengthA + LengthB
    BY <1>1
  <2>2. Before + 1 \in 1 .. k /\ Before + 1 \in 1 .. Len(trace)
    BY <1>1, <1>2, <1>4, <2>1
  <2>3. Turn(Before + 1) = 1
    BY <1>2 DEF Turn
  <2>4. trace[Before + 1] = 1
    BY <2>2, <2>3 DEF TraceInv
  <2>5. trace[Before + 1] = 0
    BY <2>2
  <2> QED
    BY <2>4, <2>5
<1>5. \A k \in zeros : k \in 1 .. Before
  <2> SUFFICES ASSUME NEW k \in zeros
               PROVE  k \in 1 .. Before
    OBVIOUS
  <2>1. k \in 1 .. LengthA + LengthB
    BY <1>1
  <2>2. ~(k > Before)
    BY <1>4
  <2> QED
    BY <1>2, <2>1, <2>2
<1>6. zeros = 1 .. Before
  <2> HIDE DEF zeros
  <2> QED
    BY <1>3, <1>5
<1>7. Cardinality(1 .. Before) = Before
  <2>1. 1 <= Before => Cardinality(1 .. Before) = Before - 1 + 1
    BY FS_Interval
  <2>2. Before = 0 => 1 .. Before = {}
    OBVIOUS
  <2> QED
    BY <2>1, <2>2, FS_EmptySet
<1> QED
  BY <1>6, <1>7 DEF SwitchedAfter

LEMMA MainCollectsSearch ==
  ASSUME Inv, Inv', SearchInv, scheduler = "search", MainCollects
  PROVE  SearchInv'
<1> USE DEF MainCollects, At, ghosts
<1>1. running = None /\ running.id = Main /\ Over
  BY MainRuns, Running, AddressesDiffer DEF Inv, MainInv, MainAt
<1>2. /\ done[1] = 1 /\ done[2] = 0 /\ thread[0].count = LengthA + 1
      /\ executed[0] = LengthA /\ executed[1] = LengthB /\ TraceInv
  BY <1>1 DEF SearchInv, BetweenInv
<1>3. done[Len(done)] = 0 /\ done[Len(done) - 1] = 1
  BY <1>1, <1>2 DEF Over
<1>4. thread' = [thread EXCEPT ![0] = ResetThread(thread[0], 0, "A"),
                               ![1] = ResetThread(thread[1], 1, "B")]
  BY <1>3
<1>5. thread'[0].fn = "A" /\ thread'[1].fn = "B" /\ thread'[0].count = 0
  BY <1>4 DEF Inv, TypeInv, Ids, ResetThread
<1>6. /\ iter \in Int /\ -1 <= iter /\ iter <= LengthA
      /\ aStop = IF iter >= 1 THEN iter - 1 ELSE 0
      /\ iter >= 0 => aEnd = LengthA + 1
      /\ explored = IF iter = -1 THEN {} ELSE 0 .. IF iter >= 3 THEN iter - 3 ELSE 0
  <2>1. iter # LengthA + 1
    BY AddressesDiffer, <1>1 DEF SearchInv, LoopInv
  <2> QED
    BY <2>1, Lengths DEF SearchInv, LoopInv
<1>7. Before = (IF iter >= 2 THEN iter - 2 ELSE 0) /\ Before \in Nat /\ Before < LengthA
  BY <1>6, Stops DEF Before, SearchInv
<1>8. /\ aEnd' = LengthA + 1 /\ iter' = iter + 1
      /\ aStop' = IF iter = -1 THEN aStop ELSE iter
      /\ explored' = explored \cup {Before}
  BY <1>2, <1>3, <1>6, <1>7, SwitchOfRun
<1>9. cpu'.pc = (IF iter + 1 < LengthA + 1 THEN Enable ELSE End) /\ running' = running
  BY <1>8 DEF Inv, TypeInv, Registers
<1>10. LoopInv'
  <2>1. explored' = 0 .. IF iter + 1 >= 3 THEN iter + 1 - 3 ELSE 0
    BY <1>6, <1>7, <1>8
  <2>2. aStop' = IF iter' >= 1 THEN iter' - 1 ELSE 0
    BY <1>6, <1>8
  <2>3. iter' = LengthA + 1 <=> cpu'.pc = End
    BY <1>6, <1>8, <1>9, Lengths, AddressesDiffer
  <2>4. LengthA' = LengthA
    BY DEF LengthA
  <2> QED
    BY <1>1, <1>6, <1>8, <1>9, <2>1, <2>2, <2>3, <2>4, Lengths DEF LoopInv
<1>11. BetweenInv'
  <2>1. ~Over' /\ cpu'.pc \notin {Prepare, Trigger}
    <3>1. 0 \in present'
      BY <1>3
    <3>2. ~Over'
      BY <3>1 DEF Over
    <3>3. cpu'.pc \in {Enable, End}
      BY <1>9
    <3> QED
      BY <3>2, <3>3, AddressesDiffer
  <2> QED
    BY <1>5, <2>1 DEF BetweenInv
<1>12. PhaseInv'
  BY <1>1, <1>9 DEF PhaseInv
<1> QED
  BY <1>5, <1>10, <1>11, <1>12 DEF SearchInv

LEMMA NextSearch == Inv /\ Inv' /\ SearchInv /\ [Next]_vars => SearchInv'
<1> SUFFICES ASSUME Inv, Inv', SearchInv, [Next]_vars
             PROVE  SearchInv'
  OBVIOUS
<1>0. scheduler' = scheduler
  <2>1. CASE ThreadInstruction \/ MainEnables \/ MainPrepares \/ MainReturns \/ MainCollects
    BY <2>1 DEF ThreadInstruction, MainEnables, MainPrepares, MainReturns, MainCollects
  <2>2. CASE AbortMain \/ AbortTrigger \/ AbortThread \/ AbortFinished
    BY <2>2 DEF AbortMain, AbortTrigger, AbortThread, AbortFinished
  <2>3. CASE UNCHANGED vars
    BY <2>3 DEF vars
  <2> QED
    BY <2>1, <2>2, <2>3 DEF Next
<1> SUFFICES ASSUME scheduler = "search"
             PROVE  SearchInv'
  BY <1>0 DEF SearchInv
<1>1. CASE ThreadInstruction \/ MainEnables \/ MainCollects
  BY <1>1, ThreadSearch, MainEnablesSearch, MainCollectsSearch
<1>2. CASE AbortTrigger \/ AbortThread \/ AbortFinished
  BY <1>2, AbortTriggerSearch, AbortThreadSearch, AbortFinishedSearch
<1>3. CASE MainPrepares
  <2>1. running.id = Main
    BY <1>3, MainRuns, Running DEF MainPrepares, At, MainAt
  <2>2. cpu.pc = Prepare /\ cpu'.pc = Trigger
    BY <1>3 DEF MainPrepares, At, Inv, TypeInv, Registers
  <2> QED
    BY <1>3, <2>1, <2>2, MainKeeps, AddressesDiffer DEF MainPrepares
<1>4. CASE MainReturns
  <2>1. running.id = Main
    BY <1>4, MainRuns, Running DEF MainReturns, At, MainAt
  <2>2. cpu.pc = Trigger /\ cpu'.pc = Collect
    BY <1>4 DEF MainReturns, At, Inv, TypeInv, Registers
  <2> QED
    BY <1>4, <2>1, <2>2, MainKeeps, AddressesDiffer DEF MainReturns, ghosts
<1>5. CASE AbortMain
  <2>1. running.id = Main /\ bp'.on = bp.on
    BY <1>5, Running DEF AbortMain, Inv, TypeInv
  <2> QED
    BY <1>5, <2>1, MainKeeps DEF AbortMain, ghosts
<1>6. CASE UNCHANGED vars
  BY <1>6 DEF vars, search, ghosts, SearchInv, PhaseInv, BetweenInv, LoopInv, TraceInv, Turn,
              Before, Aborted, Aborts, Fresh, Over, LengthA, LengthB
<1> QED
  BY <1>1, <1>2, <1>3, <1>4, <1>5, <1>6 DEF Next

-----------------------------------------------------------------------------
(* The theorems.                                                           *)

LEMMA Inductive == Spec => []Inv
BY InitInv, NextInv, PTL DEF Spec

\* Whatever the code and whatever the scheduler decides, each thread finds its program
\* counter, its stack and its registers as it left them.
THEOREM Isolated == Spec => []Isolation
<1>1. Inv => Isolation
  BY DEF Inv
<1> QED
  BY <1>1, Inductive, PTL

\* Main's registers are kept while the threads run and given back when both have
\* finished, with stepping off.
THEOREM Restored == Spec => []MainRestored
<1>1. Inv => MainRestored
  BY DEF Inv
<1> QED
  BY <1>1, Inductive, PTL

\* After every instruction of a thread the handler runs, and asks the scheduler.
THEOREM Stepped == Spec => OneStep
<1>1. Inv /\ [Next]_vars => [ThreadInstruction => Aborts']_vars
  BY StepAborts
<1> QED
  BY <1>1, Inductive, PTL DEF Spec, OneStep

LEMMA InductiveSearch == Spec => []SearchInv
BY InitInv, NextInv, InitSearch, NextSearch, PTL DEF Spec

\* Main collects the threads after a run.
LEMMA Collected ==
  ASSUME Inv, SearchInv, scheduler = "search", cpu.pc = Collect
  PROVE  /\ TraceInv /\ executed[0] = LengthA /\ executed[1] = LengthB
<1>1. running.id = Main /\ Over
  BY MainRuns, Running, AddressesDiffer DEF Inv, MainInv, MainAt
<1> QED
  BY <1>1 DEF SearchInv, BetweenInv

\* For all straight-line code of the two threads, each run of the search switches once
\* to thread_b, at the instruction that its A_STOP says.
THEOREM Switches == Spec => []SwitchPoint
<1>1. Inv /\ SearchInv => SwitchPoint
  <2> SUFFICES ASSUME Inv, SearchInv, scheduler = "search", cpu.pc = Collect
               PROVE  trace = [k \in 1 .. LengthA + LengthB |->
                                 IF k <= Before \/ k > Before + LengthB THEN 0 ELSE 1]
    BY DEF SwitchPoint, LengthA, LengthB, Before
  <2>1. /\ trace \in Seq(Ids) /\ Len(trace) = LengthA + LengthB
        /\ \A k \in 1 .. Len(trace) : trace[k] = Turn(k)
    BY Collected DEF TraceInv
  <2>2. DOMAIN trace = 1 .. LengthA + LengthB /\ trace = [k \in DOMAIN trace |-> trace[k]]
    BY <2>1
  <2> QED
    BY <2>1, <2>2 DEF Turn
<1> QED
  BY <1>1, Inductive, InductiveSearch, PTL

\* When thread_a has two instructions or more, the search lets thread_b run after each
\* number of them but the last two.
THEOREM SearchComplete ==
  ASSUME Len(Code["A"]) >= 2
  PROVE  Spec => []Explores
<1>1. Inv /\ SearchInv => Explores
  <2> SUFFICES ASSUME Inv, SearchInv, scheduler = "search", cpu.pc = End
               PROVE  explored = 0 .. LengthA - 2
    BY DEF Explores, LengthA
  <2>1. running.id = Main
    BY MainRuns, Running DEF MainAt
  <2>2. iter = LengthA + 1 /\ LengthA \in Nat /\ LengthA >= 2
    BY <2>1, Lengths DEF SearchInv, LoopInv, LengthA
  <2> QED
    BY <2>2 DEF SearchInv, LoopInv
<1> QED
  BY <1>1, Inductive, InductiveSearch, PTL

=============================================================================
