---------------------------- MODULE ThreadsProof ----------------------------
(***************************************************************************)
(* For every capacity of the queue and every number of threads, a program  *)
(* that yields only from threads finds every context as it was left, uses  *)
(* no freed stack, panics only over capacity, and sees round-robin         *)
(* coroutines (RoundRobin).                                                *)
(*                                                                         *)
(* The invariant follows a thread's stack and registers from the yield to  *)
(* the resumption: Contexts alone says nothing of a thread that waits.     *)
(***************************************************************************)
EXTENDS Threads, TLAPS

Distinct == \A j, k \in 1 .. Len(queue) : queue[j] = queue[k] => j = k

\* OnePlace without its last part, which a fork that panics breaks.
Places ==
  /\ Distinct
  /\ Turn # None => Turn < counter /\ Turn \notin exited /\ ~InQueue(Turn)
  /\ \A t \in Tids : InQueue(t) => t < counter /\ t \notin exited
  /\ \A t \in exited : t < counter

Covered == ~panicked => \A t \in Tids : t < counter => InQueue(t) \/ Turn = t \/ t \in exited

\* What the processor's place says of the turn, and of what start left to return to.
Control ==
  /\ at \in {"popped", "call"} => next \in Tids
  /\ at = "call" => next = current
  /\ at \in {"call", "trampoline", "reentry", "body"} => current \in Tids
  /\ at \in {"trampoline", "reentry", "body", "reload"} =>
       returnPc /\ dump = [sp |-> Main, regs |-> [of |-> Main, bit |-> bit[Main]]]

\* t is to be resumed.
Waits(t) == InQueue(t) \/ (at # "body" /\ Turn = t)

\* Then its stack holds what it had, and a thread to come has flipped no bit.
Saved ==
  \A t \in Tids :
    /\ Waits(t) => stackPtr[t] = t /\ top[t] = [of |-> t, bit |-> bit[t]]
    /\ t >= counter => bit[t] = 0

\* Boxes are dropped after their thread has exited and the processor left its stack.
Boxes ==
  /\ freed \subseteq exited
  /\ current \notin freed
  /\ sp \notin freed
  /\ at \in {"main", "loop", "popped", "reload"} => current = None \/ current \in exited

Inv ==
  /\ TypeOK /\ Places /\ Covered /\ Control /\ Saved /\ Boxes
  /\ Contexts /\ PanicOnlyOverCapacity

-----------------------------------------------------------------------------
(* The queue.                                                              *)

\* At the back.
LEMMA PushBack ==
  ASSUME queue \in Seq(Tids), NEW x \in Tids, queue' = Append(queue, x)
  PROVE  /\ queue' \in Seq(Tids) /\ Len(queue') = Len(queue) + 1
         /\ \A t \in Tids : InQueue(t)' <=> InQueue(t) \/ t = x
         /\ Distinct /\ ~InQueue(x) => Distinct'
<1>1. queue' \in Seq(Tids) /\ Len(queue') = Len(queue) + 1 /\ Len(queue) \in Nat
  OBVIOUS
<1>2. \A k \in 1 .. Len(queue) : queue'[k] = queue[k]
  OBVIOUS
<1>3. queue'[Len(queue) + 1] = x
  OBVIOUS
<1>4. \A k \in 1 .. Len(queue') : k \in 1 .. Len(queue) \/ k = Len(queue) + 1
  BY <1>1
<1>5. ASSUME NEW t \in Tids
      PROVE  InQueue(t)' <=> InQueue(t) \/ t = x
  <2>1. InQueue(t)' => InQueue(t) \/ t = x
    BY <1>1, <1>2, <1>3, <1>4 DEF InQueue
  <2>2. InQueue(t) => InQueue(t)'
    BY <1>1, <1>2 DEF InQueue
  <2>3. t = x => InQueue(t)'
    BY <1>1, <1>3 DEF InQueue
  <2> QED
    BY <2>1, <2>2, <2>3
<1>6. Distinct /\ ~InQueue(x) => Distinct'
  BY <1>1, <1>2, <1>3, <1>4 DEF Distinct, InQueue
<1> QED
  BY <1>1, <1>5, <1>6

\* From the front.
LEMMA PopFront ==
  ASSUME queue \in Seq(Tids), queue # <<>>, NEW x, x = Head(queue), queue' = Tail(queue)
  PROVE  /\ x \in Tids
         /\ queue' \in Seq(Tids) /\ Len(queue') = Len(queue) - 1
         /\ \A t \in Tids : InQueue(t) <=> InQueue(t)' \/ t = x
         /\ Distinct => Distinct' /\ ~InQueue(x)'
<1>1. x = queue[1] /\ 1 \in 1 .. Len(queue) /\ x \in Tids
  OBVIOUS
<1>2. queue' \in Seq(Tids) /\ Len(queue') = Len(queue) - 1 /\ Len(queue') \in Nat
  OBVIOUS
<1>3. \A k \in 1 .. Len(queue') : k + 1 \in 1 .. Len(queue) /\ queue'[k] = queue[k + 1]
  BY <1>2
<1>4. \A k \in 1 .. Len(queue) : k = 1 \/ (k - 1 \in 1 .. Len(queue') /\ queue'[k - 1] = queue[k])
  BY <1>2
<1>5. ASSUME NEW t \in Tids
      PROVE  InQueue(t) <=> InQueue(t)' \/ t = x
  BY <1>1, <1>3, <1>4 DEF InQueue
<1>6. ASSUME Distinct
      PROVE  Distinct' /\ ~InQueue(x)'
  <2>1. Distinct'
    <3>1. ASSUME NEW j \in 1 .. Len(queue'), NEW k \in 1 .. Len(queue'), queue'[j] = queue'[k]
          PROVE  j = k
      <4>1. j + 1 = k + 1
        BY <1>3, <1>6, <3>1 DEF Distinct
      <4> QED
        BY <1>2, <4>1
    <3> QED
      BY <3>1 DEF Distinct
  <2>2. ASSUME NEW k \in 1 .. Len(queue'), queue'[k] = x
        PROVE  FALSE
    <3>1. k + 1 = 1
      BY <1>1, <1>3, <1>6, <2>2 DEF Distinct
    <3> QED
      BY <1>2, <3>1
  <2> QED
    BY <2>1, <2>2 DEF InQueue
<1> QED
  BY <1>1, <1>2, <1>5, <1>6

-----------------------------------------------------------------------------
\* At first there are no threads.
LEMMA InitInv == Init => Inv
<1> SUFFICES ASSUME Init
             PROVE  Inv
  OBVIOUS
<1> USE ThreadsAssumption DEF Init, Tids, Main, None, Code
<1>1. TypeOK
  <2>1. queue \in Seq(Tids) /\ Len(queue) <= ThreadCount
    OBVIOUS
  <2>2. dump \in [sp : Code \cup {None}, regs : Registers] /\ regs \in Registers
    BY DEF Registers, Scratch, NoDump
  <2>3. top \in [Code -> Registers] /\ entry \in [Tids -> {"trampoline", "reentry"}]
    BY DEF Registers, Scratch
  <2>4. stackPtr \in [Tids -> Code] /\ bit \in [Code -> {0, 1}]
    OBVIOUS
  <2>5. counter \in 0 .. MaxForks /\ exited \in SUBSET Tids /\ freed \in SUBSET Tids
    OBVIOUS
  <2> QED
    BY <2>1, <2>2, <2>3, <2>4, <2>5 DEF TypeOK, Labels
<1>2. Places /\ Covered
  BY DEF Places, Covered, Distinct, InQueue, Turn
<1>3. Control /\ Saved
  BY DEF Control, Saved, Waits, InQueue, Turn
<1> QED
  BY <1>1, <1>2, <1>3 DEF Inv, Boxes, Contexts, PanicOnlyOverCapacity

\* The program's and the threads' own code.
LEMMA WorkStep == ASSUME Inv, Work PROVE Inv'
<1> USE DEF Inv, Work, Running, memory
<1>1. at \in {"main", "body"} /\ ~panicked
  OBVIOUS
<1>2. regs.of = (IF at = "main" THEN Main ELSE current) /\ regs.of \in Code
      /\ regs.bit = bit[regs.of]
  BY <1>1 DEF Contexts, Control, Code
<1>3. bit' \in [Code -> {0, 1}] /\ regs' \in Registers
      /\ regs' = [of |-> regs.of, bit |-> bit'[regs.of]]
  BY <1>2 DEF TypeOK, Registers
<1>4. TypeOK'
  BY <1>3 DEF TypeOK
<1>5. \A c \in Code : c # regs.of => bit'[c] = bit[c]
  BY <1>2 DEF TypeOK
<1>6. Places' /\ Covered' /\ Boxes' /\ PanicOnlyOverCapacity'
  BY <1>1 DEF Places, Covered, Distinct, InQueue, Turn, Boxes, PanicOnlyOverCapacity
<1>7. Control'
  BY <1>1, <1>2, <1>5 DEF Control, Code, Main, Tids
<1>8. Saved'
  <2>1. ASSUME NEW t \in Tids
        PROVE  Waits(t)' <=> Waits(t)
    BY <1>1 DEF Waits, Turn, InQueue
  <2>2. ASSUME NEW t \in Tids, Waits(t) \/ t >= counter
        PROVE  t # regs.of
    BY <1>1, <1>2, <2>2 DEF Waits, Places, Control, Turn, Main, Tids, None, TypeOK
  <2>3. \A t \in Tids : t # regs.of => bit'[t] = bit[t]
    BY <1>5 DEF Code
  <2> QED
    BY <2>1, <2>2, <2>3 DEF Saved
<1>9. Contexts'
  BY <1>1, <1>2, <1>3 DEF Contexts
<1> QED
  BY <1>4, <1>6, <1>7, <1>8, <1>9

\* fork: the new thread waits with a stack of its own.
LEMMA ForkStep == ASSUME Inv, Fork PROVE Inv'
<1> USE ThreadsAssumption DEF Inv, Fork, Running
<1>1. at \in {"main", "body"} /\ ~panicked /\ counter \in Tids
  BY DEF TypeOK, Tids
<1>2. counter' = counter + 1 /\ counter' \in 0 .. MaxForks
  BY DEF TypeOK
<1>3. Turn' = Turn /\ (Turn # None => Turn \in Tids)
  BY <1>1 DEF cpu, Turn, Control
<1>4. ~InQueue(counter) /\ Turn # counter /\ counter \notin exited /\ bit[counter] = 0
  <2>1. ~(counter < counter) /\ counter >= counter /\ counter # None
    BY <1>1 DEF Tids, None
  <2> QED
    BY <1>1, <1>3, <2>1 DEF Places, Saved
<1>5. Control' /\ Boxes' /\ Contexts'
  BY DEF cpu, ghosts, Control, Boxes, Contexts
<1>6. CASE Len(queue) < ThreadCount
  <2>1. /\ queue' \in Seq(Tids) /\ Len(queue') = Len(queue) + 1
        /\ \A t \in Tids : InQueue(t)' <=> InQueue(t) \/ t = counter
        /\ Distinct /\ ~InQueue(counter) => Distinct'
    BY <1>1, <1>6, PushBack DEF TypeOK
  <2>2. entry' \in [Tids -> {"trampoline", "reentry"}] /\ stackPtr' \in [Tids -> Code]
        /\ top' \in [Code -> Registers]
    <3>1. counter \in Code /\ [of |-> counter, bit |-> 0] \in Registers
      BY <1>1 DEF Code, Registers
    <3>2. entry' \in [Tids -> {"trampoline", "reentry"}]
      BY <1>6 DEF TypeOK
    <3>3. stackPtr' \in [Tids -> Code]
      BY <1>6, <3>1 DEF TypeOK
    <3>4. top' \in [Code -> Registers]
      BY <1>6, <3>1 DEF TypeOK
    <3> QED
      BY <3>2, <3>3, <3>4
  <2>3. TypeOK'
    BY <1>2, <1>6, <2>1, <2>2 DEF TypeOK, cpu, ghosts
  <2>4. Places'
    BY <1>1, <1>2, <1>3, <1>4, <2>1 DEF Places, ghosts, Tids, TypeOK
  <2>5. Covered' /\ PanicOnlyOverCapacity'
    BY <1>1, <1>2, <1>3, <1>6, <2>1 DEF Covered, PanicOnlyOverCapacity, ghosts, Tids, TypeOK
  <2>6. Saved'
    <3>1. ASSUME NEW t \in Tids, t # counter
          PROVE  /\ Waits(t)' <=> Waits(t)
                 /\ stackPtr'[t] = stackPtr[t] /\ top'[t] = top[t]
      BY <1>1, <1>3, <1>6, <2>1, <3>1 DEF Waits, TypeOK, cpu, Code
    <3>2. stackPtr'[counter] = counter /\ top'[counter] = [of |-> counter, bit |-> 0]
      BY <1>1, <1>6 DEF TypeOK, Code
    <3>3. \A t \in Tids : t >= counter' => t >= counter
      BY <1>2 DEF TypeOK, Tids
    <3> QED
      BY <1>4, <3>1, <3>2, <3>3 DEF Saved, ghosts
  <2> QED
    BY <1>5, <2>3, <2>4, <2>5, <2>6
<1>7. CASE ~(Len(queue) < ThreadCount)
  <2>1. TypeOK'
    BY <1>2, <1>7 DEF TypeOK, memory, cpu, ghosts
  <2>2. Places' /\ Covered'
    BY <1>1, <1>2, <1>3, <1>7 DEF Places, Covered, Distinct, InQueue, ghosts, Tids, TypeOK
  <2>3. \A t \in Tids : Waits(t)' <=> Waits(t)
    BY <1>3, <1>7 DEF Waits, InQueue, cpu
  <2>4. Saved'
    BY <1>2, <1>7, <2>3 DEF Saved, memory, ghosts, Tids, TypeOK
  <2>5. returnPc \/ at = "main"
    BY <1>1 DEF Control
  <2>6. Len(queue) = ThreadCount
    BY <1>7 DEF TypeOK
  <2>7. PanicOnlyOverCapacity'
    BY <1>1, <1>2, <1>4, <1>7, <2>5, <2>6 DEF PanicOnlyOverCapacity, InQueue, cpu, ghosts, Tids
  <2> QED
    BY <1>5, <2>1, <2>2, <2>4, <2>7
<1> QED
  BY <1>6, <1>7

\* start begins, and returns: nobody has the turn.
LEMMA StartStep == ASSUME Inv, Start \/ StartReturns PROVE Inv'
<1> USE DEF Inv, Start, StartReturns, Running, memory, ghosts
<1>1. at \in {"main", "loop"} /\ at' \in {"main", "loop"} /\ ~panicked
  OBVIOUS
<1>2. TypeOK'
  BY <1>1 DEF TypeOK, Registers, Scratch, Labels
<1>3. Turn' = None /\ Turn = None
  BY <1>1 DEF Turn
<1>4. Places' /\ Covered' /\ PanicOnlyOverCapacity'
  BY <1>1, <1>3 DEF Places, Covered, Distinct, InQueue, PanicOnlyOverCapacity
<1>5. Saved'
  BY <1>3, <1>1 DEF Saved, Waits, InQueue
<1>6. Control' /\ Boxes' /\ Contexts'
  BY <1>1 DEF Control, Boxes, Contexts
<1> QED
  BY <1>2, <1>4, <1>5, <1>6

\* The turn goes to the first in the queue.
LEMMA PopStep == ASSUME Inv, Pop PROVE Inv'
<1> USE DEF Inv, Pop, Running, memory, ghosts
<1>1. /\ next' \in Tids
      /\ queue' \in Seq(Tids) /\ Len(queue') = Len(queue) - 1
      /\ \A t \in Tids : InQueue(t) <=> InQueue(t)' \/ t = next'
      /\ Distinct'
  BY PopFront DEF TypeOK, Places
<1>2. \A j \in 1 .. Len(queue') : queue'[j] # next'
  BY PopFront DEF TypeOK, Places, InQueue
<1>3. at = "loop" /\ at' = "popped" /\ ~panicked /\ Turn = None /\ Turn' = next'
  BY DEF Turn
<1>4. InQueue(Head(queue)) /\ Head(queue) = next'
  BY <1>1 
<1>5. TypeOK'
  <2>1. Len(queue') <= ThreadCount
    BY <1>1, ThreadsAssumption DEF TypeOK
  <2> QED
    BY <1>1, <1>3, <2>1 DEF TypeOK, Labels
<1>6. Places'
  BY <1>1, <1>2, <1>3, <1>4 DEF Places, InQueue
<1>7. Covered' /\ PanicOnlyOverCapacity'
  <2>1. ASSUME NEW t \in Tids, t < counter
        PROVE  InQueue(t)' \/ next' = t \/ t \in exited
    BY <1>1, <1>3, <2>1 DEF Covered, Tids, None
  <2> QED
    BY <1>3, <2>1 DEF Covered, PanicOnlyOverCapacity
<1>8. Saved'
  BY <1>1, <1>3 DEF Saved, Waits
<1>9. Control' /\ Boxes' /\ Contexts'
  BY <1>1, <1>3 DEF Control, Boxes, Contexts
<1> QED
  BY <1>5, <1>6, <1>7, <1>8, <1>9

\* start's steps to the thread leave the queue and the turn as they are.
LEMMA TurnKept ==
  ASSUME Inv, UNCHANGED <<queue, counter, exited, panicked>>, Turn' = Turn, ~panicked
  PROVE  Places' /\ Covered' /\ PanicOnlyOverCapacity' /\ \A t \in Tids : InQueue(t)' <=> InQueue(t)
BY DEF Inv, Places, Covered, Distinct, InQueue, PanicOnlyOverCapacity

\* The box of an exited thread is dropped when the next one becomes current.
LEMMA SetCurrentStep == ASSUME Inv, SetCurrent PROVE Inv'
<1> USE DEF Inv, SetCurrent, Running, memory
<1>1. at = "popped" /\ at' = "call" /\ ~panicked /\ next \in Tids /\ Turn' = Turn /\ Turn = next
  BY DEF Turn, Control
<1>2. Turn # None
  BY <1>1 DEF Tids, None
<1>3. next \notin exited /\ freed' \subseteq exited /\ exited \subseteq Tids /\ sp = Main
  BY <1>1, <1>2 DEF Places, Boxes, Contexts, TypeOK
<1>4. TypeOK'
  BY <1>1, <1>3 DEF TypeOK, Labels
<1>5. Places' /\ Covered' /\ PanicOnlyOverCapacity' /\ \A t \in Tids : InQueue(t)' <=> InQueue(t)
  BY <1>1, TurnKept
<1>6. Saved'
  BY <1>1, <1>5 DEF Saved, Waits
<1>7. Boxes'
  BY <1>1, <1>3 DEF Boxes, Main, Tids
<1>8. Control' /\ Contexts'
  BY <1>1 DEF Control, Contexts
<1> QED
  BY <1>4, <1>5, <1>6, <1>7, <1>8

\* start leaves its stack pointer and registers in the dump.
LEMMA CallStep == ASSUME Inv, CallAndSaveStack PROVE Inv'
<1> USE DEF Inv, CallAndSaveStack, Running, memory, ghosts
<1>1. /\ at = "call" /\ at' \in {"trampoline", "reentry"} /\ ~panicked
      /\ current \in Tids /\ Turn' = Turn /\ Turn = current
  BY DEF Turn, Control, TypeOK
<1>2. TypeOK'
  BY <1>1 DEF TypeOK, Labels, Registers, Scratch
<1>3. Places' /\ Covered' /\ PanicOnlyOverCapacity' /\ \A t \in Tids : InQueue(t)' <=> InQueue(t)
  BY <1>1, TurnKept
<1>4. Saved'
  BY <1>1, <1>3 DEF Saved, Waits
<1>5. Control' /\ Boxes' /\ Contexts'
  BY <1>1 DEF Control, Boxes, Contexts
<1> QED
  BY <1>2, <1>3, <1>4, <1>5

\* The thread goes on with its own stack and registers, which hold for a thread
\* that ran before as for one that never did.
LEMMA ResumeStep == ASSUME Inv, Trampoline \/ Reenter PROVE Inv'
<1> USE DEF Inv, Trampoline, Reenter, Running, memory, ghosts
<1>1. /\ at \in {"trampoline", "reentry"} /\ ~panicked
      /\ current \in Tids /\ Turn = current
  BY DEF Turn, Control
<1>2. stackPtr[current] = current /\ top[current] = [of |-> current, bit |-> bit[current]]
  BY <1>1 DEF Saved, Waits
<1>3. current # Main
  BY <1>1 DEF Tids, Main
<1>4. at' = "body" /\ sp' = current /\ regs' = [of |-> current, bit |-> bit[current]]
      /\ Turn' = Turn
  BY <1>1, <1>2, <1>3 DEF Turn
<1>5. TypeOK'
  BY <1>1, <1>4 DEF TypeOK, Labels, Registers, Code
<1>6. Places' /\ Covered' /\ PanicOnlyOverCapacity' /\ \A t \in Tids : InQueue(t)' <=> InQueue(t)
  BY <1>1, <1>4, TurnKept
<1>7. Saved'
  BY <1>1, <1>4, <1>6 DEF Saved, Waits
<1>8. Control' /\ Boxes' /\ Contexts'
  BY <1>1, <1>4 DEF Control, Boxes, Contexts
<1> QED
  BY <1>5, <1>6, <1>7, <1>8

\* start goes on with what it dumped.
LEMMA ReloadStep == ASSUME Inv, Reload PROVE Inv'
<1> USE DEF Inv, Reload, Running, memory, ghosts
<1>1. /\ at = "reload" /\ at' = "loop" /\ ~panicked
      /\ sp' = Main /\ regs' = [of |-> Main, bit |-> bit[Main]]
      /\ Turn = None /\ Turn' = Turn
  BY DEF Turn, Control
<1>2. TypeOK'
  BY <1>1 DEF TypeOK, Labels, Registers, Code
<1>3. Places' /\ Covered' /\ PanicOnlyOverCapacity' /\ \A t \in Tids : InQueue(t)' <=> InQueue(t)
  BY <1>1, TurnKept
<1>4. Saved'
  BY <1>1, <1>3 DEF Saved, Waits, Tids, None
<1>5. Main \notin freed
  BY DEF TypeOK, Tids, Main
<1>6. Control' /\ Boxes' /\ Contexts'
  BY <1>1, <1>5 DEF Control, Boxes, Contexts
<1> QED
  BY <1>2, <1>3, <1>4, <1>6

\* A thread that yields waits with the stack pointer and registers it has.
LEMMA YieldStep == ASSUME ~YieldOutside, Inv, Yield PROVE Inv'
<1> USE DEF Inv, Yield, Running, ghosts
<1>1. /\ at = "body" /\ ~panicked /\ current \in Tids /\ returnPc /\ Turn = current
      /\ current # None /\ Main # current
  BY DEF Turn, Control, Tids, None, Main
<1>2. sp = current /\ regs = [of |-> current, bit |-> bit[current]]
  BY <1>1 DEF Contexts
<1>3. current < counter /\ current \notin exited /\ ~InQueue(current)
  BY <1>1 DEF Places
<1>4. CASE Len(queue) < ThreadCount
  <2>1. /\ queue' \in Seq(Tids) /\ Len(queue') = Len(queue) + 1
        /\ \A t \in Tids : InQueue(t)' <=> InQueue(t) \/ t = current
        /\ Distinct /\ ~InQueue(current) => Distinct'
    BY <1>1, <1>4, PushBack DEF TypeOK
  <2>2. at' = "reload" /\ current' = None /\ Turn' = None /\ ~panicked'
    BY <1>1, <1>4 DEF Turn
  <2>3. TypeOK'
    <3>1. current \in Code
      BY <1>1 DEF Code
    <3>2. Len(queue') <= ThreadCount
      BY <1>4, <2>1, ThreadsAssumption DEF TypeOK
    <3>3. entry' \in [Tids -> {"trampoline", "reentry"}]
      BY <1>1, <1>4 DEF TypeOK
    <3>4. stackPtr' \in [Tids -> Code] /\ top' \in [Code -> Registers]
      BY <1>1, <1>2, <1>4, <3>1 DEF TypeOK
    <3> QED
      BY <1>1, <1>4, <2>1, <2>2, <3>2, <3>3, <3>4 DEF TypeOK, Labels
  <2>4. Places' /\ Covered' /\ PanicOnlyOverCapacity'
    BY <1>1, <1>3, <2>1, <2>2 DEF Places, Covered, PanicOnlyOverCapacity
  <2>5. stackPtr' = [stackPtr EXCEPT ![current] = current]
        /\ top' = [top EXCEPT ![current] = [of |-> current, bit |-> bit[current]]]
    BY <1>1, <1>2, <1>4
  <2>6. Saved'
    BY <1>1, <2>1, <2>2, <2>5 DEF Saved, Waits, TypeOK, Code, Tids, None
  <2>7. Control' /\ Boxes' /\ Contexts'
    BY <1>1, <2>2 DEF Control, Boxes, Contexts, TypeOK, Tids, None
  <2> QED
    BY <2>3, <2>4, <2>6, <2>7
<1>5. CASE ~(Len(queue) < ThreadCount)
  <2>1. Len(queue) = ThreadCount
    BY <1>5, ThreadsAssumption DEF TypeOK
  <2>2. panicked' /\ Turn' = Turn /\ UNCHANGED <<memory, queue, current, at>>
    BY <1>1, <1>5 DEF Turn
  <2>3. TypeOK'
    BY <2>2 DEF TypeOK, memory
  <2>4. Places' /\ Covered'
    BY <2>2 DEF Places, Covered, Distinct, InQueue
  <2>5. PanicOnlyOverCapacity'
    BY <1>1, <1>3, <2>1, <2>2 DEF PanicOnlyOverCapacity, InQueue
  <2>6. Saved' /\ Control' /\ Boxes' /\ Contexts'
    BY <2>2 DEF memory, Saved, Waits, InQueue, Control, Boxes, Contexts
  <2> QED
    BY <2>3, <2>4, <2>5, <2>6
<1> QED
  BY <1>4, <1>5

\* A thread that exits stays current, and keeps its box, for it is still on its stack.
LEMMA ExitStep == ASSUME Inv, Exit PROVE Inv'
<1> USE DEF Inv, Exit, Running, memory
<1>1. /\ at = "body" /\ at' = "reload" /\ ~panicked /\ current \in Tids /\ Turn = current
      /\ Turn' = None /\ current # None /\ regs.of = current
  BY DEF Turn, Control, Contexts, Tids, None
<1>2. current < counter /\ current \notin exited /\ ~InQueue(current)
  BY <1>1 DEF Places
<1>3. TypeOK'
  BY <1>1 DEF TypeOK, Labels
<1>4. \A t \in Tids : InQueue(t)' <=> InQueue(t)
  BY DEF InQueue
<1>5. Distinct' <=> Distinct
  BY DEF Distinct
<1>6. Places' /\ Covered' /\ PanicOnlyOverCapacity'
  BY <1>1, <1>2, <1>4, <1>5 DEF Places, Covered, PanicOnlyOverCapacity
<1>7. Saved'
  BY <1>1, <1>4 DEF Saved, Waits, Tids, None
<1>8. Control' /\ Boxes' /\ Contexts'
  BY <1>1 DEF Control, Boxes, Contexts
<1> QED
  BY <1>3, <1>6, <1>7, <1>8

-----------------------------------------------------------------------------
\* The invariant is inductive.
LEMMA Inductive == ASSUME ~YieldOutside PROVE Spec => []Inv
<1>1. ASSUME Inv, [Next]_vars
      PROVE  Inv'
  <2>1. CASE UNCHANGED vars
    BY <1>1, <2>1 DEF vars, memory, cpu, ghosts, Inv, TypeOK, Places, Covered, Distinct,
       InQueue, Turn, Control, Saved, Waits, Boxes, Contexts, PanicOnlyOverCapacity
  <2> QED
    BY <1>1, <2>1, WorkStep, ForkStep, StartStep, PopStep, SetCurrentStep, CallStep, ReloadStep,
       ResumeStep, YieldStep, ExitStep DEF Next
<1> QED
  BY <1>1, InitInv, PTL DEF Spec

\* A program that yields only from threads finds, on every resumption, the stack and
\* the registers it left, whatever the capacity and the number of threads.
THEOREM ContextsKept == ASSUME ~YieldOutside PROVE Spec => []Contexts
<1>1. Inv => Contexts
  BY DEF Inv
<1> QED
  BY <1>1, Inductive, PTL

\* No stack is used after its box was dropped.
THEOREM BoxesOutlive == ASSUME ~YieldOutside PROVE Spec => []NoUseAfterFree
<1>1. ASSUME Inv
      PROVE  NoUseAfterFree
  <2>1. \A t \in freed : ~InQueue(t)
    BY <1>1 DEF Inv, Places, Boxes, TypeOK
  <2>2. Turn \notin freed
    <3>1. None \notin Tids
      BY DEF Tids, None
    <3> QED
      BY <1>1, <3>1 DEF Inv, Places, Boxes, TypeOK
  <2> QED
    BY <1>1, <2>1, <2>2 DEF Inv, Boxes, NoUseAfterFree
<1> QED
  BY <1>1, Inductive, PTL

\* The only panic is over capacity.
THEOREM PanicsOverCapacity == ASSUME ~YieldOutside PROVE Spec => []PanicOnlyOverCapacity
<1>1. Inv => PanicOnlyOverCapacity
  BY DEF Inv
<1> QED
  BY <1>1, Inductive, PTL

\* start returns only when every thread has exited.
THEOREM StartWaitsForAll == ASSUME ~YieldOutside PROVE Spec => StartRunsAll
<1>1. ASSUME Inv, StartReturns, NEW t \in Tids, t < counter
      PROVE  t \in exited
  <2>1. ~InQueue(t)
    BY <1>1 DEF StartReturns, InQueue
  <2>2. Turn # t /\ ~panicked
    BY <1>1 DEF StartReturns, Running, Turn, Tids, None
  <2> QED
    BY <1>1, <2>1, <2>2 DEF Inv, Covered
<1>2. Inv /\ [Next]_vars => [StartReturns => \A t \in Tids : t < counter => t \in exited]_vars
  BY <1>1
<1> QED
  BY <1>2, Inductive, PTL DEF Spec, StartRunsAll

-----------------------------------------------------------------------------
(* Round-robin coroutines: a fork spawns, a pop dispatches, a yield and an *)
(* exit are those of the coroutine, everything else is a stutter.          *)

\* A step of the library is one of the coroutines' or none.
LEMMA RefinementStep ==
  ASSUME ~YieldOutside, Inv, [Next]_vars
  PROVE  [Abstract!Next]_(Abstract!vars)
<1> USE DEF Abstract!Next, Abstract!vars, Running
<1>1. CASE Fork
  <2>1. Turn' = Turn /\ exited' = exited /\ counter \in Tids
    <3>1. counter \in Tids
      BY <1>1, ThreadsAssumption DEF Fork, Inv, TypeOK, Tids
    <3> QED
      BY <1>1, <3>1 DEF Fork, cpu, ghosts, Turn
  <2>2. ~InQueue(counter) /\ Turn # counter /\ counter \notin exited
    <3>1. ~(counter < counter) /\ counter # None
      BY <2>1 DEF Tids, None
    <3> QED
      BY <2>1, <3>1 DEF Inv, Places
  <2>3. CASE queue' = Append(queue, counter)
    BY <2>1, <2>2, <2>3 DEF Abstract!Spawn, Abstract!InQueue, InQueue
  <2>4. CASE queue' = queue
    BY <2>1, <2>4
  <2> QED
    BY <1>1, <2>3, <2>4 DEF Fork
<1>2. CASE Pop
  <2>1. Turn = None /\ Turn' = Head(queue) /\ queue # <<>> /\ queue' = Tail(queue) /\ exited' = exited
    BY <1>2 DEF Pop, Turn, ghosts
  <2> QED
    BY <2>1 DEF Abstract!Dispatch
<1>3. CASE Yield
  <2>1. Turn = current /\ Turn # None /\ exited' = exited
    BY <1>3 DEF Yield, Turn, Inv, Control, Tids, None, ghosts
  <2>2. CASE queue' = Append(queue, current) /\ at' = "reload"
    BY <2>1, <2>2 DEF Abstract!Yield, Turn
  <2>3. CASE UNCHANGED <<queue, current, at>>
    BY <1>3, <2>1, <2>3 DEF Yield, Turn
  <2> QED
    BY <1>3, <2>2, <2>3 DEF Yield
<1>4. CASE Exit
  <2>1. Turn = current /\ Turn # None /\ Turn' = None /\ queue' = queue
        /\ exited' = exited \cup {current}
    BY <1>4 DEF Exit, Turn, Inv, Control, Contexts, Tids, None
  <2> QED
    BY <2>1 DEF Abstract!Exit
<1>5. CASE Trampoline \/ Reenter
  <2>1. at' = "body" /\ Turn' = Turn
    <3>1. current \in Tids /\ Turn = current /\ at \in {"trampoline", "reentry"}
      BY <1>5 DEF Trampoline, Reenter, Turn, Inv, Control
    <3>2. stackPtr[current] = current /\ top[current].of = current /\ current # Main
      <4>1. Waits(current) /\ current # Main
        BY <3>1 DEF Waits, Tids, Main
      <4>2. stackPtr[current] = current /\ top[current] = [of |-> current, bit |-> bit[current]]
        BY <3>1, <4>1 DEF Inv, Saved
      <4> QED
        BY <4>1, <4>2
    <3> QED
      BY <1>5, <3>1, <3>2 DEF Trampoline, Reenter, Turn
  <2> QED
    BY <1>5, <2>1 DEF Trampoline, Reenter, ghosts
<1>6. CASE CallAndSaveStack
  BY <1>6 DEF CallAndSaveStack, Turn, Inv, TypeOK, Control, ghosts
<1>7. CASE Work \/ Start \/ StartReturns \/ SetCurrent \/ Reload
  BY <1>7 DEF Work, Start, StartReturns, SetCurrent, Reload, Turn, ghosts
<1>8. CASE UNCHANGED vars
  BY <1>8 DEF vars, cpu, ghosts, Turn
<1> QED
  BY <1>1, <1>2, <1>3, <1>4, <1>5, <1>6, <1>7, <1>8 DEF Next

\* The library implements round-robin coroutines.
THEOREM Refinement == ASSUME ~YieldOutside PROVE Spec => Refines
<1>1. Init => Abstract!Init
  BY DEF Init, Abstract!Init, Turn
<1>2. Inv /\ [Next]_vars => [Abstract!Next]_(Abstract!vars)
  BY RefinementStep
<1> QED
  BY <1>1, <1>2, Inductive, PTL DEF Spec, Refines, Abstract!Spec

=============================================================================
