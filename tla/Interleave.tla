----------------------------- MODULE Interleave -----------------------------
(***************************************************************************)
(* Single-stepping two functions through every chosen interleaving         *)
(* (lib/src/debug.rs).  With the breakpoint in mismatch mode, fetching     *)
(* from any address but the breakpoint's aborts; the abort handler saves   *)
(* the registers, asks the scheduler which thread goes on, puts the        *)
(* breakpoint on that thread's next instruction and returns into it, so    *)
(* one instruction runs per abort.                                         *)
(*                                                                         *)
(* umain runs the threads once to learn how many aborts thread 0 takes,    *)
(* and then once per A_STOP, the number of aborts of thread 0 after which  *)
(* the scheduler turns to thread 1.  Everything here is in user mode, where *)
(* interrupts are off, so an instruction and a handler are steps.          *)
(***************************************************************************)
EXTENDS Integers, Sequences, FiniteSets

CONSTANT
  Code  \* the instructions of "A" (thread_a) and "B" (thread_b)

Operations == {"load", "double", "increment", "store", "other", "return"}

\* Straight-line code that ends with its only return.
ASSUME CodeAssumption ==
  /\ Code \in [{"A", "B"} -> Seq(Operations)]
  /\ \A f \in {"A", "B"} :
       /\ Code[f] # <<>>
       /\ \A k \in 1 .. Len(Code[f]) : Code[f][k] = "return" <=> k = Len(Code[f])

Ids == {0, 1}
Main == 2

VARIABLES
  cpu,      \* the processor's registers: pc, sp (whose stack), r (one of r0-r12)
  bp,       \* breakpoint 0: mismatch mode on or off, and its address
  present,  \* the keys of THREADS
  thread,   \* per id: function, saved registers, current_count, finished
  done,     \* FINISHED_THREADS, as ids
  scheduler, \* SCHEDULER: umain's closure, or one that decides anything
  running,  \* RUNNING_INTERLEAVING: the current id and main's registers, or None
  shared,   \* SHARED_STATE
  aStop,    \* A_STOP
  aEnd,     \* umain's a_end
  iter,     \* umain's a_stop, -1 during the first run
  executed, \* history: instructions each thread has executed in this run
  trace,    \* history: the ids that executed them, in order
  reg,      \* history: what r should hold for each thread, and for main
  explored  \* history: where the search has let thread_b run: after so many
            \* instructions of thread_a

search == <<aStop, aEnd, iter, explored>>
ghosts == <<executed, trace, reg>>
vars == <<cpu, bp, present, thread, done, scheduler, running, shared, search, ghosts>>

\* Addresses.
Zero == <<"zero", 0>>
Enable == <<"main", 1>>     \* syscall_enable_breakpoint_mismatch
Prepare == <<"main", 2>>    \* run_interleaving, before the call of
Trigger == <<"main", 3>>    \* trigger_interleaving
Collect == <<"main", 4>>    \* what umain does with the finished threads
End == <<"main", 5>>
Finished == <<"finished", 0>>   \* thread_finished, every thread's lr
Entry(f) == <<f, 1>>

None == [id |-> Main, regs |-> [pc |-> Zero, sp |-> Main, r |-> 0]]
NewThread(i, f) ==
  [fn |-> f, regs |-> [pc |-> Entry(f), sp |-> i, r |-> 0], count |-> 0, finished |-> FALSE]

\* Thread::reset keeps the registers ("could reset registers, but meh").
ResetThread(t, i, f) ==
  [fn |-> f, regs |-> [pc |-> Entry(f), sp |-> i, r |-> t.regs.r], count |-> 0,
   finished |-> FALSE]

First(S) == CHOOSE i \in S : \A j \in S : i <= j

Init ==
  /\ cpu = [pc |-> Enable, sp |-> Main, r |-> 0]
  /\ bp = [on |-> TRUE, addr |-> Zero]
  /\ present = Ids
  /\ thread = [i \in Ids |-> NewThread(i, IF i = 0 THEN "A" ELSE "B")]
  /\ done = <<>>
  /\ scheduler \in {"search", "any"}
  /\ running = None
  /\ shared = 0
  /\ aStop = 0 /\ aEnd = 0 /\ iter = -1 /\ explored = {}
  /\ executed = [i \in Ids |-> 0]
  /\ trace = <<>>
  /\ reg = [i \in Ids \cup {Main} |-> 0]

-----------------------------------------------------------------------------
(* Instructions.                                                           *)

Aborts == bp.on /\ cpu.pc # bp.addr

At(addr) == cpu.pc = addr /\ ~Aborts

\* Effects of the instructions of thread_a and thread_b on r and SHARED_STATE.
NewR(op) == CASE op = "load" -> shared
              [] op = "double" -> 2 * cpu.r
              [] op = "increment" -> cpu.r + 1
              [] OTHER -> cpu.r

ThreadInstruction ==
  /\ cpu.pc[1] \in {"A", "B"}
  /\ ~Aborts
  /\ LET f == cpu.pc[1]
         op == Code[f][cpu.pc[2]]
         i == cpu.sp
     IN /\ cpu' = [cpu EXCEPT !.r = NewR(op),
                              !.pc = IF op = "return" THEN Finished ELSE <<f, @[2] + 1>>]
        /\ shared' = IF op = "store" THEN cpu.r ELSE shared
        /\ executed' = [executed EXCEPT ![i] = @ + 1]
        /\ trace' = Append(trace, i)
        /\ reg' = [reg EXCEPT ![i] = NewR(op)]
  /\ UNCHANGED <<scheduler, bp, present, thread, done, running, search>>

\* swi 3: mismatch mode with address 0, so the next instruction aborts.
MainEnables ==
  /\ At(Enable)
  /\ bp' = [on |-> TRUE, addr |-> Zero]
  /\ cpu' = [cpu EXCEPT !.pc = Prepare]
  /\ executed' = [i \in Ids |-> 0]
  /\ trace' = <<>>
  /\ UNCHANGED <<scheduler, present, thread, done, running, shared, search, reg>>

\* Main stores the scheduler, using its registers, under the single-stepper.
MainPrepares ==
  /\ At(Prepare)
  /\ cpu' = [cpu EXCEPT !.pc = Trigger, !.r = 1 - @]
  /\ reg' = [reg EXCEPT ![Main] = 1 - cpu.r]
  /\ UNCHANGED <<scheduler, bp, present, thread, done, running, shared, search, executed, trace>>

\* trigger_interleaving itself runs when main gets its registers back.
MainReturns ==
  /\ At(Trigger)
  /\ cpu' = [cpu EXCEPT !.pc = Collect]
  /\ UNCHANGED <<scheduler, bp, present, thread, done, running, shared, search, ghosts>>

\* The instructions of thread 0 at the head of the last run's trace.
SwitchedAfter == Cardinality({k \in DOMAIN trace : \A j \in 1 .. k : trace[j] = 0})

\* Mutant: the pops the other way round.
MainCollectsSwapped ==
  /\ At(Collect)
  /\ LET a == done[Len(done) - 1]
         b == done[Len(done)]
     IN /\ thread' = [thread EXCEPT ![a] = ResetThread(thread[a], a, "A"),
                                    ![b] = ResetThread(thread[b], b, "B")]
        /\ present' = present \cup {a, b}
        /\ done' = SubSeq(done, 1, Len(done) - 2)
        /\ aEnd' = IF iter = -1 THEN thread[a].count ELSE aEnd
  /\ shared' = 0
  /\ aStop' = IF iter = -1 THEN aStop ELSE iter
  /\ explored' = IF scheduler = "search" THEN explored \cup {SwitchedAfter} ELSE {}
  /\ iter' = iter + 1
  /\ cpu' = [cpu EXCEPT !.pc = IF iter + 1 < aEnd' THEN Enable ELSE End]
  /\ UNCHANGED <<scheduler, bp, running, ghosts>>

\* umain takes the last finished thread for A and the one before for B, resets
\* and respawns them; A_STOP is set from the loop variable after each run.
MainCollects ==
  /\ At(Collect)
  /\ LET a == done[Len(done)]
         b == done[Len(done) - 1]
     IN /\ thread' = [thread EXCEPT ![a] = ResetThread(thread[a], a, "A"),
                                    ![b] = ResetThread(thread[b], b, "B")]
        /\ present' = present \cup {a, b}
        /\ done' = SubSeq(done, 1, Len(done) - 2)
        /\ aEnd' = IF iter = -1 THEN thread[a].count ELSE aEnd
  /\ shared' = 0
  /\ aStop' = IF iter = -1 THEN aStop ELSE iter
  /\ explored' = IF scheduler = "search" THEN explored \cup {SwitchedAfter} ELSE {}
  /\ iter' = iter + 1
  /\ cpu' = [cpu EXCEPT !.pc = IF iter + 1 < aEnd' THEN Enable ELSE End]
  /\ UNCHANGED <<scheduler, bp, running, ghosts>>

-----------------------------------------------------------------------------
(* prefetch_abort_vector.                                                  *)

Interleaving == running # None

\* Mutant: the handler returns without moving the breakpoint.
AbortMainInPlace ==
  /\ Aborts
  /\ ~Interleaving
  /\ cpu.pc # Trigger
  /\ UNCHANGED vars

\* Before the threads run, main is stepped over its own instruction.
AbortMain ==
  /\ Aborts
  /\ ~Interleaving
  /\ cpu.pc # Trigger
  /\ bp' = [bp EXCEPT !.addr = cpu.pc]
  /\ UNCHANGED <<scheduler, cpu, present, thread, done, running, shared, search, ghosts>>

\* At trigger_interleaving main's registers are stashed and the first thread's
\* loaded; the breakpoint stays where it was.
AbortTrigger ==
  /\ Aborts
  /\ ~Interleaving
  /\ cpu.pc = Trigger
  /\ running' = [id |-> First(present), regs |-> cpu]
  /\ cpu' = thread[First(present)].regs
  /\ reg' = [i \in DOMAIN reg |-> IF i = Main THEN reg[i] ELSE thread[i].regs.r]
  /\ UNCHANGED <<scheduler, bp, present, thread, done, shared, search, executed, trace>>

\* Mutant: the handler does not save the registers of the current thread.
SavedCountOnly == [thread EXCEPT ![running.id].count = @ + 1]

\* The current thread as the handler saves it.
Saved == [thread EXCEPT ![running.id].regs = cpu, ![running.id].count = @ + 1]

\* Mutant: one abort too many before the switch.
ChoicesLate(current, alive, threads) ==
  IF scheduler = "any" THEN alive
  ELSE IF current # 0 THEN {current}
  ELSE IF threads[0].count > aStop /\ 1 \in alive THEN {1} ELSE {0}

\* umain's scheduler: thread 0 up to A_STOP aborts, then thread 1 while it lives.
Choices(current, alive, threads) ==
  IF scheduler = "any" THEN alive
  ELSE IF current # 0 THEN {current}
  ELSE IF threads[0].count >= aStop /\ 1 \in alive THEN {1} ELSE {0}

\* Go on with thread i, of those in threads, until its next instruction is done.
Resume(i, threads) ==
  /\ running' = [running EXCEPT !.id = i]
  /\ bp' = [bp EXCEPT !.addr = threads[i].regs.pc]
  /\ cpu' = threads[i].regs

AbortThread ==
  /\ Aborts
  /\ Interleaving
  /\ cpu.pc # Finished
  /\ thread' = Saved
  /\ \E i \in Choices(running.id, present, Saved) : Resume(i, Saved)
  /\ UNCHANGED <<scheduler, present, done, shared, search, ghosts>>

\* The current thread goes from THREADS to FINISHED_THREADS.
Leave ==
  /\ thread' = [Saved EXCEPT ![running.id].finished = TRUE]
  /\ present' = present \ {running.id}
  /\ done' = Append(done, running.id)

\* Mutant: main goes on with the finished thread's registers.
BackToMainDirty ==
  /\ bp' = [bp EXCEPT !.on = FALSE]
  /\ cpu' = [cpu EXCEPT !.pc = running.regs.pc, !.sp = Main]
  /\ running' = None

BackToMain ==
  /\ bp' = [bp EXCEPT !.on = FALSE]
  /\ cpu' = running.regs
  /\ running' = None

\* Mutant: stepping is disabled when the first thread finishes.
AbortFinishedDisables ==
  /\ Aborts
  /\ Interleaving
  /\ cpu.pc = Finished
  /\ Leave
  /\ IF present' = {} THEN BackToMain
     ELSE \E i \in present' : /\ bp' = [bp EXCEPT !.on = FALSE]
                              /\ cpu' = Saved[i].regs
                              /\ running' = [running EXCEPT !.id = i]
  /\ UNCHANGED <<scheduler, shared, search, ghosts>>

\* A thread that reached thread_finished leaves; the last one gives main back its
\* registers with the breakpoint off.
AbortFinished ==
  /\ Aborts
  /\ Interleaving
  /\ cpu.pc = Finished
  /\ Leave
  /\ IF present' = {} THEN BackToMain
     ELSE \E i \in Choices(First(present'), present', Saved) : Resume(i, Saved)
  /\ UNCHANGED <<scheduler, shared, search, ghosts>>

Next ==
  \/ ThreadInstruction
  \/ MainEnables
  \/ MainPrepares
  \/ MainReturns
  \/ MainCollects
  \/ AbortMain
  \/ AbortTrigger
  \/ AbortThread
  \/ AbortFinished

Spec == Init /\ [][Next]_vars

\* The processor keeps executing.
FairSpec == Spec /\ WF_vars(Next)

-----------------------------------------------------------------------------
(* Properties.                                                             *)

\* The registers a thread will go on with: the processor's if it is the running
\* one, the saved ones otherwise.
Live(i) == IF running.id = i THEN cpu ELSE thread[i].regs

Position(i) ==
  LET f == thread[i].fn
  IN IF executed[i] < Len(Code[f]) THEN <<f, executed[i] + 1>> ELSE Finished

\* However the scheduler switches, a thread finds its own program counter, stack
\* and registers as it left them: no instruction of a thread is skipped, run
\* twice or run on the other thread's registers (prefetch_abort_vector's saving
\* and returning of Registers).
Isolation ==
  Interleaving =>
    \A i \in present : Live(i) = [pc |-> Position(i), sp |-> i, r |-> reg[i]]

\* From trigger_interleaving until the last thread finishes main's registers are
\* stashed unchanged, then they are the processor's again, and when main goes on
\* with the finished threads stepping is off and both have left THREADS.
MainRestored ==
  /\ Interleaving => running.regs = [pc |-> Trigger, sp |-> Main, r |-> reg[Main]]
  /\ ~Interleaving => cpu.sp = Main /\ cpu.r = reg[Main]
  /\ cpu.pc = Collect => ~bp.on /\ Len(done) = 2 /\ \A i \in Ids : thread[i].finished

\* No two instructions of the threads run without an abort between them, so the
\* scheduler decides about each one (the breakpoint is moved on every abort and
\* disabled only when the last thread is done).
OneStep == [][ThreadInstruction => Aborts']_vars

\* A run of the search with A_STOP = s executes s - 1 instructions of thread_a
\* (none for 0), all of thread_b, and then the rest of thread_a.
SwitchPoint ==
  cpu.pc = Collect /\ scheduler = "search" =>
    LET s == IF aStop = 0 THEN 0 ELSE aStop - 1
        a == Len(Code["A"])
        b == Len(Code["B"])
    IN trace = [k \in 1 .. a + b |-> IF k <= s \/ k > s + b THEN 0 ELSE 1]

\* Every run that is triggered gives control back to umain, whatever the
\* scheduler decides (the single-stepper never aborts on one instruction forever).
Completes == cpu.pc = Enable ~> cpu.pc = Collect

\* What the search of umain covers: thread_b runs once after each number of
\* instructions of thread_a, except before its last instruction or after it.  A_STOP
\* is stored after the run it is for (debug.rs 360), so 0 is run three times and the
\* last value never.
Explores ==
  cpu.pc = End /\ scheduler = "search" => explored = 0 .. Len(Code["A"]) - 2

=============================================================================
