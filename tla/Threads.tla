------------------------------- MODULE Threads -------------------------------
(***************************************************************************)
(* The cooperative threads of lib/src/thread.rs: fork, start, thread_yield *)
(* and thread_exit, with the assembly that moves sp, the callee-saved      *)
(* registers and the pc between start's frame and the threads' stacks.     *)
(*                                                                         *)
(* There is one processor, so the state has one `at` (the code it is in),  *)
(* one sp and one set of callee-saved registers.  Registers are abstracted *)
(* to whose code they belong to and one bit that code keeps flipping.      *)
(* Each critical_section::with is one step of this module: see             *)
(* CriticalSection for why.                                                *)
(***************************************************************************)
EXTENDS Integers, Sequences

CONSTANTS
  ThreadCount,  \* THREAD_COUNT: capacity of the run queue
  MaxForks,     \* bound: calls of fork in one behaviour
  YieldOutside  \* whether the program calls thread_yield outside threads too

ASSUME ThreadsAssumption ==
  /\ ThreadCount \in Nat \ {0}
  /\ MaxForks \in Nat
  /\ YieldOutside \in BOOLEAN

Tids == 0 .. MaxForks - 1
Main == -1      \* the code that calls start, and its stack
None == -2
Code == Tids \cup {Main}

VARIABLES
  queue,     \* ThreadState.queue
  current,   \* ThreadState.current_thread
  counter,   \* ThreadState.counter: the next thread's id
  returnPc,  \* ThreadState.return_pc is Some
  dump,      \* ThreadState.return_register_dump
  entry,     \* per thread: program_counter, trampoline or reentry
  stackPtr,  \* per thread: the stack its stack_pointer points into
  top,       \* per stack: the registers last pushed on it
  at,        \* the code the processor executes
  sp,        \* the stack it is on
  regs,      \* its callee-saved registers
  next,      \* start's local: the thread it popped
  exited,    \* history: threads that called thread_exit or returned
  bit,       \* history: the bit each code flipped last
  freed,     \* threads whose box, and stack, were dropped
  panicked

memory == <<entry, stackPtr, top>>
cpu == <<at, sp, regs>>
ghosts == <<exited, bit, freed>>
vars == <<queue, current, counter, returnPc, dump, memory, cpu, next, ghosts, panicked>>

Registers == [of : Code \cup {None}, bit : {0, 1}]
Scratch == [of |-> None, bit |-> 0]
NoDump == [sp |-> None, regs |-> Scratch]

Labels == {"main", "loop", "popped", "call", "trampoline", "reentry", "body", "reload"}

TypeOK ==
  /\ queue \in Seq(Tids)
  /\ Len(queue) <= ThreadCount
  /\ current \in Tids \cup {None}
  /\ counter \in 0 .. MaxForks
  /\ returnPc \in BOOLEAN
  /\ dump \in [sp : Code \cup {None}, regs : Registers]
  /\ entry \in [Tids -> {"trampoline", "reentry"}]
  /\ stackPtr \in [Tids -> Code]
  /\ top \in [Code -> Registers]
  /\ at \in Labels
  /\ sp \in Code
  /\ regs \in Registers
  /\ next \in Tids \cup {None}
  /\ exited \in SUBSET Tids
  /\ bit \in [Code -> {0, 1}]
  /\ freed \in SUBSET Tids
  /\ panicked \in BOOLEAN

Init ==
  /\ queue = <<>>
  /\ current = None
  /\ counter = 0
  /\ returnPc = FALSE
  /\ dump = NoDump
  /\ entry = [t \in Tids |-> "trampoline"]
  /\ stackPtr = [t \in Tids |-> t]
  /\ top = [c \in Code |-> Scratch]
  /\ at = "main"
  /\ sp = Main
  /\ regs = [of |-> Main, bit |-> 0]
  /\ next = None
  /\ exited = {}
  /\ bit = [c \in Code |-> 0]
  /\ freed = {}
  /\ panicked = FALSE

-----------------------------------------------------------------------------
(* Code that calls the library.                                            *)

Running(label) == ~panicked /\ at = label

\* The caller, or a thread, computes with its registers.
Work ==
  /\ Running("main") \/ Running("body")
  /\ regs.of # None
  /\ regs' = [regs EXCEPT !.bit = 1 - @]
  /\ bit' = [bit EXCEPT ![regs.of] = 1 - @]
  /\ UNCHANGED <<queue, current, counter, returnPc, dump, memory, at, sp, next,
                 exited, freed, panicked>>

\* Mutant: the queue is declared one place short.
ForkShort ==
  /\ Running("main") \/ Running("body")
  /\ counter < MaxForks
  /\ counter' = counter + 1
  /\ IF Len(queue) < ThreadCount - 1
     THEN /\ queue' = Append(queue, counter)
          /\ top' = [top EXCEPT ![counter] = [of |-> counter, bit |-> 0]]
          /\ UNCHANGED panicked
     ELSE /\ panicked' = TRUE
          /\ UNCHANGED <<queue, top>>
  /\ UNCHANGED <<current, returnPc, dump, entry, stackPtr, cpu, next, ghosts>>

\* fork: the new thread's stack holds its code and argument, its entry is the
\* trampoline; an eleventh queued thread panics ("too many threads").
Fork ==
  /\ Running("main") \/ Running("body")
  /\ counter < MaxForks
  /\ counter' = counter + 1
  /\ IF Len(queue) < ThreadCount
     THEN /\ queue' = Append(queue, counter)
          /\ entry' = [entry EXCEPT ![counter] = "trampoline"]
          /\ stackPtr' = [stackPtr EXCEPT ![counter] = counter]
          /\ top' = [top EXCEPT ![counter] = [of |-> counter, bit |-> 0]]
          /\ UNCHANGED panicked
     ELSE /\ panicked' = TRUE
          /\ UNCHANGED <<queue, memory>>
  /\ UNCHANGED <<current, returnPc, dump, cpu, next, ghosts>>

-----------------------------------------------------------------------------
(* start.                                                                  *)

\* A fresh, zeroed register dump; then the loop.
Start ==
  /\ Running("main")
  /\ dump' = [sp |-> None, regs |-> Scratch]
  /\ at' = "loop"
  /\ UNCHANGED <<queue, current, counter, returnPc, memory, sp, regs, next, ghosts, panicked>>

Pop ==
  /\ Running("loop")
  /\ queue # <<>>
  /\ next' = Head(queue)
  /\ queue' = Tail(queue)
  /\ at' = "popped"
  /\ UNCHANGED <<current, counter, returnPc, dump, memory, sp, regs, ghosts, panicked>>

\* No more threads to run: start returns, current_thread stays as it is.
StartReturns ==
  /\ Running("loop")
  /\ queue = <<>>
  /\ at' = "main"
  /\ UNCHANGED <<queue, current, counter, returnPc, dump, memory, sp, regs, next, ghosts, panicked>>

\* Storing the new current thread drops the box of an exited one.
SetCurrent ==
  /\ Running("popped")
  /\ current' = next
  /\ freed' = IF current = None THEN freed ELSE freed \cup {current}
  /\ at' = "call"
  /\ UNCHANGED <<queue, counter, returnPc, dump, memory, sp, regs, next, exited, bit, panicked>>

\* call_and_save_stack: dump r4-r12, sp and lr, remember where to reenter, and
\* branch to the thread's program counter with r4 and r5 overwritten.
CallAndSaveStack ==
  /\ Running("call")
  /\ dump' = [sp |-> sp, regs |-> regs]
  /\ returnPc' = TRUE
  /\ at' = entry[next]
  /\ regs' = Scratch
  /\ next' = None
  /\ UNCHANGED <<queue, current, counter, memory, sp, ghosts, panicked>>

\* The code after the branch: reload the dumped registers and return to start.
Reload ==
  /\ Running("reload")
  /\ sp' = dump.sp
  /\ regs' = dump.regs
  /\ at' = "loop"
  /\ UNCHANGED <<queue, current, counter, returnPc, dump, memory, next, ghosts, panicked>>

-----------------------------------------------------------------------------
(* Threads.                                                                *)

\* thread_trampoline: onto the thread's stack, pop its code and argument.
Trampoline ==
  /\ Running("trampoline")
  /\ sp' = stackPtr[current]
  /\ regs' = top[stackPtr[current]]
  /\ at' = "body"
  /\ UNCHANGED <<queue, current, counter, returnPc, dump, memory, next, ghosts, panicked>>

\* The end of yield_save_context: back on the saved stack, to the caller.
Reenter ==
  /\ Running("reentry")
  /\ sp' = stackPtr[current]
  /\ regs' = top[stackPtr[current]]
  /\ at' = IF top[stackPtr[current]].of = Main THEN "main" ELSE "body"
  /\ UNCHANGED <<queue, current, counter, returnPc, dump, memory, next, ghosts, panicked>>

\* Mutant: the stack pointer is saved before the registers are pushed.
YieldEarlySp ==
  /\ Running("body")
  /\ IF returnPc /\ current # None /\ Len(queue) < ThreadCount
     THEN /\ entry' = [entry EXCEPT ![current] = "reentry"]
          /\ queue' = Append(queue, current)
          /\ current' = None
          /\ at' = "reload"
          /\ UNCHANGED panicked
     ELSE /\ panicked' = TRUE
          /\ UNCHANGED <<entry, queue, current, at>>
  /\ UNCHANGED <<counter, returnPc, dump, stackPtr, top, sp, regs, next, ghosts>>

\* Mutant: push_front for push_back.
YieldFront ==
  /\ Running("body")
  /\ IF returnPc /\ current # None /\ Len(queue) < ThreadCount
     THEN /\ top' = [top EXCEPT ![sp] = regs]
          /\ entry' = [entry EXCEPT ![current] = "reentry"]
          /\ queue' = <<current>> \o queue
          /\ current' = None
          /\ at' = "reload"
          /\ UNCHANGED panicked
     ELSE /\ panicked' = TRUE
          /\ UNCHANGED <<top, entry, queue, current, at>>
  /\ UNCHANGED <<counter, returnPc, dump, stackPtr, sp, regs, next, ghosts>>

\* Mutant: a thread that finds the queue full is dropped.
YieldDrops ==
  /\ Running("body")
  /\ returnPc /\ current # None
  /\ top' = [top EXCEPT ![sp] = regs]
  /\ entry' = [entry EXCEPT ![current] = "reentry"]
  /\ queue' = IF Len(queue) < ThreadCount THEN Append(queue, current) ELSE queue
  /\ current' = None
  /\ at' = "reload"
  /\ UNCHANGED <<counter, returnPc, dump, stackPtr, sp, regs, next, ghosts, panicked>>

\* thread_yield: push the registers, move current_thread to the queue with the
\* new sp and pc, and jump to start's reentry point.  Each expect may panic:
\* no return pc, not in a thread, too many threads.
Yield ==
  /\ Running("body") \/ (YieldOutside /\ Running("main"))
  /\ IF returnPc /\ current # None /\ Len(queue) < ThreadCount
     THEN /\ top' = [top EXCEPT ![sp] = regs]
          /\ stackPtr' = [stackPtr EXCEPT ![current] = sp]
          /\ entry' = [entry EXCEPT ![current] = "reentry"]
          /\ queue' = Append(queue, current)
          /\ current' = None
          /\ at' = "reload"
          /\ UNCHANGED panicked
     ELSE /\ panicked' = TRUE
          /\ UNCHANGED <<memory, queue, current, at>>
  /\ UNCHANGED <<counter, returnPc, dump, sp, regs, next, ghosts>>

\* Mutant: thread_exit takes, and drops, current_thread while on its stack.
ExitDrops ==
  /\ Running("body")
  /\ exited' = exited \cup {regs.of}
  /\ current' = None
  /\ freed' = freed \cup {current}
  /\ at' = "reload"
  /\ UNCHANGED <<queue, counter, returnPc, dump, memory, sp, regs, next, bit, panicked>>

\* thread_exit, called by the thread or by the trampoline when its code returns:
\* the processor stays on the thread's stack until the reload.
Exit ==
  /\ Running("body")
  /\ exited' = exited \cup {regs.of}
  /\ at' = "reload"
  /\ UNCHANGED <<queue, current, counter, returnPc, dump, memory, sp, regs, next, bit,
                 freed, panicked>>

Next ==
  \/ Work
  \/ Fork
  \/ Start
  \/ Pop
  \/ StartReturns
  \/ SetCurrent
  \/ CallAndSaveStack
  \/ Reload
  \/ Trampoline
  \/ Reenter
  \/ Yield
  \/ Exit

Spec == Init /\ [][Next]_vars

(***************************************************************************)
(* Fairness: the library's own code keeps executing, and a thread, being   *)
(* cooperative, eventually yields or exits.  The program need not call     *)
(* start again, and nobody need fork.                                      *)
(***************************************************************************)
Library == Pop \/ StartReturns \/ SetCurrent \/ CallAndSaveStack \/ Reload \/ Trampoline \/ Reenter

Fairness ==
  /\ WF_vars(Library)
  /\ WF_vars(Yield \/ Exit)

FairSpec == Spec /\ Fairness

-----------------------------------------------------------------------------
(* Properties.                                                             *)

InQueue(t) == \E k \in 1 .. Len(queue) : queue[k] = t

\* The thread whose turn it is, from the pop to its yield or exit.
Turn ==
  CASE at = "popped" -> next
    [] at \in {"call", "trampoline", "reentry", "body"} -> current
    [] OTHER -> None

\* No thread is lost, duplicated or resurrected: each one ever forked waits in
\* the queue (once), has its turn, or has exited, and exactly one of the three.
OnePlace ==
  ~panicked =>
    /\ \A j, k \in 1 .. Len(queue) : queue[j] = queue[k] => j = k
    /\ Turn # None => Turn < counter /\ Turn \notin exited /\ ~InQueue(Turn)
    /\ \A t \in Tids :
         /\ InQueue(t) => t < counter /\ t \notin exited
         /\ t \in exited => t < counter
         /\ t < counter => InQueue(t) \/ Turn = t \/ t \in exited

\* Every resumption of a thread finds it on its own stack with the registers it
\* had when it yielded, whatever ran in between; and start, and the code that
\* called it, get theirs back (the registers yield_save_context pushes, and the
\* dump of call_and_save_stack).
Contexts ==
  /\ at = "body" => sp = current /\ regs = [of |-> current, bit |-> bit[current]]
  /\ at \in {"main", "loop", "popped", "call"} =>
       sp = Main /\ regs = [of |-> Main, bit |-> bit[Main]]

\* An exited thread keeps current_thread, hence its box and the stack thread_exit
\* still runs on, until start is back on its own stack; nothing dropped is used.
NoUseAfterFree ==
  /\ sp \notin freed
  /\ Turn \notin freed
  /\ \A t \in freed : ~InQueue(t)

\* Without calls from outside threads, the only panic is "too many threads", and
\* it takes more than THREAD_COUNT threads that have not exited.
PanicOnlyOverCapacity ==
  panicked =>
    /\ returnPc \/ at = "main"
    /\ Len(queue) = ThreadCount
    /\ \E t \in Tids : t < counter /\ ~InQueue(t) /\ t \notin exited

\* start returns only when every thread ever forked has exited.
StartRunsAll ==
  [][StartReturns => \A t \in Tids : t < counter => t \in exited]_vars

\* While start runs, a queued thread gets its turn.
NoStarvation ==
  \A t \in Tids :
    InQueue(t) /\ at # "main" ~> (at = "body" /\ current = t) \/ panicked

\* The library implements round-robin coroutines.
Abstract == INSTANCE RoundRobin WITH
  Ids <- Tids, ready <- queue, running <- Turn, done <- exited

Refines == Abstract!Spec

\* The expect of thread_yield_save_sp_move_to_queue: whoever gets past it is "in a
\* thread", namely the current one.
YieldsFromThread == [][Yield /\ ~panicked' => regs.of = current]_vars

=============================================================================
