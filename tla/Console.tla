------------------------------- MODULE Console -------------------------------
(***************************************************************************)
(* What reaches the serial line: the print macros (lib/src/uart.rs), the   *)
(* abort handler that prints (debug.rs), the panic handler and the reboot  *)
(* (setup.rs), and the UART with its FIFO.                                 *)
(*                                                                         *)
(* The processor's activities are stacked: the program, over it an         *)
(* interrupt or a data abort, over each of them panics.  Each has a list   *)
(* of what it still does.  An interrupt comes when the program is in no    *)
(* critical section; an abort or a panic may come in the middle of a       *)
(* print, while its arguments are formatted.  Exceptions do not nest       *)
(* (interrupts.rs 139-141).  Activities also allocate (Allocator).         *)
(***************************************************************************)
EXTENDS Allocator

CONSTANTS
  FifoSize,      \* bytes in the UART's transmit FIFO, here half a line each
  MaxPrints,     \* bound: prints
  MaxAllocs,     \* bound: allocations
  MaxExceptions, \* bound: interrupts and aborts
  MaxPanics      \* bound: panics, the first one and those of its message

VARIABLES
  stack,     \* the activities, the last one runs
  writer,    \* UART_WRITER: "none", "free" or "held"
  fifo,      \* what is on its way
  line,      \* what has been sent
  prints, allocs, exceptions, panics,
  cause,     \* history: why the last panic happened
  rebooted

uart == <<fifo, line>>
counts == <<prints, allocs, exceptions, panics>>
vars == <<stack, writer, uart, counts, cause, rebooted, heapVars>>

-----------------------------------------------------------------------------
(* Activities.                                                             *)

NoLayout == [size |-> 0, align |-> 1]

Activity(who, todo) ==
  [who |-> who, todo |-> todo, doing |-> "run", section |-> FALSE, number |-> 0,
   layout |-> NoLayout, seen |-> 0]

Top == stack[Len(stack)]
Below == SubSeq(stack, 1, Len(stack) - 1)

Becomes(activity) == stack' = Append(Below, activity)
Push(activity) == stack' = Append(stack, activity)
Pop == stack' = Below

\* The activity that goes on after what it was doing.
Done == [Top EXCEPT !.doing = "run", !.section = FALSE,
                    !.todo = IF @ = <<>> THEN <<>> ELSE Tail(@)]

\* The program and handlers do anything, an abort handler what it has to.
Does(op) ==
  /\ Top.doing = "run"
  /\ \/ Top.who \in {"program", "interrupt"}
     \/ Top.who = "abort" /\ Top.todo # <<>> /\ Head(Top.todo) = op

\* A panic ends the activities below it.
Panics(why) ==
  /\ panics' = panics + 1
  /\ Push([Activity("panic", <<>>) EXCEPT !.section = TRUE, !.number = panics + 1])
  /\ cause' = why

Init ==
  /\ HeapInit
  /\ stack = <<Activity("program", <<>>)>>
  /\ writer = "none" /\ fifo = <<>> /\ line = <<>>
  /\ prints = 0 /\ allocs = 0 /\ exceptions = 0 /\ panics = 0
  /\ cause = "none" /\ rebooted = FALSE

-----------------------------------------------------------------------------
(* The UART.                                                               *)

\* write_uart waits for room in the FIFO.
Write(token) == Len(fifo) < FifoSize /\ fifo' = Append(fifo, token) /\ UNCHANGED line

Send ==
  /\ fifo # <<>>
  /\ line' = Append(line, Head(fifo))
  /\ fifo' = Tail(fifo)
  /\ UNCHANGED <<stack, writer, counts, cause, rebooted, heapVars>>

StoreUart ==
  /\ Top.who = "program" /\ Top.doing = "run"
  /\ writer = "none"
  /\ writer' = "free"
  /\ UNCHANGED <<stack, uart, counts, cause, rebooted, heapVars>>

-----------------------------------------------------------------------------
(* println!, print! and dbg!, in a critical section with the writer        *)
(* borrowed: nothing without a writer, a panic if it is borrowed.          *)

Println ==
  /\ Does("println")
  /\ Top.who = "abort" \/ prints < MaxPrints
  /\ prints' = prints + 1
  /\ CASE writer = "none" -> Becomes(Done) /\ UNCHANGED <<writer, panics, cause>>
       [] writer = "free" ->
            /\ writer' = "held"
            /\ Becomes([Top EXCEPT !.doing = "text", !.section = TRUE, !.number = prints + 1])
            /\ UNCHANGED <<panics, cause>>
       [] writer = "held" -> Panics("writer") /\ UNCHANGED writer
  /\ UNCHANGED <<uart, allocs, exceptions, rebooted, heapVars>>

\* Mutant: the end of the line is a print of its own.
WriteTextAlone ==
  /\ Top.doing = "text"
  /\ Write(<<"text", Top.number>>)
  /\ writer' = "free"
  /\ Becomes([Top EXCEPT !.doing = "newline", !.section = FALSE])
  /\ UNCHANGED <<counts, cause, rebooted, heapVars>>

WriteText ==
  /\ Top.doing = "text"
  /\ Write(<<"text", Top.number>>)
  /\ Becomes([Top EXCEPT !.doing = "newline"])
  /\ UNCHANGED <<writer, counts, cause, rebooted, heapVars>>

\* Mutant: the writer is not given back.
WriteNewlineKeeps ==
  /\ Top.doing = "newline"
  /\ Write(<<"newline", Top.number>>)
  /\ Becomes(Done)
  /\ UNCHANGED <<writer, counts, cause, rebooted, heapVars>>

WriteNewline ==
  /\ Top.doing = "newline"
  /\ Write(<<"newline", Top.number>>)
  /\ writer' = "free"
  /\ Becomes(Done)
  /\ UNCHANGED <<counts, cause, rebooted, heapVars>>

\* The arguments are formatted with the writer borrowed: they may print or panic.
FormatFails ==
  /\ Top.doing = "text"
  /\ \E why \in {"writer", "asked"} : Panics(why)
  /\ UNCHANGED <<writer, uart, prints, allocs, exceptions, rebooted, heapVars>>

\* steal_println!, with a writer made up on the spot and in no section.
StealText ==
  /\ Top.who = "abort" /\ Does("steal")
  /\ Write(<<"steal", exceptions>>)
  /\ Becomes([Top EXCEPT !.doing = "stolen"])
  /\ UNCHANGED <<writer, counts, cause, rebooted, heapVars>>

StealNewline ==
  /\ Top.doing = "stolen"
  /\ Write(<<"stolen", exceptions>>)
  /\ Becomes(Done)
  /\ UNCHANGED <<writer, counts, cause, rebooted, heapVars>>

-----------------------------------------------------------------------------
(* Allocation.  virtual_memory::setup asks for the whole heap and asserts  *)
(* that it got it: a page table that is not the first block is a panic,    *)
(* as any other null pointer.                                              *)

Allocate ==
  /\ Top.who # "abort" /\ Does("alloc")
  /\ allocs < MaxAllocs
  /\ allocs' = allocs + 1
  /\ IF borrowed
     THEN Panics("allocator") /\ UNCHANGED heapVars
     ELSE /\ Borrow
          /\ \E l \in Layouts :
               Becomes([Top EXCEPT !.doing = "alloc", !.layout = l, !.seen = used])
          /\ UNCHANGED <<panics, cause>>
  /\ UNCHANGED <<writer, uart, prints, exceptions, rebooted>>

Allocated ==
  /\ Top.doing = "alloc"
  /\ \/ /\ Bump(Top.layout, Top.seen)
        /\ Becomes(Done)
        /\ UNCHANGED <<panics, cause>>
     \/ Exhausted(Top.layout, Top.seen) /\ Panics("exhausted")
  /\ UNCHANGED <<writer, uart, prints, allocs, exceptions, rebooted>>

-----------------------------------------------------------------------------
(* Exceptions.                                                             *)

Interrupt ==
  /\ Len(stack) = 1 /\ ~Top.section
  /\ exceptions < MaxExceptions
  /\ exceptions' = exceptions + 1
  /\ Push(Activity("interrupt", <<>>))
  /\ UNCHANGED <<writer, uart, prints, allocs, panics, cause, rebooted, heapVars>>

\* data_abort_vector: with a watchpoint a stolen line; else a line, and another
\* if the access is allowed or a panic if not.
DataAbort ==
  /\ Len(stack) = 1
  /\ exceptions < MaxExceptions
  /\ exceptions' = exceptions + 1
  /\ \E todo \in {<<"steal">>, <<"println", "println">>, <<"println", "panic">>} :
       Push(Activity("abort", todo))
  /\ UNCHANGED <<writer, uart, prints, allocs, panics, cause, rebooted, heapVars>>

Return ==
  /\ Top.doing = "run"
  /\ Top.who = "interrupt" \/ (Top.who = "abort" /\ Top.todo = <<>>)
  /\ Pop
  /\ UNCHANGED <<writer, uart, counts, cause, rebooted, heapVars>>

-----------------------------------------------------------------------------
(* Panics and the reboot.                                                  *)

Panic ==
  /\ Does("panic")
  /\ Panics("asked")
  /\ UNCHANGED <<writer, uart, prints, allocs, exceptions, rebooted, heapVars>>

Panicking(doing) == Top.who = "panic" /\ Top.doing = doing

\* The writer is used if it is there and not borrowed; otherwise setup_uart makes
\* another one and clears the FIFO.
PanicEnter ==
  /\ Panicking("run")
  /\ IF writer = "free" THEN writer' = "held" /\ UNCHANGED uart
     ELSE fifo' = <<>> /\ UNCHANGED <<writer, line>>
  /\ Becomes([Top EXCEPT !.doing = "message"])
  /\ UNCHANGED <<counts, cause, rebooted, heapVars>>

\* Formatting the message may panic again.
PanicAgain ==
  /\ Panicking("message")
  /\ panics < MaxPanics
  /\ panics' = panics + 1
  /\ Push([Activity("panic", <<>>) EXCEPT !.section = TRUE, !.number = panics + 1])
  /\ UNCHANGED <<writer, uart, prints, allocs, exceptions, cause, rebooted, heapVars>>

PanicMessage ==
  /\ Panicking("message")
  /\ Write(<<"message", Top.number>>)
  /\ Becomes([Top EXCEPT !.doing = "end"])
  /\ UNCHANGED <<writer, counts, cause, rebooted, heapVars>>

PanicEnd ==
  /\ Panicking("end")
  /\ Write(<<"DONE!!!", Top.number>>)
  /\ Becomes([Top EXCEPT !.doing = "reboot"])
  /\ UNCHANGED <<writer, counts, cause, rebooted, heapVars>>

\* Mutant: no delay before the reboot.
RebootAtOnce ==
  /\ Panicking("reboot") /\ ~rebooted
  /\ rebooted' = TRUE /\ fifo' = <<>>
  /\ UNCHANGED <<stack, writer, line, counts, cause, heapVars>>

\* 10 ms are enough for the FIFO to be sent.
Reboot ==
  /\ Panicking("reboot") /\ ~rebooted
  /\ fifo = <<>>
  /\ rebooted' = TRUE
  /\ UNCHANGED <<stack, writer, uart, counts, cause, heapVars>>

PanicStep == PanicEnter \/ PanicMessage \/ PanicEnd \/ Reboot

Next ==
  \/ Send \/ StoreUart
  \/ Println \/ WriteText \/ WriteNewline \/ FormatFails \/ StealText \/ StealNewline
  \/ Allocate \/ Allocated
  \/ Interrupt \/ DataAbort \/ Return
  \/ Panic \/ PanicAgain \/ PanicStep

Spec == Init /\ [][Next]_vars

\* The UART sends, and a processor that panics goes on.
FairSpec == Spec /\ WF_vars(Send) /\ WF_vars(PanicStep)

-----------------------------------------------------------------------------
(* Properties.                                                             *)

Stolen(token) == token[1] \in {"steal", "stolen"}

\* What comes after place j of the output, stolen lines apart, is at place k.
Follows(s, j, k) ==
  /\ j < k /\ ~Stolen(s[j]) /\ ~Stolen(s[k])
  /\ \A i \in j + 1 .. k - 1 : Stolen(s[i])

Whole(s) ==
  \A j, k \in DOMAIN s : Follows(s, j, k) =>
    /\ s[j][1] = "text" => s[k] = <<"newline", s[j][2]>> \/ s[k][1] = "message"
    /\ s[k][1] = "newline" => s[j] = <<"text", s[k][2]>>

\* What has been written.
Output == line \o fifo

\* The end of a line follows its text, whoever else prints: only a stolen line, or
\* the message of a panic that the line does not survive, comes between.
WholeLines == Whole(Output)

\* A panic over the writer is by the arguments of the print that holds it or by an
\* access that aborts in there, never by an interrupt; one over the allocator by an
\* interrupt of an allocation, which no section protects; and memory runs out, for
\* the page table too, only when there were blocks before.
PanicCauses ==
  /\ cause = "writer" =>
       \E k \in 1 .. Len(stack) - 1 :
         stack[k].doing \in {"text", "newline"} /\ stack[k + 1].who \in {"panic", "abort"}
  /\ cause = "allocator" => stack[1].doing = "alloc" /\ stack[2].who = "interrupt"
  /\ cause = "exhausted" => blocks # <<>>

\* Whatever was being printed, and with or without a writer, the last panic's
\* message gets out to its end (the installer waits for DONE!!!) before the reboot.
Reported ==
  panics > 0 ~>
    /\ rebooted
    /\ \E n \in 1 .. Len(line) - 1 :
         /\ SubSeq(line, n, Len(line)) = <<<<"message", panics>>, <<"DONE!!!", panics>>>>

=============================================================================
