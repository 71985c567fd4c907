------------------------- MODULE InterruptHandlers -------------------------
(***************************************************************************)
(* The table of interrupt handlers and their dispatch                      *)
(* (lib/src/interrupts.rs 440-626).                                        *)
(*                                                                         *)
(* register_interrupt_handler and remove_interrupt_handler are critical    *)
(* sections, so they are one step here; interrupt_vector is a step per     *)
(* slot, since devices raise their events, and the timer ticks, while it   *)
(* looks at the handlers one after the other.  The handlers are boxed      *)
(* closures of type InterruptHandler: those of Devices clear their event   *)
(* and claim the interrupt, the others (the profiler's) never claim.       *)
(***************************************************************************)
EXTENDS Naturals, Sequences, FiniteSets

CONSTANTS
  Clients,    \* code that registers a handler
  Devices,    \* those whose handler serves a device
  None,
  ClockSize,  \* 2^32: the clock and the period are unsigned integers
  MaxEvents,  \* bound: events of the devices
  MaxTicks    \* bound: ticks of the ARM timer

ASSUME HandlersAssumption ==
  /\ Devices \subseteq Clients
  /\ None \notin Clients
  /\ ClockSize \in Nat \ {0}
  /\ MaxEvents \in Nat
  /\ MaxTicks \in Nat

VARIABLES
  slots,      \* INTERRUPT_HANDLERS: a handler or None per slot
  unused,     \* UNUSED_HANDLER_SLOTS, a stack
  index,      \* per client: the slot it was given (from 1), 0 if not registered
  at,         \* where the core is: the program or a part of interrupt_vector
  pos,        \* the slot interrupt_vector looks at
  event,      \* per device: an event is detected and not cleared
  timer,      \* the ARM timer's interrupt is pending
  timerOn,    \* timer_init has been called
  cnt, period, periodSum, lastClk,  \* CNT, PERIOD, PERIOD_SUM, LAST_CLK
  clk,        \* the clock that timer_get_usec_raw reads
  panicked,   \* the assertion of register_interrupt_handler failed
  called,     \* history: handlers called by this interrupt
  elapsed,    \* history: time between the last two counted interrupts
  total,      \* history: time since the first of them
  sawZero,    \* history: the clock was read as 0
  events, ticks  \* how many there have been

registry == <<slots, unused, index>>
clock == <<cnt, period, periodSum, lastClk, clk, elapsed, total, sawZero>>
device == <<event, timer, timerOn, events, ticks>>
vars == <<registry, at, pos, device, clock, panicked, called>>

Registered(c) == index[c] # 0

Init ==
  /\ slots = <<>> /\ unused = <<>> /\ index = [c \in Clients |-> 0]
  /\ at = "program" /\ pos = 1 /\ called = {} /\ panicked = FALSE
  /\ event = [d \in Devices |-> FALSE] /\ timer = FALSE /\ timerOn = FALSE
  /\ cnt = 0 /\ period = 0 /\ periodSum = 0 /\ lastClk = 0
  /\ clk \in 0 .. ClockSize - 1
  /\ elapsed = 0 /\ total = 0 /\ sawZero = FALSE
  /\ events = 0 /\ ticks = 0

-----------------------------------------------------------------------------
(* The program.                                                            *)

Running == at = "program" /\ ~panicked

\* Mutant: the free slot is looked at, not popped.
RegisterPeeks(c) ==
  /\ Running
  /\ ~Registered(c)
  /\ LET i == IF unused = <<>> THEN Len(slots) + 1 ELSE unused[Len(unused)]
     IN /\ index' = [index EXCEPT ![c] = i]
        /\ slots' = [k \in 1 .. Len(slots) \cup {i} |-> IF k = i THEN c ELSE slots[k]]
        /\ panicked' = (i <= Len(slots) /\ slots[i] # None)
  /\ UNCHANGED <<unused, at, pos, device, clock, called>>

\* register_interrupt_handler: the slot freed last is used again, and must be
\* empty; if no slot is free the table grows.
Register(c) ==
  /\ Running
  /\ ~Registered(c)
  /\ \/ /\ unused = <<>>
        /\ slots' = Append(slots, c)
        /\ index' = [index EXCEPT ![c] = Len(slots) + 1]
        /\ UNCHANGED <<unused, panicked>>
     \/ /\ unused # <<>>
        /\ LET i == unused[Len(unused)]
           IN /\ unused' = SubSeq(unused, 1, Len(unused) - 1)
              /\ IF slots[i] = None
                 THEN /\ slots' = [slots EXCEPT ![i] = c]
                      /\ index' = [index EXCEPT ![c] = i]
                      /\ UNCHANGED panicked
                 ELSE /\ panicked' = TRUE
                      /\ UNCHANGED <<slots, index>>
  /\ UNCHANGED <<at, pos, device, clock, called>>

\* remove_interrupt_handler, by the client that was given the index, even while
\* its device has an event.
Remove(c) ==
  /\ Running
  /\ Registered(c)
  /\ slots' = [slots EXCEPT ![index[c]] = None]
  /\ unused' = Append(unused, index[c])
  /\ index' = [index EXCEPT ![c] = 0]
  /\ UNCHANGED <<at, pos, device, clock, panicked, called>>

TimerInit ==
  /\ Running
  /\ ~timerOn
  /\ timerOn' = TRUE
  /\ UNCHANGED <<registry, at, pos, event, timer, events, ticks, clock, panicked, called>>

-----------------------------------------------------------------------------
(* The devices.                                                            *)

Event(d) ==
  /\ Registered(d)
  /\ events < MaxEvents
  /\ event' = [event EXCEPT ![d] = TRUE]
  /\ events' = events + 1
  /\ UNCHANGED <<registry, at, pos, timer, timerOn, ticks, clock, panicked, called>>

Tick ==
  /\ timerOn
  /\ ticks < MaxTicks
  /\ timer' = TRUE
  /\ ticks' = ticks + 1
  /\ UNCHANGED <<registry, at, pos, event, timerOn, events, clock, panicked, called>>

-----------------------------------------------------------------------------
(* interrupt_vector.                                                       *)

Line == timer \/ \E d \in Devices : event[d]

Interrupt ==
  /\ Running
  /\ Line
  /\ at' = "handlers"
  /\ UNCHANGED <<registry, pos, device, clock, panicked, called>>

\* The next interrupt starts over.
Return == at' = "program" /\ pos' = 1 /\ called' = {}

Looking == at = "handlers" /\ pos <= Len(slots)

Claims(c) == c \in Devices /\ event[c]

\* Mutant: an empty slot ends the loop.
SkipStops ==
  /\ Looking
  /\ slots[pos] = None
  /\ pos' = Len(slots) + 1
  /\ UNCHANGED <<registry, at, device, clock, panicked, called>>

Skip ==
  /\ Looking
  /\ slots[pos] = None
  /\ pos' = pos + 1
  /\ UNCHANGED <<registry, at, device, clock, panicked, called>>

Decline ==
  /\ Looking
  /\ slots[pos] # None
  /\ ~Claims(slots[pos])
  /\ called' = called \cup {slots[pos]}
  /\ pos' = pos + 1
  /\ UNCHANGED <<registry, at, device, clock, panicked>>

\* The first handler that claims the interrupt ends it; whatever else is pending
\* raises the line again.
Claim ==
  /\ Looking
  /\ slots[pos] # None
  /\ Claims(slots[pos])
  /\ event' = [event EXCEPT ![slots[pos]] = FALSE]
  /\ Return
  /\ UNCHANGED <<registry, timer, timerOn, events, ticks, clock, panicked>>

NobodyClaims == at = "handlers" /\ pos > Len(slots)

\* Not the timer either: return, with the line as it was.
Ignore ==
  /\ NobodyClaims
  /\ ~timer
  /\ Return
  /\ UNCHANGED <<registry, device, clock, panicked>>

ClearTimer ==
  /\ NobodyClaims
  /\ timer
  /\ timer' = FALSE
  /\ at' = "count"
  /\ UNCHANGED <<registry, pos, event, timerOn, events, ticks, clock, panicked, called>>

\* Mutants: LAST_CLK is updated first; the difference does not wrap.
PeriodOfNew(now) ==
  /\ lastClk' = now
  /\ period' = IF lastClk' # 0 THEN (now + ClockSize - lastClk') % ClockSize ELSE 0

\* The period is the wrapping difference of two readings; LAST_CLK = 0 stands for
\* no reading yet.
Period(now) ==
  /\ period' = IF lastClk # 0 THEN (now + ClockSize - lastClk) % ClockSize ELSE 0
  /\ lastClk' = now

\* The clock is read, less than a turn after the last time.
Count ==
  /\ at = "count"
  /\ cnt' = cnt + 1
  /\ \E time \in 0 .. ClockSize - 1 :
       /\ clk' = (clk + time) % ClockSize
       /\ elapsed' = time
       /\ total' = IF cnt = 0 THEN 0 ELSE (total + time) % ClockSize
  /\ Period(clk')
  /\ periodSum' = (periodSum + period') % ClockSize
  /\ sawZero' = (sawZero \/ clk' = 0)
  /\ at' = "clear"
  /\ UNCHANGED <<registry, pos, device, panicked, called>>

\* A tick since the first clear is cleared with it.
ClearAgain ==
  /\ at = "clear"
  /\ timer' = FALSE
  /\ Return
  /\ UNCHANGED <<registry, event, timerOn, events, ticks, clock, panicked>>

Vector ==
  \/ Skip
  \/ Decline
  \/ Claim
  \/ Ignore
  \/ ClearTimer
  \/ Count
  \/ ClearAgain

Next ==
  \/ \E c \in Clients : Register(c) \/ Remove(c)
  \/ TimerInit
  \/ \E d \in Devices : Event(d)
  \/ Tick
  \/ Interrupt
  \/ Vector

Spec == Init /\ [][Next]_vars

\* The core executes, and takes a pending interrupt between the program's
\* instructions; devices, and the program, need not do anything.
Fairness == WF_vars(Vector) /\ WF_vars(Interrupt)

FairSpec == Spec /\ Fairness

-----------------------------------------------------------------------------
(* Properties.                                                             *)

\* A client that has registered and not removed its handler finds it in its slot
\* and nowhere else, the empty slots are exactly the free ones, each free once,
\* and so the assertion that a free slot is empty never fails.
Registry ==
  /\ ~panicked
  /\ \A c \in Clients : Registered(c) => slots[index[c]] = c
  /\ \A i \in 1 .. Len(slots) : slots[i] # None => index[slots[i]] = i
  /\ \A i \in 1 .. Len(slots) :
       (slots[i] = None) <=> \E k \in 1 .. Len(unused) : unused[k] = i
  /\ \A j, k \in 1 .. Len(unused) : unused[j] = unused[k] => j = k

\* When interrupt_vector comes to the timer, every registered handler has been
\* called and has declined, wherever removals left empty slots.
Offered ==
  at \in {"count", "clear"} \/ NobodyClaims => called = {c \in Clients : Registered(c)}

\* PERIOD is the time between the last two counted interrupts and PERIOD_SUM the
\* time since the first, across wraps of the clock, unless it was ever read as
\* exactly 0, LAST_CLK's sign for no reading yet.
PeriodElapsed ==
  cnt > 0 /\ ~sawZero =>
    /\ period = IF cnt = 1 THEN 0 ELSE elapsed
    /\ periodSum = total

\* Unless its handler goes, a device's event is served in the end, and the timer's
\* interrupt is always cleared in the end, also while events that nobody claims
\* raise the line again and again.
Served ==
  /\ \A d \in Devices :
       event[d] /\ Registered(d) ~> ~event[d] \/ ~Registered(d)
  /\ timer ~> ~timer

=============================================================================
