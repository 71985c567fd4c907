---------------------------- MODULE DevicesProof ----------------------------
(***************************************************************************)
(* The interrupt handlers, the pins and the software UART.                 *)
(*                                                                         *)
(* The table of interrupt handlers and its free slots stay consistent, for *)
(* every set of clients and devices.  For every set of pins, every way     *)
(* they share registers and every split between the program and a handler, *)
(* a pin keeps the function of its type and its owner is told of the edges *)
(* it asked for, up to the two kinds of interference that FunctionKept and *)
(* EventsReported name.  The bits of the software UART come at their time, *)
(* and a receiver gets the bytes, for every bit time, width of the counter *)
(* and choice of interrupts.                                               *)
(***************************************************************************)
EXTENDS InterruptHandlers, SoftwareUart, SequenceTheorems, FiniteSetTheorems, TLAPS

-----------------------------------------------------------------------------
(* The table of interrupt handlers.                                        *)

\* The part of the types that the table needs.
TableType ==
  /\ slots \in Seq(Clients \cup {None})
  /\ unused \in Seq(1 .. Len(slots))
  /\ index \in [Clients -> 0 .. Len(slots)]

TableInv == TableType /\ Registry

\* At first there is no slot, no free one, and nobody is registered.
LEMMA InitTable == Init => TableInv
BY HandlersAssumption DEF Init, TableInv, TableType, Registry, Registered

\* Reusing the slot freed last takes it from the free ones, and growing the table
\* adds one that is not free.
LEMMA RegisterTable ==
  ASSUME NEW c \in Clients, TableInv, Register(c)
  PROVE  TableInv'
<1> USE HandlersAssumption DEF TableInv, TableType, Registered
<1>1. CASE unused = <<>>
  <2>1. /\ slots' = Append(slots, c) /\ unused' = unused /\ panicked' = panicked
        /\ index' = [index EXCEPT ![c] = Len(slots) + 1]
    BY <1>1 DEF Register
  <2>2. TableType'
    BY <1>1, <2>1
  <2>3. Registry'
    BY <1>1, <2>1 DEF Registry, Register
  <2> QED
    BY <2>2, <2>3
<1>2. CASE unused # <<>>
  <2> DEFINE i == unused[Len(unused)]
  <2>1. /\ i \in 1 .. Len(slots)
        /\ slots[i] = None
        /\ Len(unused) \in Nat \ {0}
    BY <1>2 DEF Registry
  <2>2. /\ slots' = [slots EXCEPT ![i] = c]
        /\ unused' = SubSeq(unused, 1, Len(unused) - 1)
        /\ index' = [index EXCEPT ![c] = i]
        /\ panicked' = panicked
    BY <1>2, <2>1 DEF Register
  <2>3. /\ Len(slots') = Len(slots)
        /\ slots' \in Seq(Clients \cup {None})
        /\ \A k \in 1 .. Len(slots) : slots'[k] = IF k = i THEN c ELSE slots[k]
    BY <2>1, <2>2, ExceptSeq
  <2>4. /\ unused' \in Seq(1 .. Len(slots))
        /\ Len(unused') = Len(unused) - 1
        /\ \A k \in 1 .. Len(unused) - 1 : unused'[k] = unused[k]
    <3>1. \A k \in 1 .. Len(unused) - 1 : unused[k] \in 1 .. Len(slots)
      BY ElementOfSeq
    <3> DEFINE n == Len(unused) - 1
    <3>2. n \in Nat
      BY <2>1
    <3>3. \A k \in 1 .. n : unused[k] \in 1 .. Len(slots)
      BY <2>1, <3>1
    <3> HIDE DEF n
    <3>4. /\ SubSeq(unused, 1, n) \in Seq(1 .. Len(slots))
          /\ Len(SubSeq(unused, 1, n)) = n
          /\ \A k \in 1 .. n : SubSeq(unused, 1, n)[k] = unused[k]
      BY <3>2, <3>3, SubSeqProperties
    <3> QED
      BY <2>2, <3>4 DEF n
  <2>5. TableType'
    BY <2>1, <2>2, <2>3, <2>4
  <2>6. \A d \in Clients : index'[d] # 0 => slots'[index'[d]] = d
    BY <2>1, <2>2, <2>3 DEF Registry
  <2>7. \A k \in 1 .. Len(slots') : slots'[k] # None => index'[slots'[k]] = k
    <3> SUFFICES ASSUME NEW k \in 1 .. Len(slots), slots'[k] # None
                 PROVE  index'[slots'[k]] = k
      BY <2>3
    <3>1. CASE k = i
      BY <2>2, <2>3, <3>1
    <3>2. CASE k # i
      <4>1. slots'[k] = slots[k] /\ slots[k] \in Clients
        BY <2>3, <3>2, ElementOfSeq
      <4>2. index[slots[k]] = k
        BY <4>1 DEF Registry
      <4>3. slots[k] # c
        BY <4>2 DEF Register
      <4> QED
        BY <2>2, <4>1, <4>2, <4>3
    <3> QED
      BY <3>1, <3>2
  <2>8. \A k \in 1 .. Len(slots') :
          (slots'[k] = None) <=> \E j \in 1 .. Len(unused') : unused'[j] = k
    <3> SUFFICES ASSUME NEW k \in 1 .. Len(slots)
                 PROVE  (slots'[k] = None) <=>
                          \E j \in 1 .. Len(unused) - 1 : unused[j] = k
      BY <2>3, <2>4
    <3>1. CASE k = i
      <4>1. slots'[k] # None
        BY <2>3, <3>1
      <4>2. \A j \in 1 .. Len(unused) - 1 :
              /\ j \in 1 .. Len(unused) /\ Len(unused) \in 1 .. Len(unused)
              /\ j # Len(unused)
        BY <2>1
      <4>3. \A j \in 1 .. Len(unused) - 1 : unused[j] # k
        BY <3>1, <4>2 DEF Registry
      <4> QED
        BY <4>1, <4>3
    <3>2. CASE k # i
      <4>1. (slots'[k] = None) <=> \E j \in 1 .. Len(unused) : unused[j] = k
        BY <2>3, <3>2 DEF Registry
      <4>2. \A j \in 1 .. Len(unused) : unused[j] = k => j \in 1 .. Len(unused) - 1
        BY <2>1, <3>2
      <4>3. \A j \in 1 .. Len(unused) - 1 : j \in 1 .. Len(unused)
        BY <2>1
      <4> QED
        BY <4>1, <4>2, <4>3
    <3> QED
      BY <3>1, <3>2
  <2>9. \A j, k \in 1 .. Len(unused') : unused'[j] = unused'[k] => j = k
    <3>1. \A j \in 1 .. Len(unused') : j \in 1 .. Len(unused) /\ unused'[j] = unused[j]
      BY <2>1, <2>4
    <3> QED
      BY <3>1 DEF Registry
  <2> QED
    BY <2>2, <2>5, <2>6, <2>7, <2>8, <2>9 DEF Registry
<1> QED
  BY <1>1, <1>2

\* A removed handler's slot was not free, so it becomes free once.
LEMMA RemoveTable ==
  ASSUME NEW c \in Clients, TableInv, Remove(c)
  PROVE  TableInv'
<1> USE HandlersAssumption DEF TableInv, TableType, Registered
<1> DEFINE i == index[c]
<1>1. i \in 1 .. Len(slots) /\ slots[i] = c /\ c # None
  BY DEF Remove, Registry
<1>2. /\ slots' = [slots EXCEPT ![i] = None]
      /\ unused' = Append(unused, i)
      /\ index' = [index EXCEPT ![c] = 0]
      /\ panicked' = panicked
  BY DEF Remove
<1>3. /\ Len(slots') = Len(slots)
      /\ slots' \in Seq(Clients \cup {None})
      /\ \A k \in 1 .. Len(slots) : slots'[k] = IF k = i THEN None ELSE slots[k]
  BY <1>1, <1>2, ExceptSeq
<1>4. /\ unused' \in Seq(1 .. Len(slots))
      /\ Len(unused') = Len(unused) + 1
      /\ \A k \in 1 .. Len(unused) : unused'[k] = unused[k]
      /\ unused'[Len(unused) + 1] = i
  BY <1>1, <1>2
<1>5. TableType'
  BY <1>1, <1>2, <1>3, <1>4
<1>6. \A d \in Clients : index'[d] # 0 => slots'[index'[d]] = d
  BY <1>1, <1>2 DEF Registry
<1>7. \A k \in 1 .. Len(slots') : slots'[k] # None => index'[slots'[k]] = k
  BY <1>1, <1>2, <1>3 DEF Registry
<1>8. \A k \in 1 .. Len(slots') :
        (slots'[k] = None) <=> \E j \in 1 .. Len(unused') : unused'[j] = k
  <2> SUFFICES ASSUME NEW k \in 1 .. Len(slots)
               PROVE  (slots'[k] = None) <=> \E j \in 1 .. Len(unused) + 1 : unused'[j] = k
    BY <1>3, <1>4
  <2>1. CASE k = i
    <3>1. Len(unused) + 1 \in 1 .. Len(unused) + 1
      OBVIOUS
    <3> QED
      BY <1>3, <1>4, <2>1, <3>1
  <2>2. CASE k # i
    <3>1. (slots'[k] = None) <=> \E j \in 1 .. Len(unused) : unused[j] = k
      BY <1>3, <2>2 DEF Registry
    <3>2. \A j \in 1 .. Len(unused) + 1 :
            unused'[j] = k => j \in 1 .. Len(unused) /\ unused[j] = k
      BY <1>4, <2>2
    <3>3. \A j \in 1 .. Len(unused) : j \in 1 .. Len(unused) + 1 /\ unused'[j] = unused[j]
      BY <1>4
    <3> QED
      BY <3>1, <3>2, <3>3
  <2> QED
    BY <2>1, <2>2
<1>9. \A j, k \in 1 .. Len(unused') : unused'[j] = unused'[k] => j = k
  <2>1. \A j \in 1 .. Len(unused) : unused[j] # i
    BY <1>1 DEF Registry
  <2>2. \A j \in 1 .. Len(unused') :
          \/ j \in 1 .. Len(unused) /\ unused'[j] = unused[j]
          \/ j = Len(unused) + 1 /\ unused'[j] = i
    BY <1>4
  <2> QED
    BY <2>1, <2>2 DEF Registry
<1> QED
  BY <1>2, <1>5, <1>6, <1>7, <1>8, <1>9 DEF Registry

\* Timer, devices and interrupt_vector leave the table alone.
LEMMA TableUntouched ==
  ASSUME Next \/ UNCHANGED vars, ~ \E c \in Clients : Register(c) \/ Remove(c)
  PROVE  UNCHANGED <<registry, panicked>>
BY DEF Next, vars, TimerInit, Event, Tick, Interrupt, Vector, Skip, Decline, Claim,
       Ignore, ClearTimer, Count, ClearAgain, Return

\* Every step keeps the table consistent.
LEMMA TableStep == TableInv /\ [Next]_vars => TableInv'
<1> SUFFICES ASSUME TableInv, [Next]_vars
             PROVE  TableInv'
  OBVIOUS
<1>1. CASE \E c \in Clients : Register(c)
  BY <1>1, RegisterTable
<1>2. CASE \E c \in Clients : Remove(c)
  BY <1>2, RemoveTable
<1>3. CASE ~ \E c \in Clients : Register(c) \/ Remove(c)
  <2>1. UNCHANGED <<registry, panicked>>
    BY <1>3, TableUntouched
  <2> QED
    BY <2>1 DEF TableInv, TableType, Registry, Registered, registry
<1> QED
  BY <1>1, <1>2, <1>3

\* The index a client was given finds its handler until the client removes it,
\* the empty slots are the free ones, and register_interrupt_handler's assertion
\* never fails.
THEOREM TableConsistent == Spec => []Registry
<1>1. TableInv => Registry
  BY DEF TableInv
<1> QED
  BY InitTable, TableStep, <1>1, PTL DEF Spec

-----------------------------------------------------------------------------
(* The dispatch: who has been called when interrupt_vector is at a slot.   *)

DispatchInv ==
  /\ pos \in Nat \ {0} /\ called \subseteq Clients
  /\ at = "program" => pos = 1 /\ called = {}
  /\ at = "handlers" =>
       /\ pos <= Len(slots) + 1
       /\ \A c \in Clients : c \in called <=> index[c] \in 1 .. pos - 1
  /\ at \in {"count", "clear"} => called = {c \in Clients : Registered(c)}
  /\ at \in {"program", "handlers", "count", "clear"}

\* At the end of the table every registered handler's slot has been passed.
LEMMA AllPassed ==
  ASSUME TableInv, DispatchInv, NobodyClaims
  PROVE  called = {c \in Clients : Registered(c)}
<1>1. pos = Len(slots) + 1 /\ Len(slots) \in Nat
  BY DEF TableInv, TableType, DispatchInv, NobodyClaims
<1>2. \A c \in Clients : index[c] \in 0 .. Len(slots)
  BY DEF TableInv, TableType
<1>3. \A c \in Clients : c \in called <=> index[c] # 0
  BY <1>1, <1>2 DEF DispatchInv, NobodyClaims
<1> QED
  BY <1>3 DEF DispatchInv, Registered

\* Past a slot, exactly its handler has been called in addition.
LEMMA Passed ==
  ASSUME TableInv, DispatchInv, Looking
  PROVE  /\ pos \in 1 .. Len(slots) /\ slots[pos] \in Clients \cup {None}
         /\ \A c \in Clients :
              index[c] \in 1 .. pos <=> index[c] \in 1 .. pos - 1 \/ slots[pos] = c
<1>1. pos \in 1 .. Len(slots) /\ Len(slots) \in Nat
  BY DEF TableInv, TableType, DispatchInv, Looking
<1>2. slots[pos] \in Clients \cup {None}
  BY <1>1 DEF TableInv, TableType
<1>3. \A c \in Clients : index[c] = pos <=> slots[pos] = c
  BY <1>1, HandlersAssumption DEF TableInv, TableType, Registry, Registered
<1>4. \A c \in Clients : index[c] \in Nat
  BY DEF TableInv, TableType
<1> QED
  BY <1>1, <1>2, <1>3, <1>4

\* Every step keeps called what the slots passed say.
LEMMA DispatchStep == TableInv /\ DispatchInv /\ [Next]_vars => DispatchInv'
<1> SUFFICES ASSUME TableInv, DispatchInv, [Next]_vars
             PROVE  DispatchInv'
  OBVIOUS
<1> USE DEF DispatchInv
<1>1. ASSUME NEW c \in Clients, Register(c) \/ Remove(c)
      PROVE  DispatchInv'
  BY <1>1 DEF Register, Remove, Running
<1>2. CASE TimerInit \/ Tick \/ \E d \in Devices : Event(d)
  BY <1>2 DEF TimerInit, Tick, Event, registry, Registered
<1>3. CASE Interrupt
  <2>1. at' = "handlers" /\ pos' = 1 /\ called' = {} /\ UNCHANGED registry
    BY <1>3 DEF Interrupt, Running
  <2>2. Len(slots') \in Nat
    BY <2>1 DEF TableInv, TableType, registry
  <2> QED
    BY <2>1, <2>2 DEF registry
<1>4. CASE Skip
  <2>1. at = "handlers" /\ at' = at /\ pos' = pos + 1 /\ called' = called /\ UNCHANGED registry
    BY <1>4 DEF Skip, Looking
  <2>2. \A c \in Clients : index[c] \in 1 .. pos <=> index[c] \in 1 .. pos - 1
    BY <1>4, Passed, HandlersAssumption DEF Skip
  <2>3. pos \in 1 .. Len(slots)
    BY <1>4, Passed DEF Skip
  <2> QED
    BY <2>1, <2>2, <2>3 DEF registry, TableInv, TableType
<1>5. CASE Decline
  <2>1. /\ at = "handlers" /\ at' = at /\ pos' = pos + 1 /\ UNCHANGED registry
        /\ called' = called \cup {slots[pos]} /\ slots[pos] # None
    BY <1>5 DEF Decline, Looking
  <2>2. pos \in 1 .. Len(slots) /\ slots[pos] \in Clients
    BY <1>5, <2>1, Passed DEF Decline
  <2>3. \A c \in Clients : c \in called' <=> index[c] \in 1 .. pos
    BY <1>5, <2>1, Passed DEF Decline
  <2> QED
    BY <2>1, <2>2, <2>3 DEF registry, TableInv, TableType
<1>6. CASE Claim \/ Ignore \/ ClearAgain
  BY <1>6 DEF Claim, Ignore, ClearAgain, Return
<1>7. CASE ClearTimer
  <2>1. called = {c \in Clients : Registered(c)}
    BY <1>7, AllPassed DEF ClearTimer
  <2> QED
    BY <1>7, <2>1 DEF ClearTimer, registry, Registered
<1>8. CASE Count
  BY <1>8 DEF Count, registry, Registered
<1>9. CASE UNCHANGED vars
  BY <1>9 DEF vars, registry, Registered
<1> QED
  BY <1>1, <1>2, <1>3, <1>4, <1>5, <1>6, <1>7, <1>8, <1>9 DEF Next, Vector

\* An interrupt that comes to the timer, or to nobody, has been offered to every
\* registered handler, for every number of clients and every order in which they
\* registered and removed their handlers.
THEOREM EveryoneOffered == Spec => []Offered
<1>1. Init => DispatchInv
  BY DEF Init, DispatchInv
<1>2. TableInv /\ DispatchInv => Offered
  BY AllPassed DEF Offered, DispatchInv
<1> QED
  BY InitTable, TableStep, DispatchStep, <1>1, <1>2, PTL DEF Spec

-----------------------------------------------------------------------------
(* The period.                                                             *)

ClockInv ==
  /\ cnt \in Nat /\ clk \in 0 .. ClockSize - 1
  /\ total \in Nat
  /\ cnt = 0 => lastClk = 0 /\ periodSum = 0
  /\ cnt > 0 /\ ~sawZero =>
       /\ lastClk = clk /\ clk # 0
       /\ period = IF cnt = 1 THEN 0 ELSE elapsed
       /\ periodSum = total

\* A number below the clock's size, and one turn more, is itself modulo the size.
LEMMA Turn ==
  ASSUME NEW n \in Nat \ {0}, NEW x \in 0 .. n - 1
  PROVE  x % n = x /\ (x + n) % n = x
OBVIOUS

\* The wrapping difference of two readings is the time between them.
LEMMA Difference ==
  ASSUME NEW n \in Nat \ {0}, NEW c \in 0 .. n - 1, NEW t \in 0 .. n - 1
  PROVE  /\ (c + t) % n \in 0 .. n - 1
         /\ (((c + t) % n) + n - c) % n = t
<1>1. CASE c + t < n
  <2> DEFINE x == c + t
  <2>1. x \in 0 .. n - 1 /\ x + n - c = t + n
    BY <1>1
  <2>2. x % n = x
    BY <2>1, Turn
  <2>3. ((x % n) + n - c) % n = (t + n) % n
    BY <2>1, <2>2
  <2>4. (t + n) % n = t
    BY Turn
  <2> HIDE DEF x
  <2>5. x % n \in 0 .. n - 1 /\ ((x % n) + n - c) % n = t
    BY <2>1, <2>2, <2>3, <2>4
  <2> QED
    BY <2>5 DEF x
<1>2. CASE c + t >= n
  <2>1. c + t - n \in 0 .. n - 1 /\ c + t = (c + t - n) + n
    BY <1>2
  <2>2. (c + t) % n = c + t - n
    BY <2>1, Turn
  <2>3. ((c + t) % n) + n - c = t
    BY <2>2
  <2> QED
    BY <2>1, <2>2, <2>3, Turn
<1> QED
  BY <1>1, <1>2

\* Every step keeps PERIOD and PERIOD_SUM what the elapsed times say.
LEMMA ClockStep == ClockInv /\ [Next]_vars => ClockInv'
<1> SUFFICES ASSUME ClockInv, [Next]_vars
             PROVE  ClockInv'
  OBVIOUS
<1> USE HandlersAssumption
<1>1. CASE Count
  <2>1. PICK t \in 0 .. ClockSize - 1 :
          /\ clk' = (clk + t) % ClockSize
          /\ elapsed' = t
          /\ total' = IF cnt = 0 THEN 0 ELSE (total + t) % ClockSize
    BY <1>1 DEF Count
  <2>2. /\ cnt' = cnt + 1 /\ lastClk' = clk'
        /\ period' = IF lastClk # 0 THEN (clk' + ClockSize - lastClk) % ClockSize ELSE 0
        /\ periodSum' = (periodSum + period') % ClockSize
    BY <1>1 DEF Count, Period
  <2> DEFINE zero == clk' = 0
  <2>7. ~sawZero' => ~sawZero /\ ~zero
    <3>1. sawZero' = (sawZero \/ zero)
      BY <1>1 DEF Count
    <3> HIDE DEF zero
    <3> QED
      BY <3>1, Zenon
  <2>3. clk' \in 0 .. ClockSize - 1 /\ (clk' + ClockSize - clk) % ClockSize = t
    BY <2>1, Difference DEF ClockInv
  <2>4. total' \in Nat
    BY <2>1 DEF ClockInv
  <2>5. CASE cnt = 0
    <3>1. period' = 0 /\ periodSum' = 0 % ClockSize /\ total' = 0
      BY <2>1, <2>2, <2>5 DEF ClockInv
    <3>2. periodSum' = 0
      BY <3>1, Turn
    <3> QED
      BY <2>1, <2>2, <2>3, <2>4, <2>5, <2>7, <3>1, <3>2 DEF ClockInv
  <2>6. CASE cnt # 0
    <3>1. ASSUME ~sawZero
          PROVE  period' = t /\ periodSum' = total'
      <4>1. lastClk = clk /\ lastClk # 0 /\ periodSum = total
        BY <2>6, <3>1 DEF ClockInv
      <4>2. period' = t
        BY <2>2, <2>3, <4>1
      <4> QED
        BY <2>1, <2>2, <2>6, <4>1, <4>2
    <3> QED
      BY <2>1, <2>2, <2>3, <2>4, <2>6, <2>7, <3>1 DEF ClockInv
  <2> QED
    BY <2>5, <2>6
<1>2. CASE ~Count
  <2>1. UNCHANGED clock
    BY <1>2 DEF Next, vars, Register, Remove, TimerInit, Event, Tick, Interrupt, Vector, Skip,
       Decline, Claim, Ignore, ClearTimer, ClearAgain
  <2> QED
    BY <2>1 DEF clock, ClockInv
<1> QED
  BY <1>1, <1>2

\* PERIOD and PERIOD_SUM are the elapsed times, whatever the width of the clock and
\* wherever it wraps, unless a reading was exactly 0.
THEOREM PeriodMeasured == Spec => []PeriodElapsed
<1>1. Init => ClockInv
  BY HandlersAssumption DEF Init, ClockInv
<1>2. ClockInv => PeriodElapsed
  BY DEF ClockInv, PeriodElapsed
<1> QED
  BY ClockStep, <1>1, <1>2, PTL DEF Spec

-----------------------------------------------------------------------------
(* The pins.                                                               *)

Banks == {Bank(p) : p \in Pins}

\* What the program has read and will write back.
OpenedType ==
  \/ opened = Idle
  \/ /\ opened.reg = "select" /\ opened.pin \in OwnPins
     /\ opened.value \in [Pins -> Functions]
  \/ /\ opened.reg \in Kinds /\ opened.pin \in OwnPins
     /\ opened.value \in SUBSET Pins

TypeInv ==
  /\ fsel \in [Pins -> Functions]
  /\ detect \in [Kinds -> SUBSET Pins]
  /\ typed \in [Pins -> Functions \cup {Unset}]
  /\ wanted \in [Kinds -> SUBSET Pins]
  /\ last \in [Kinds -> [Banks -> Pins \cup {Unset}]]
  /\ OpenedType

\* q's owner counts on the detection of edges of kind k.
Counts(q, k) == q \in wanted[k] /\ last[k][Bank(q)] = q /\ <<q, k>> \notin lost

\* It is on, ...
DetectInv == \A k \in Kinds, q \in Pins : Counts(q, k) => q \in detect[k]

\* ... and will be when the program has written back what it read; so it is with
\* the function.
OpenedInv ==
  /\ opened.reg = "select" =>
       \A q \in InSelect(opened.pin) :
         typed[q] # Unset /\ <<q, "select">> \notin lost => opened.value[q] = typed[q]
  /\ opened.reg \in Kinds =>
       \A q \in InBank(opened.pin) : Counts(q, opened.reg) => q \in opened.value

Inv == TypeInv /\ FunctionKept /\ DetectInv /\ OpenedInv /\ EventsReported

-----------------------------------------------------------------------------
\* At first no pin has a type and nothing is detected.
LEMMA InitInv == GpioInit => Inv
<1> SUFFICES ASSUME GpioInit
             PROVE  Inv
  OBVIOUS
<1> USE GpioAssumption DEF GpioInit, Idle
<1>1. TypeInv
  BY DEF TypeInv, OpenedType, Banks
<1>2. FunctionKept /\ EventsReported
  BY DEF FunctionKept, EventsReported
<1>3. DetectInv
  BY DEF DetectInv, Counts
<1>4. OpenedInv
  BY DEF OpenedInv
<1> QED
  BY <1>1, <1>2, <1>3, <1>4 DEF Inv

\* Changing a pin's register makes no other pin lost, or found; it makes the pin
\* itself lost exactly if the program is about to overrule it.
LEMMA ChangeOne ==
  ASSUME NEW p \in Pins, NEW r, Change(p, r)
  PROVE  /\ \A q \in Pins : \A s : <<q, s>> # <<p, r>> => (<<q, s>> \in lost' <=> <<q, s>> \in lost)
         /\ opened.reg = r /\ r = "select" /\ p \in InSelect(opened.pin) => <<p, r>> \in lost'
         /\ opened.reg = r /\ r # "select" /\ p \in InBank(opened.pin) => <<p, r>> \in lost'
BY DEF Change

\* Setting a function.
LEMMA IntoStep == ASSUME Inv, NEW p \in Pins, NEW f \in Functions, Into(p, f) PROVE Inv'
<1> USE GpioAssumption DEF Inv, Into
<1>1. fsel' = [fsel EXCEPT ![p] = f] /\ typed' = [typed EXCEPT ![p] = f]
  BY DEF TypeInv, Selected, InSelect
<1>2. TypeInv'
  BY <1>1 DEF TypeInv, OpenedType
<1>3. \A q \in Pins : q # p => (<<q, "select">> \in lost' <=> <<q, "select">> \in lost)
  BY ChangeOne
<1>4. FunctionKept'
  BY <1>1, <1>3 DEF FunctionKept, TypeInv
<1>5. \A k \in Kinds, q \in Pins : Counts(q, k)' <=> Counts(q, k)
  BY ChangeOne DEF Counts
<1>6. DetectInv'
  BY <1>5 DEF DetectInv
<1>7. OpenedInv'
  <2>1. ASSUME opened.reg = "select", NEW q \in InSelect(opened.pin),
               typed'[q] # Unset, <<q, "select">> \notin lost'
        PROVE  opened.value[q] = typed'[q]
    <3>1. q # p
      BY <2>1, ChangeOne
    <3> QED
      BY <1>1, <1>3, <2>1, <3>1 DEF OpenedInv, InSelect, TypeInv
  <2>2. ASSUME opened.reg \in Kinds, NEW q \in InBank(opened.pin), Counts(q, opened.reg)'
        PROVE  q \in opened.value
    BY <1>5, <2>2 DEF OpenedInv, InBank
  <2> QED
    BY <2>1, <2>2 DEF OpenedInv
<1>8. EventsReported'
  BY DEF EventsReported
<1> QED
  BY <1>2, <1>4, <1>6, <1>7, <1>8

\* Switching a detection on.
LEMMA EnableStep == ASSUME Inv, NEW p \in Pins, NEW k \in Kinds, Enable(p, k) PROVE Inv'
<1> USE GpioAssumption DEF Inv, Enable
<1>1. TypeInv'
  BY DEF TypeInv, OpenedType, Detected, InBank, Banks
<1>2. \A q \in Pins : <<q, "select">> \in lost' <=> <<q, "select">> \in lost
  BY ChangeOne
<1>3. ASSUME NEW q \in Pins, NEW j \in Kinds, Counts(q, j)', <<q, j>> # <<p, k>>
      PROVE  Counts(q, j) /\ (j = k => q \notin InBank(p))
  <2>1. <<q, j>> \notin lost
    BY <1>3, ChangeOne DEF Counts
  <2>2. Bank(q) \in Banks
    BY DEF Banks
  <2> QED
    BY <1>3, <2>1, <2>2 DEF Counts, TypeInv, InBank
<1>4. ASSUME NEW q \in Pins, NEW j \in Kinds, Counts(q, j)'
      PROVE  q \in detect'[j]
  <2>1. CASE <<q, j>> = <<p, k>>
    BY <2>1 DEF Detected, TypeInv
  <2>2. CASE <<q, j>> # <<p, k>>
    BY <1>3, <1>4, <2>2 DEF Detected, TypeInv, DetectInv
  <2> QED
    BY <2>1, <2>2
<1>5. OpenedInv'
  <2>1. ASSUME opened.reg \in Kinds, NEW q \in InBank(opened.pin), Counts(q, opened.reg)'
        PROVE  q \in opened.value
    <3>1. q \in Pins /\ <<q, opened.reg>> # <<p, k>>
      BY <2>1, ChangeOne DEF InBank, Counts
    <3> QED
      BY <1>3, <2>1, <3>1 DEF OpenedInv
  <2>2. ASSUME opened.reg = "select", NEW q \in InSelect(opened.pin),
               typed'[q] # Unset, <<q, "select">> \notin lost'
        PROVE  opened.value[q] = typed'[q]
    BY <1>2, <2>2 DEF OpenedInv, InSelect
  <2> QED
    BY <2>1, <2>2 DEF OpenedInv
<1>6. FunctionKept' /\ EventsReported'
  BY <1>2 DEF FunctionKept, EventsReported
<1> QED
  BY <1>1, <1>4, <1>5, <1>6 DEF DetectInv

\* Switching a detection off.
LEMMA DisableStep == ASSUME Inv, NEW p \in Pins, NEW k \in Kinds, Disable(p, k) PROVE Inv'
<1> USE GpioAssumption DEF Inv, Disable
<1>1. detect' = [detect EXCEPT ![k] = @ \ {p}]
  BY DEF Undetected, InBank, TypeInv
<1>2. TypeInv'
  BY <1>1 DEF TypeInv, OpenedType
<1>3. \A q \in Pins : <<q, "select">> \in lost' <=> <<q, "select">> \in lost
  BY ChangeOne
<1>4. ASSUME NEW q \in Pins, NEW j \in Kinds, Counts(q, j)'
      PROVE  Counts(q, j) /\ <<q, j>> # <<p, k>>
  <2>1. <<q, j>> # <<p, k>>
    BY <1>4 DEF Counts, TypeInv
  <2> QED
    BY <1>4, <2>1, ChangeOne DEF Counts, TypeInv
<1>5. DetectInv'
  BY <1>1, <1>4 DEF DetectInv, TypeInv
<1>6. OpenedInv'
  BY <1>3, <1>4 DEF OpenedInv, InBank, InSelect
<1>7. FunctionKept' /\ EventsReported'
  BY <1>3 DEF FunctionKept, EventsReported
<1> QED
  BY <1>2, <1>5, <1>6, <1>7

\* The operations of a pin.
LEMMA OperationStep == ASSUME Inv, NEW p \in Pins, Operation(p) PROVE Inv'
<1>1. CASE \E f \in Functions : Into(p, f)
  BY <1>1, IntoStep
<1>2. CASE Erase(p)
  <2>1. TypeInv'
    BY <1>2 DEF Inv, Erase, TypeInv, OpenedType
  <2>2. FunctionKept' /\ OpenedInv'
    BY <1>2 DEF Inv, Erase, TypeInv, FunctionKept, OpenedInv, Counts, InSelect, InBank
  <2> QED
    BY <1>2, <2>1, <2>2 DEF Inv, Erase, DetectInv, Counts, EventsReported
<1>3. CASE \E bit \in BOOLEAN : Write(p, bit)
  BY <1>3 DEF Inv, Write, TypeInv, OpenedType, FunctionKept, DetectInv, OpenedInv, Counts,
              EventsReported
<1>4. CASE \E k \in Kinds : Enable(p, k) \/ Disable(p, k)
  BY <1>4, EnableStep, DisableStep
<1>5. CASE Clear(p)
  BY <1>5 DEF Inv, Clear, TypeInv, OpenedType, FunctionKept, DetectInv, OpenedInv, Counts,
              EventsReported
<1> QED
  BY <1>1, <1>2, <1>3, <1>4, <1>5 DEF Operation

\* Reading a register that is to be written back.
LEMMA OpenStep ==
  ASSUME Inv, NEW p \in OwnPins, OpenSelect(p) \/ \E k \in Kinds : OpenDetect(p, k)
  PROVE  Inv'
<1> USE GpioAssumption
<1>1. CASE OpenSelect(p)
  BY <1>1 DEF OpenSelect, Inv, TypeInv, OpenedType, FunctionKept, DetectInv, OpenedInv, Counts,
              EventsReported, InSelect
<1>2. ASSUME NEW k \in Kinds, OpenDetect(p, k)
      PROVE  Inv'
  BY <1>2 DEF OpenDetect, Inv, TypeInv, OpenedType, FunctionKept, DetectInv, OpenedInv, Counts,
              EventsReported, InBank
<1> QED
  BY <1>1, <1>2

\* Writing a function select register back.
LEMMA CloseSelectStep == ASSUME Inv, CloseSelect PROVE Inv'
<1> USE GpioAssumption DEF Inv, CloseSelect, Idle
<1>1. opened.pin \in Pins /\ opened.value \in [Pins -> Functions]
  BY DEF TypeInv, OpenedType
<1>2. TypeInv'
  BY <1>1 DEF TypeInv, OpenedType, Selected, InSelect
<1>3. ASSUME NEW q \in Pins, typed'[q] # Unset, <<q, "select">> \notin lost
      PROVE  fsel'[q] = typed'[q]
  BY <1>1, <1>3 DEF TypeInv, Selected, OpenedInv, FunctionKept, InSelect
<1>4. DetectInv' /\ OpenedInv' /\ EventsReported'
  BY DEF DetectInv, OpenedInv, EventsReported, Counts
<1> QED
  BY <1>2, <1>3, <1>4 DEF FunctionKept

\* Writing a detection register back.
LEMMA CloseDetectStep == ASSUME Inv, CloseDetect PROVE Inv'
<1> USE GpioAssumption DEF Inv, CloseDetect, Idle
<1>1. opened.pin \in Pins /\ opened.value \in SUBSET Pins
  BY DEF TypeInv, OpenedType
<1>2. TypeInv'
  BY <1>1 DEF TypeInv, OpenedType, Undetected, InBank
<1>3. ASSUME NEW q \in Pins, NEW j \in Kinds, Counts(q, j)'
      PROVE  q \in detect'[j]
  <2>1. Counts(q, j) /\ <<q, j>> # <<opened.pin, opened.reg>>
    BY <1>1, <1>3 DEF Counts, TypeInv
  <2>2. q \in detect[j]
    BY <2>1 DEF DetectInv
  <2> QED
    BY <1>1, <2>1, <2>2 DEF TypeInv, Undetected, InBank, OpenedInv
<1>4. OpenedInv' /\ EventsReported' /\ FunctionKept'
  BY DEF OpenedInv, EventsReported, FunctionKept
<1> QED
  BY <1>2, <1>3, <1>4 DEF DetectInv

\* An edge that is due is detected.
LEMMA EdgeStep == ASSUME Inv, NEW p \in Pins, NEW k \in Kinds, Edge(p, k) PROVE Inv'
<1>1. EventsReported'
  BY DEF Inv, Edge, EventsReported, DetectInv, Counts
<1> QED
  BY <1>1 DEF Inv, Edge, TypeInv, OpenedType, FunctionKept, DetectInv, OpenedInv, Counts

-----------------------------------------------------------------------------
\* The invariant is inductive.
LEMMA GpioStep == Inv /\ [GpioNext]_pinVars => Inv'
<1> SUFFICES ASSUME Inv, [GpioNext]_pinVars
             PROVE  Inv'
  OBVIOUS
<1>1. OwnPins \subseteq Pins /\ HandlerPins \subseteq Pins
  BY GpioAssumption DEF HandlerPins
<1>2. CASE UNCHANGED pinVars
  BY <1>2 DEF pinVars, Inv, TypeInv, OpenedType, FunctionKept, DetectInv, OpenedInv,
              Counts, EventsReported
<1>3. CASE GpioNext
  BY <1>1, <1>3, OperationStep, OpenStep, CloseSelectStep, CloseDetectStep, EdgeStep
     DEF GpioNext, ProgramOperation
<1> QED
  BY <1>2, <1>3

LEMMA Inductive == GpioSpec => []Inv
BY GpioStep, InitInv, PTL DEF GpioSpec

\* A pin's type says its function, however registers are shared, but for a handler
\* that sets one while the program sets another one outside critical sections.
THEOREM FunctionsKept == GpioSpec => []FunctionKept
<1>1. Inv => FunctionKept
  BY DEF Inv
<1> QED
  BY <1>1, Inductive, PTL

\* The last pin of a bank that asked for edges is told of each, for every way the
\* operations of program and handler fall.
THEOREM EdgesReported == GpioSpec => []EventsReported
<1>1. Inv => EventsReported
  BY DEF Inv
<1> QED
  BY <1>1, Inductive, PTL

-----------------------------------------------------------------------------
(* The pins while the software UART writes.                                *)

\* The program of the UART does not begin to modify a register that a handler can
\* come to in between.
UartPinsInv == Inv /\ (sw # "pins" => opened = Idle)

LEMMA SetUpStep ==
  ASSUME Inv, opened = Idle, SetUp
  PROVE  Inv'
<1> USE GpioAssumption, UartAssumption
<1>1. UartPin \in Pins /\ "Output" \in Functions
  OBVIOUS
<1>2. /\ fsel' = Selected(UartPin, "Output", fsel)
      /\ typed' = [typed EXCEPT ![UartPin] = "Output"]
      /\ UNCHANGED <<detect, gpeds, opened, wanted, last, due, lost>>
  BY DEF SetUp
<1>3. TypeInv'
  BY <1>1, <1>2 DEF Inv, TypeInv, OpenedType, Selected
<1>4. FunctionKept'
  <2>1. ASSUME NEW q \in Pins
        PROVE  fsel'[q] = IF q = UartPin THEN "Output" ELSE fsel[q]
    BY <1>1, <1>2 DEF Selected, InSelect
  <2>2. ASSUME NEW q \in Pins
        PROVE  typed'[q] = IF q = UartPin THEN "Output" ELSE typed[q]
    BY <1>1, <1>2 DEF Inv, TypeInv
  <2> QED
    BY <1>2, <2>1, <2>2 DEF Inv, FunctionKept
<1>5. DetectInv' /\ OpenedInv' /\ EventsReported'
  BY <1>2 DEF Inv, DetectInv, Counts, OpenedInv, EventsReported, Idle
<1> QED
  BY <1>3, <1>4, <1>5 DEF Inv

LEMMA UartPinsStep == UartPinsInv /\ [UartNext]_uartVars => UartPinsInv'
<1> SUFFICES ASSUME UartPinsInv, [UartNext]_uartVars
             PROVE  UartPinsInv'
  OBVIOUS
<1>1. CASE SetUp
  BY <1>1, SetUpStep DEF UartPinsInv, SetUp
<1>2. CASE UsePins
  BY <1>2, GpioStep DEF UartPinsInv, UsePins
<1>3. CASE Drive
  <2>1. /\ UNCHANGED <<fsel, detect, gpeds, opened, typed, wanted, last, due, lost>>
        /\ sw = "drive" /\ sw' = "until"
    BY <1>3 DEF Drive, DriveTo
  <2> QED
    BY <2>1 DEF UartPinsInv, Inv, TypeInv, OpenedType, FunctionKept, DetectInv, OpenedInv, Counts,
                EventsReported
<1>4. CASE Interrupted
  <2>1. UNCHANGED pinVars \/ \E p \in HandlerPins : Operation(p)
    BY <1>4 DEF Interrupted
  <2>2. Inv' /\ opened' = opened
    <3>1. CASE UNCHANGED pinVars
      BY <3>1, GpioStep DEF UartPinsInv, pinVars
    <3>2. CASE \E p \in HandlerPins : Operation(p)
      BY <3>2, GpioStep DEF UartPinsInv, GpioNext, Operation, Into, Erase, Write, Enable, Disable,
                            Clear
    <3> QED
      BY <2>1, <3>1, <3>2
  <2> QED
    BY <1>4, <2>2 DEF UartPinsInv, Interrupted
<1>5. CASE Begin \/ Until \/ Delay \/ Spin \/ Delayed \/ UNCHANGED uartVars
  <2>1. UNCHANGED pinVars /\ (sw = "pins" => sw' = "pins")
    BY <1>5 DEF Begin, Until, Delay, Spin, Delayed, uartVars
  <2> QED
    BY <2>1, GpioStep DEF UartPinsInv, pinVars
<1> QED
  BY <1>1, <1>2, <1>3, <1>4, <1>5 DEF UartNext

\* The UART's pin stays an output, and other pins keep function and events: whatever
\* handlers do while write waits, for every set of pins and way to share registers.
THEOREM PinsKept == UartSpec => [](FunctionKept /\ EventsReported)
<1>1. UartInit => UartPinsInv
  BY InitInv DEF UartInit, UartPinsInv, GpioInit
<1>2. UartPinsInv => FunctionKept /\ EventsReported
  BY DEF UartPinsInv, Inv
<1> QED
  BY <1>1, <1>2, UartPinsStep, PTL DEF UartSpec

-----------------------------------------------------------------------------
(* Readings of a counter that wraps.                                       *)

LEMMA Euclid ==
  ASSUME NEW n \in Nat \ {0}, NEW x \in Int
  PROVE  x % n \in 0 .. n - 1 /\ x \div n \in Int /\ x = n * (x \div n) + (x % n)
OBVIOUS

\* The quotient and the remainder are the only ones.
LEMMA Division ==
  ASSUME NEW n \in Nat \ {0}, NEW x \in Int, NEW q \in Int, NEW r \in 0 .. n - 1, x = n * q + r
  PROVE  x % n = r /\ x \div n = q
<1> DEFINE k == x \div n
           s == x % n
<1>1. k \in Int /\ s \in 0 .. n - 1 /\ x = n * k + s
  BY Euclid
<1> HIDE DEF k, s
<1>2. CASE k >= q + 1
  <2>1. n * k >= n * (q + 1)
    BY <1>1, <1>2
  <2>2. n * (q + 1) = n * q + n
    OBVIOUS
  <2> QED
    BY <1>1, <2>1, <2>2
<1>3. CASE k + 1 <= q
  <2>1. n * q >= n * (k + 1)
    BY <1>1, <1>3
  <2>2. n * (k + 1) = n * k + n
    BY <1>1
  <2> QED
    BY <1>1, <2>1, <2>2
<1>4. CASE k = q
  BY <1>1, <1>4 DEF s, k
<1> QED
  BY <1>1, <1>2, <1>3, <1>4

LEMMA Remainder ==
  ASSUME NEW n \in Nat \ {0}, NEW x \in Int, NEW q \in Int, NEW r \in 0 .. n - 1, x = n * q + r
  PROVE  x % n = r
BY Division

LEMMA RemainderSum ==
  ASSUME NEW n \in Nat \ {0}, NEW a \in Int, NEW b \in Int
  PROVE  ((a % n) + b) % n = (a + b) % n
<1> DEFINE k == a \div n
           s == a % n
           l == (a + b) \div n
           r == (a + b) % n
<1>1. k \in Int /\ s \in 0 .. n - 1 /\ a = n * k + s
  BY Euclid
<1>2. l \in Int /\ r \in 0 .. n - 1 /\ a + b = n * l + r
  <2>1. a + b \in Int
    OBVIOUS
  <2> QED
    BY <2>1, Euclid
<1> HIDE DEF k, s, l, r
<1>3. n * (l - k) = n * l - n * k /\ l - k \in Int /\ s + b \in Int
  BY <1>1, <1>2
<1>4. s + b = n * (l - k) + r
  BY <1>1, <1>2, <1>3
<1>5. (s + b) % n = r
  BY <1>2, <1>3, <1>4, Remainder
<1> QED
  BY <1>5 DEF s, r

\* The wrapping difference is the difference, or one turn more.
LEMMA RemainderDifference ==
  ASSUME NEW n \in Nat \ {0}, NEW a \in Int, NEW b \in Int
  PROVE  /\ a - b \in 0 .. n - 1 => ((a % n) - (b % n)) % n = a - b
         /\ a - b \in - n .. -1 => ((a % n) - (b % n)) % n = (a - b) + n
<1> DEFINE k == a \div n
           s == a % n
           l == b \div n
           r == b % n
<1>1. k \in Int /\ s \in 0 .. n - 1 /\ a = n * k + s
  BY Euclid
<1>2. l \in Int /\ r \in 0 .. n - 1 /\ b = n * l + r
  BY Euclid
<1> HIDE DEF k, s, l, r
<1>3. /\ n * (l - k) = n * l - n * k /\ l - k \in Int /\ s - r \in Int
      /\ n * (l - k - 1) = n * l - n * k - n /\ l - k - 1 \in Int
  BY <1>1, <1>2
<1>4. s - r = n * (l - k) + (a - b) /\ s - r = n * (l - k - 1) + ((a - b) + n)
  BY <1>1, <1>2, <1>3
<1>5. a - b \in 0 .. n - 1 => (s - r) % n = a - b
  BY <1>3, <1>4, Remainder
<1>6. ASSUME a - b \in - n .. -1
      PROVE  (s - r) % n = (a - b) + n
  <2>1. (a - b) + n \in 0 .. n - 1
    BY <1>6
  <2> QED
    BY <1>3, <1>4, <2>1, Remainder
<1> QED
  BY <1>5, <1>6 DEF s, r

-----------------------------------------------------------------------------
(* The time of the bits.                                                   *)

Program == {"pins", "unset", "ready", "drive", "until", "delay", "spin", "done", "panicked"}

PaceType ==
  /\ sw \in Program
  /\ offset \in Nat /\ first \in Nat /\ now \in Nat /\ edge \in Nat
  /\ late \in Int /\ before \in Nat /\ taken \in Nat /\ worst \in Nat
  /\ desired \in Int /\ cycles \in Int /\ start \in Int

\* Before write begins.
Fresh == sw \in {"pins", "unset", "ready"} => edge = 0 /\ late = 0 /\ before = 0 /\ worst = 0

\* No interrupts between two bits have taken a third of the counter's range.
Brief == worst <= CounterSize \div 3 /\ taken <= CounterSize \div 3

\* The time of the next bit.
Ideal == first + edge * BitTime

\* Since the last bit only interrupts have taken time; its deadline is ahead as long as
\* they have not taken what was left of the bit.
Waiting == now - Ideal = late + taken - BitTime

\* The delay loop has spun since time s, as often as it has not been interrupted.
Spinning(s) ==
  LET spins == now - Ideal - (late + taken - BitTime)
  IN /\ start = (offset + s) % CounterSize
     /\ s <= now /\ Ideal <= s + cycles
     /\ spins \in Nat /\ spins <= cycles /\ spins <= now - s /\ now - s <= spins + taken

Timed ==
  /\ late \in Nat /\ late <= before /\ before <= worst
  /\ sw \in {"drive", "until", "delay", "spin"} => desired = (offset + Ideal) % CounterSize
  /\ sw = "drive" => now - Ideal \in 0 .. taken
  /\ sw = "until" => Waiting
  /\ sw \in {"delay", "spin"} => cycles \in Nat /\ late + cycles <= BitTime
  /\ sw = "delay" => Waiting /\ Ideal <= now + cycles
  /\ sw = "spin" => \E s \in Nat : Spinning(s)
  /\ sw = "panicked" => before + taken > BitTime

PaceInv == PaceType /\ Fresh /\ (Brief => Timed)

LEMMA Sizes ==
  /\ CounterSize \in Nat \ {0} /\ BitTime \in Nat \ {0}
  /\ (CounterSize - 1) \div 3 \in Nat /\ CounterSize \div 3 \in Nat
  /\ BitTime < (CounterSize - 1) \div 3
  /\ (CounterSize - 1) \div 3 <= CounterSize \div 3
  /\ 3 * (CounterSize \div 3) <= CounterSize
BY UartAssumption

LEMMA IdealType ==
  ASSUME PaceType
  PROVE  Ideal \in Nat
<1>1. first \in Nat /\ edge \in Nat /\ BitTime \in Nat
  BY Sizes DEF PaceType
<1>2. edge * BitTime \in Nat
  BY <1>1
<1> QED
  BY <1>1, <1>2 DEF Ideal

LEMMA PaceTypeStep ==
  ASSUME PaceType, [UartNext]_uartVars
  PROVE  PaceType'
<1> USE DEF call, pace, wait, time, receiver
<1>0. /\ CounterSize \in Nat \ {0} /\ BitTime \in Nat \ {0} /\ Durations \subseteq Nat
      /\ edge * BitTime \in Int
  BY Sizes, UartAssumption DEF PaceType
<1>1. CASE SetUp
  BY <1>1 DEF PaceType, Program, SetUp
<1>2. CASE Begin
  <2>1. Read \in Int
    BY <1>0 DEF PaceType, Read
  <2> QED
    BY <1>2, <2>1 DEF PaceType, Program, Begin
<1>3. CASE Drive
  <2>1. WrappingAdd(desired, BitTime) \in Int
    BY <1>0 DEF PaceType, WrappingAdd
  <2>2. now - (first + edge * BitTime) \in Int
    BY <1>0 DEF PaceType
  <2> QED
    BY <1>3, <2>1, <2>2 DEF PaceType, Program, Drive, DriveTo
<1>4. CASE Until
  <2>1. WrappingSub(desired, Read) \in Int
    BY <1>0 DEF PaceType, WrappingSub, Read
  <2> QED
    BY <1>4, <2>1 DEF PaceType, Program, Until
<1>5. CASE Delay
  <2>1. Read \in Int
    BY <1>0 DEF PaceType, Read
  <2> QED
    BY <1>5, <2>1 DEF PaceType, Program, Delay
<1>6. CASE Spin
  BY <1>6 DEF PaceType, Spin, Pass
<1>7. CASE Delayed
  BY <1>7 DEF PaceType, Program, Delayed
<1>8. CASE UsePins \/ UNCHANGED uartVars
  BY <1>8 DEF PaceType, UsePins, uartVars
<1>9. CASE Interrupted
  <2>1. PICK d \in Durations : Pass(d) /\ taken' = taken + d
    BY <1>9 DEF Interrupted
  <2> QED
    BY <1>0, <1>9, <2>1 DEF PaceType, Interrupted, Pass
<1> QED
  BY <1>1, <1>2, <1>3, <1>4, <1>5, <1>6, <1>7, <1>8, <1>9 DEF UartNext

\* The wait is shorter than a bit unless the deadline has passed, and then it looks
\* like most of the counter's range.
LEMMA UntilStep ==
  ASSUME PaceType, Timed, Brief, Until
  PROVE  Timed'
<1> USE DEF call, pace, wait, time, receiver
<1> DEFINE C == CounterSize
           left == Ideal - now
           M == (C - 1) \div 3
           H == C \div 3
<1>1. /\ Ideal \in Nat /\ now \in Nat /\ offset \in Nat /\ late \in Nat /\ taken \in Nat
      /\ before \in Nat /\ worst \in Nat /\ BitTime \in Nat /\ C \in Nat \ {0}
      /\ M \in Nat /\ H \in Nat /\ BitTime < M /\ M <= H /\ 3 * H <= C
      /\ late <= before /\ before <= worst /\ worst <= H /\ taken <= H
  BY IdealType, Sizes DEF PaceType, Timed, Brief
<1>2. desired = (offset + Ideal) % C /\ now - Ideal = late + taken - BitTime
  BY DEF Timed, Until, Waiting
<1>3. cycles' = (((offset + Ideal) % C) - ((offset + now) % C)) % C
  BY <1>2 DEF Until, WrappingSub, Read
<1>4. /\ sw' = IF cycles' < M THEN "delay" ELSE "panicked"
      /\ UNCHANGED <<offset, first, edge, desired, late, before, worst, now, taken>>
  BY DEF Until
<1>5. Ideal' = Ideal
  BY <1>4 DEF Ideal
<1> HIDE DEF C, left, M, H
<1>6. left \in Int /\ left = BitTime - late - taken /\ left = (offset + Ideal) - (offset + now)
      /\ offset + Ideal \in Int /\ offset + now \in Int
  BY <1>1, <1>2 DEF left
<1>7. CASE left >= 0
  <2>1. left \in 0 .. C - 1
    BY <1>1, <1>6, <1>7
  <2>2. cycles' = left
    BY <1>1, <1>3, <1>6, <2>1, RemainderDifference
  <2>3. left \in Nat /\ late + left <= BitTime /\ Ideal <= now + left /\ left < M
    BY <1>1, <1>6, <1>7 DEF left
  <2>4. sw' = "delay"
    BY <1>4, <2>2, <2>3
  <2>5. Waiting' /\ desired' = (offset' + Ideal') % CounterSize
    BY <1>2, <1>4, <1>5 DEF Waiting, C
  <2>6. cycles' \in Nat /\ late' + cycles' <= BitTime /\ Ideal' <= now' + cycles'
    BY <1>4, <1>5, <2>2, <2>3
  <2>7. late' \in Nat /\ late' <= before' /\ before' <= worst'
    BY <1>1, <1>4
  <2> QED
    BY <2>4, <2>5, <2>6, <2>7 DEF Timed
<1>8. CASE left < 0
  <2>1. left \in - C .. -1 /\ left + C >= M
    BY <1>1, <1>6, <1>8
  <2>2. cycles' = left + C
    <3>1. (offset + Ideal) - (offset + now) \in - C .. -1
      BY <1>6, <2>1
    <3>2. (((offset + Ideal) % C) - ((offset + now) % C)) % C
            = ((offset + Ideal) - (offset + now)) + C
      BY <1>1, <1>6, <3>1, RemainderDifference
    <3> QED
      BY <1>3, <1>6, <3>2
  <2>3. sw' = "panicked"
    <3>1. ~(cycles' < M)
      BY <1>1, <1>6, <2>1, <2>2
    <3> QED
      BY <1>4, <3>1
  <2>4. before + taken > BitTime
    BY <1>1, <1>6, <1>8
  <2> QED
    BY <1>1, <1>4, <2>3, <2>4 DEF Timed
<1> QED
  BY <1>6, <1>7, <1>8

LEMMA DriveStep ==
  ASSUME PaceType, Timed, Drive
  PROVE  Timed'
<1> USE DEF call, pace, wait, time, receiver
<1>1. /\ Ideal \in Nat /\ now \in Nat /\ offset \in Nat /\ taken \in Nat /\ worst \in Nat
      /\ first \in Nat /\ edge \in Nat /\ BitTime \in Nat /\ CounterSize \in Nat \ {0}
  BY IdealType, Sizes DEF PaceType
<1>2. /\ desired = (offset + Ideal) % CounterSize /\ now - Ideal \in 0 .. taken
      /\ desired' = (desired + BitTime) % CounterSize
      /\ edge' = edge + 1 /\ late' = now - Ideal /\ before' = taken /\ taken' = 0
      /\ worst' = IF taken > worst THEN taken ELSE worst
      /\ sw' = "until" /\ UNCHANGED <<offset, first, now>>
  BY DEF Drive, DriveTo, WrappingAdd, Timed, Ideal
<1>3. Ideal' = Ideal + BitTime
  <2>1. (edge + 1) * BitTime = edge * BitTime + BitTime /\ edge * BitTime \in Nat
    BY <1>1
  <2> QED
    BY <1>1, <1>2, <2>1 DEF Ideal
<1>4. desired' = ((offset + Ideal) + BitTime) % CounterSize
  <2>1. offset + Ideal \in Int /\ BitTime \in Int
    BY <1>1
  <2> QED
    BY <1>1, <1>2, <2>1, RemainderSum
<1>5. (offset + Ideal) + BitTime = offset + (Ideal + BitTime)
  BY <1>1
<1>6. Waiting'
  BY <1>1, <1>2, <1>3 DEF Waiting
<1>7. /\ late' \in Nat /\ late' <= before' /\ before' <= worst'
  BY <1>1, <1>2
<1> QED
  BY <1>2, <1>3, <1>4, <1>5, <1>6, <1>7 DEF Timed

LEMMA DelayStep ==
  ASSUME PaceType, Timed, Delay
  PROVE  Timed'
<1> USE DEF call, pace, wait, time, receiver
<1>1. /\ Ideal \in Nat /\ now \in Nat /\ late \in Nat /\ taken \in Nat /\ BitTime \in Nat
      /\ cycles \in Nat
  BY IdealType, Sizes DEF PaceType, Timed, Delay
<1>2. /\ sw = "delay" /\ sw' = "spin" /\ start' = (offset + now) % CounterSize
      /\ UNCHANGED <<offset, first, edge, desired, late, before, worst, cycles, now, taken>>
  BY DEF Delay, Read
<1>3. now - Ideal = late + taken - BitTime /\ Ideal <= now + cycles
  BY <1>2 DEF Timed, Waiting
<1>4. Ideal' = Ideal
  BY <1>2 DEF Ideal
<1>5. Spinning(now)'
  <2>1. now - Ideal - (late + taken - BitTime) = 0 /\ now - now = 0
    BY <1>1, <1>3
  <2> QED
    BY <1>1, <1>2, <1>3, <1>4, <2>1 DEF Spinning
<1>6. \E s \in Nat : Spinning(s)'
  BY <1>1, <1>2, <1>5
<1>7. desired' = (offset' + Ideal') % CounterSize
  <2>1. desired = (offset + Ideal) % CounterSize
    BY <1>2 DEF Timed
  <2> QED
    BY <1>2, <1>4, <2>1
<1>8. /\ late' \in Nat /\ late' <= before' /\ before' <= worst'
      /\ cycles' \in Nat /\ late' + cycles' <= BitTime
  BY <1>2 DEF Timed
<1> QED
  BY <1>2, <1>6, <1>7, <1>8 DEF Timed

\* While the loop spins the counter does not wrap.
LEMMA SpinTime ==
  ASSUME PaceType, Timed, Brief, sw = "spin", NEW s \in Nat, Spinning(s)
  PROVE  WrappingSub(Read, start) = now - s /\ now - s \in Nat
<1> DEFINE C == CounterSize
           H == C \div 3
           spins == now - Ideal - (late + taken - BitTime)
<1>1. /\ now \in Nat /\ offset \in Nat /\ late \in Nat /\ taken \in Nat /\ BitTime \in Nat
      /\ C \in Nat \ {0} /\ H \in Nat /\ 3 * H <= C /\ BitTime < H /\ taken <= H
      /\ cycles \in Nat /\ late + cycles <= BitTime
  BY Sizes DEF PaceType, Timed, Brief
<1>2. /\ start = (offset + s) % C /\ s <= now /\ spins \in Nat /\ spins <= cycles
      /\ now - s <= spins + taken
  BY DEF Spinning
<1>3. WrappingSub(Read, start) = (((offset + now) % C) - ((offset + s) % C)) % C
  BY <1>2 DEF WrappingSub, Read
<1> HIDE DEF C, H, spins
<1>4. /\ (offset + now) - (offset + s) = now - s /\ now - s \in 0 .. C - 1
      /\ offset + now \in Int /\ offset + s \in Int /\ now - s \in Nat
  BY <1>1, <1>2
<1> QED
  BY <1>1, <1>3, <1>4, RemainderDifference

LEMMA SpinStep ==
  ASSUME PaceType, Timed, Brief, Spin
  PROVE  Timed'
<1> USE DEF call, pace, wait, time, receiver
<1>1. /\ Ideal \in Nat /\ now \in Nat /\ late \in Nat /\ taken \in Nat /\ BitTime \in Nat
      /\ cycles \in Nat
  BY IdealType, Sizes DEF PaceType, Timed, Spin
<1>2. PICK s \in Nat : Spinning(s)
  BY DEF Timed, Spin
<1>3. /\ sw = "spin" /\ sw' = "spin" /\ now' = now + 1 /\ WrappingSub(Read, start) < cycles
      /\ UNCHANGED <<offset, first, edge, desired, late, before, worst, cycles, start, taken>>
  BY DEF Spin, Pass
<1>4. now - s < cycles
  BY <1>2, <1>3, SpinTime
<1>5. Ideal' = Ideal
  BY <1>3 DEF Ideal
<1>6. Spinning(s)'
  <2> DEFINE spins == now - Ideal - (late + taken - BitTime)
  <2>1. /\ start = (offset + s) % CounterSize /\ s <= now /\ Ideal <= s + cycles
        /\ spins \in Nat /\ spins <= cycles /\ spins <= now - s /\ now - s <= spins + taken
    BY <1>2 DEF Spinning
  <2>2. now' - Ideal' - (late' + taken' - BitTime) = spins + 1
    BY <1>1, <1>3, <1>5
  <2>3. start' = (offset' + s) % CounterSize /\ Ideal' <= s + cycles'
    BY <1>3, <1>5, <2>1
  <2> HIDE DEF spins
  <2>4. /\ s <= now' /\ spins + 1 \in Nat /\ spins + 1 <= cycles'
        /\ spins + 1 <= now' - s /\ now' - s <= spins + 1 + taken'
    BY <1>1, <1>3, <1>4, <2>1
  <2> QED
    BY <2>2, <2>3, <2>4 DEF Spinning
<1>7. \E r \in Nat : Spinning(r)'
  BY <1>6
<1>8. desired' = (offset' + Ideal') % CounterSize
  <2>1. desired = (offset + Ideal) % CounterSize
    BY <1>3 DEF Timed
  <2> QED
    BY <1>3, <1>5, <2>1
<1>9. /\ late' \in Nat /\ late' <= before' /\ before' <= worst'
      /\ cycles' \in Nat /\ late' + cycles' <= BitTime
  BY <1>3 DEF Timed
<1> QED
  BY <1>3, <1>7, <1>8, <1>9 DEF Timed

\* The loop ends when the next bit is due.
LEMMA DelayedTime ==
  ASSUME PaceType, Timed, Brief, Delayed
  PROVE  now - Ideal \in 0 .. taken
<1>1. /\ Ideal \in Nat /\ now \in Nat /\ late \in Nat /\ taken \in Nat /\ BitTime \in Nat
      /\ cycles \in Nat /\ late + cycles <= BitTime
  BY IdealType, Sizes DEF PaceType, Timed, Delayed
<1>2. PICK s \in Nat : Spinning(s)
  BY DEF Timed, Delayed
<1>3. sw = "spin" /\ WrappingSub(Read, start) >= cycles
  BY DEF Delayed
<1>4. now - s >= cycles
  BY <1>2, <1>3, SpinTime
<1> DEFINE spins == now - Ideal - (late + taken - BitTime)
<1>5. Ideal <= s + cycles /\ spins \in Nat /\ spins <= cycles
  BY <1>2 DEF Spinning
<1>6. now - Ideal >= 0
  BY <1>1, <1>4, <1>5
<1>7. now - Ideal <= taken
  BY <1>1, <1>5
<1> QED
  BY <1>1, <1>6, <1>7

LEMMA DelayedStep ==
  ASSUME PaceType, Timed, Brief, Delayed
  PROVE  Timed'
<1> USE DEF call, pace, wait, time, receiver
<1>1. /\ sw = "spin" /\ sw' \in {"drive", "done"}
      /\ UNCHANGED <<offset, first, edge, desired, late, before, worst, cycles, start, now, taken>>
  BY DEF Delayed
<1>2. Ideal' = Ideal
  BY <1>1 DEF Ideal
<1>3. now - Ideal \in 0 .. taken
  BY DelayedTime
<1>4. desired = (offset + Ideal) % CounterSize
  BY <1>1 DEF Timed
<1> QED
  BY <1>1, <1>2, <1>3, <1>4 DEF Timed

LEMMA InterruptedStep ==
  ASSUME PaceType, Timed, Interrupted
  PROVE  Timed'
<1> USE DEF call, pace, wait, time, receiver
<1>1. /\ Ideal \in Nat /\ now \in Nat /\ taken \in Nat /\ BitTime \in Nat
      /\ late \in Nat /\ before \in Nat
  BY IdealType, Sizes DEF PaceType, Timed
<1>2. PICK d \in Durations : now' = now + d /\ taken' = taken + d
  BY DEF Interrupted, Pass
<1>3. d \in Nat
  BY UartAssumption
<1>4. /\ sw \notin {"pins", "unset", "done", "panicked"}
      /\ UNCHANGED <<sw, offset, first, edge, desired, late, before, worst, cycles, start>>
  BY DEF Interrupted
<1>5. Ideal' = Ideal
  BY <1>4 DEF Ideal
<1>6. now - Ideal \in 0 .. taken => now' - Ideal' \in 0 .. taken'
  BY <1>1, <1>2, <1>3, <1>5
<1>7. Waiting => Waiting'
  BY <1>1, <1>2, <1>3, <1>4, <1>5 DEF Waiting
<1>8. ASSUME cycles \in Nat
      PROVE  Ideal <= now + cycles => Ideal' <= now' + cycles'
  BY <1>1, <1>2, <1>3, <1>4, <1>5, <1>8
<1>9. ASSUME cycles \in Nat, NEW s \in Nat, Spinning(s)
      PROVE  Spinning(s)'
  <2> DEFINE spins == now - Ideal - (late + taken - BitTime)
  <2>1. /\ start = (offset + s) % CounterSize /\ s <= now /\ Ideal <= s + cycles
        /\ spins \in Nat /\ spins <= cycles /\ spins <= now - s /\ now - s <= spins + taken
    BY <1>9 DEF Spinning
  <2>2. now' - Ideal' - (late' + taken' - BitTime) = spins
    BY <1>1, <1>2, <1>3, <1>4, <1>5
  <2>3. start' = (offset' + s) % CounterSize /\ Ideal' <= s + cycles'
    BY <1>4, <1>5, <2>1
  <2> HIDE DEF spins
  <2>4. /\ s <= now' /\ spins \in Nat /\ spins <= cycles'
        /\ spins <= now' - s /\ now' - s <= spins + taken'
    BY <1>1, <1>2, <1>3, <1>4, <2>1
  <2> QED
    BY <2>2, <2>3, <2>4 DEF Spinning
<1>10. late' \in Nat /\ late' <= before' /\ before' <= worst'
  BY <1>4 DEF Timed
<1>11. sw = "spin" => \E s \in Nat : Spinning(s)'
  BY <1>9 DEF Timed
<1> QED
  BY <1>4, <1>5, <1>6, <1>7, <1>8, <1>10, <1>11 DEF Timed

LEMMA PaceStep == PaceInv /\ [UartNext]_uartVars => PaceInv'
<1> SUFFICES ASSUME PaceInv, [UartNext]_uartVars
             PROVE  PaceInv'
  OBVIOUS
<1> USE DEF call, pace, wait, time, receiver
<1>1. PaceType /\ PaceType'
  BY PaceTypeStep DEF PaceInv
<1>2. Fresh'
  BY DEF PaceInv, Fresh, UartNext, SetUp, Begin, Drive, DriveTo, Until, Delay, Spin, Delayed,
         UsePins, Interrupted, uartVars
<1>3. CASE sw' \in {"pins", "unset", "ready"}
  BY <1>1, <1>2, <1>3 DEF PaceInv, Fresh, Timed
<1>4. CASE Begin
  <2>1. /\ sw' \in {"drive", "done"} /\ desired' = (offset + now) % CounterSize
        /\ first' = now /\ taken' = 0
        /\ UNCHANGED <<offset, edge, late, before, worst, now>>
        /\ edge = 0 /\ late = 0 /\ before = 0 /\ worst = 0 /\ now \in Nat
    BY <1>1, <1>4 DEF Begin, Read, PaceInv, Fresh, PaceType
  <2>2. Ideal' = now
    <3>1. 0 * BitTime = 0
      BY Sizes
    <3> QED
      BY <2>1, <3>1 DEF Ideal
  <2>3. Timed'
    BY <2>1, <2>2 DEF Timed
  <2> QED
    BY <1>1, <1>2, <2>3 DEF PaceInv
<1>5. CASE sw' \notin {"pins", "unset", "ready"} /\ ~Begin
  <2> SUFFICES ASSUME Brief'
               PROVE  Timed'
    BY <1>1, <1>2 DEF PaceInv
  <2>1. Brief
    <3>1. taken <= worst' \/ taken <= taken'
      <4>1. CASE Drive
        BY <1>1, <4>1 DEF Drive, DriveTo, PaceType
      <4>2. CASE Interrupted
        <5>1. PICK d \in Durations : taken' = taken + d
          BY <4>2 DEF Interrupted
        <5>2. d \in Nat
          BY UartAssumption
        <5> QED
          BY <1>1, <5>1, <5>2 DEF PaceType
      <4>3. CASE ~Drive /\ ~Interrupted
        <5>1. taken' = taken
          BY <1>5, <4>3 DEF UartNext, SetUp, Until, Delay, Spin, Delayed, UsePins, uartVars
        <5> QED
          BY <1>1, <5>1 DEF PaceType
      <4> QED
        BY <4>1, <4>2, <4>3
    <3>2. worst <= worst'
      <4>1. worst' = worst \/ (worst' = IF taken > worst THEN taken ELSE worst)
        BY DEF UartNext, SetUp, Begin, Drive, DriveTo, Until, Delay, Spin, Delayed,
               UsePins, Interrupted, uartVars
      <4> QED
        BY <1>1, <4>1 DEF PaceType
    <3> QED
      BY <1>1, <3>1, <3>2, Sizes DEF Brief, PaceType
  <2>2. Timed
    BY <2>1 DEF PaceInv
  <2>3. CASE Drive \/ Until \/ Delay \/ Spin \/ Delayed \/ Interrupted
    BY <1>1, <2>1, <2>2, <2>3, DriveStep, UntilStep, DelayStep, SpinStep, DelayedStep,
       InterruptedStep
  <2>4. CASE SetUp \/ UsePins \/ UNCHANGED uartVars
    <3>1. UNCHANGED <<sw, call, pace, wait, time>>
      BY <1>5, <2>4 DEF SetUp, UsePins, uartVars
    <3> QED
      BY <2>2, <3>1 DEF Timed, Waiting, Spinning, Ideal
  <2> QED
    BY <1>5, <2>3, <2>4 DEF UartNext
<1> QED
  BY <1>3, <1>4, <1>5

LEMMA InitPace == UartInit => PaceInv
<1> SUFFICES ASSUME UartInit
             PROVE  PaceInv
  OBVIOUS
<1>1. PaceType /\ Fresh
  BY UartAssumption DEF UartInit, PaceType, Program, Fresh
<1>2. Timed
  BY DEF UartInit, Timed
<1> QED
  BY <1>1, <1>2 DEF PaceInv

\* For every bit time, width and reading of the counter, message and choice of interrupts:
\* as long as interrupts have not taken a third of the counter's range between two bits,
\* no bit is early, none is later than the interrupts before it, and write panics only
\* if they took longer than a bit.
THEOREM BitsPaced == UartSpec => [](Brief => Paced)
<1>1. PaceInv => (Brief => Paced)
  <2> SUFFICES ASSUME PaceType, Timed
               PROVE  Paced
    BY DEF PaceInv
  <2> QED
    BY DEF PaceType, Timed, Paced
<1> QED
  BY <1>1, InitPace, PaceStep, PTL DEF UartSpec

-----------------------------------------------------------------------------
(* What a receiver gets.                                                   *)

\* Interrupts have never put two bits half a bit apart.
Clean == 2 * worst < BitTime /\ 2 * taken < BitTime

Writing == sw \notin {"pins", "unset"}

\* The line has the level of the last bit, whatever handlers do.
LineInv ==
  /\ level \in [Pins -> BOOLEAN]
  /\ Writing =>
       fsel[UartPin] = "Output" /\ (level[UartPin] <=> edge = 0 \/ Level(edge - 1))

\* How many bits there are to drive.
EdgeInv ==
  /\ bytes \in Messages /\ Bits \in Nat
  /\ Writing => edge <= Bits
  /\ sw = "drive" => edge < Bits
  /\ sw = "done" => edge = Bits

ReceiverType ==
  /\ frames \in Nat /\ began \in Int /\ samples \in Seq(BOOLEAN)
  /\ edge = 0 => frames = 0 /\ samples = <<>>

\* The first bit of the frame, and the time at which the last bit is sampled.
Base == (frames - 1) * FrameLength
SampledAt == began + Middle + (edge - 1 - Base) * BitTime

\* The last bit is one of the frame that the receiver sees, which it saw begin not half a
\* bit late; it is sampled after it is driven and before the next one is.
FrameInv ==
  edge > 0 =>
    /\ frames > 0 /\ Base <= edge - 1 /\ edge - 1 < Base + FrameLength
    /\ first + Base * BitTime <= began /\ 2 * (began - (first + Base * BitTime)) < BitTime
    /\ Len(samples) = IF now < SampledAt THEN edge - 1 ELSE edge
    /\ sw = "done" => now >= Ideal

\* Each sample is the bit it is for.
SampledInv == \A k \in 1 .. Len(samples) : samples[k] <=> Level(k - 1)

ReceiverInv == LineInv /\ EdgeInv /\ ReceiverType /\ (Clean => FrameInv /\ SampledInv)

LEMMA FrameSize ==
  /\ FrameLength \in Nat \ {0} /\ FrameLength > Width + 1 /\ Width \in Nat \ {0}
  /\ BitTime \in Nat \ {0} /\ Middle \in Nat \ {0}
  /\ 2 * Middle >= BitTime /\ 2 * Middle <= BitTime + 1
<1>1. Width \in Nat \ {0} /\ BitTime \in Nat \ {0}
  BY UartAssumption
<1> QED
  BY <1>1 DEF FrameLength, Middle

LEMMA Products ==
  ASSUME NEW b \in Nat, NEW i \in Int, NEW j \in Int
  PROVE  /\ i * b \in Int /\ (i + j) * b = i * b + j * b /\ 1 * b = b
         /\ i <= j => i * b <= j * b
<1>1. (i + j) * b = i * b + j * b /\ 1 * b = b /\ i * b \in Int /\ j * b \in Int
  OBVIOUS
<1>2. ASSUME i <= j
      PROVE  i * b <= j * b
  <2>1. j - i \in Nat /\ (j - i) * b \in Nat
    BY <1>2
  <2>2. (j - i) * b = j * b - i * b
    OBVIOUS
  <2> QED
    BY <1>1, <2>1, <2>2
<1> QED
  BY <1>1, <1>2

\* Sampling times come one bit time apart: those that have come are the first ones.
LEMMA SamplingTimes ==
  ASSUME NEW b \in Nat \ {0}, NEW a \in Int, NEW t \in Int, NEW q \in Nat, NEW c \in {q, q + 1},
         a + q * b <= t + b, t < a + q * b + b, c = q <=> t < a + q * b, NEW j \in Nat
  PROVE  a + j * b <= t <=> j < c
<1>1. q * b \in Int /\ c \in Nat /\ j * b \in Int
  OBVIOUS
<1>2. CASE j <= q - 1
  <2>1. j * b <= (q - 1) * b /\ (q - 1) * b = q * b - b
    <3>1. (q - 1) * b = q * b - b /\ q - 1 \in Int
      OBVIOUS
    <3> QED
      BY <1>2, <3>1, Products
  <2> QED
    BY <1>1, <1>2, <2>1
<1>3. CASE j = q
  BY <1>1, <1>3
<1>4. CASE j >= q + 1
  <2>1. j * b >= (q + 1) * b /\ (q + 1) * b = q * b + b
    <3>1. (q + 1) * b = q * b + b /\ q + 1 \in Int
      OBVIOUS
    <3> QED
      BY <1>4, <3>1, Products
  <2> QED
    BY <1>1, <1>4, <2>1
<1> QED
  BY <1>2, <1>3, <1>4

\* The same value several times.
LEMMA Constantly ==
  ASSUME NEW n \in Int, NEW v \in BOOLEAN
  PROVE  LET s == [k \in 1 .. n |-> v]
         IN s \in Seq(BOOLEAN) /\ Len(s) = IF n > 0 THEN n ELSE 0
<1> DEFINE m == IF n > 0 THEN n ELSE 0
<1>1. m \in Nat /\ 1 .. n = 1 .. m
  OBVIOUS
<1> HIDE DEF m
<1>2. [k \in 1 .. m |-> v] \in Seq(BOOLEAN) /\ Len([k \in 1 .. m |-> v]) = m
  BY <1>1
<1> QED
  BY <1>1, <1>2 DEF m

\* Interrupts that take less than half a bit between bits are brief.
LEMMA CleanBrief == ASSUME PaceType, Clean PROVE Brief
<1>1. worst \in Nat /\ taken \in Nat
  BY DEF PaceType
<1> QED
  BY <1>1, Sizes DEF Clean, Brief

LEMMA CleanBefore ==
  ASSUME PaceType, PaceType', [UartNext]_uartVars, ~Begin, Clean'
  PROVE  Clean
<1>1. taken <= worst' \/ taken <= taken'
  <2>1. CASE Drive
    BY <2>1 DEF Drive, DriveTo, PaceType
  <2>2. CASE Interrupted
    <3>1. PICK d \in Durations : taken' = taken + d
      BY <2>2 DEF Interrupted
    <3>2. d \in Nat
      BY UartAssumption
    <3> QED
      BY <3>1, <3>2 DEF PaceType
  <2>3. CASE ~Drive /\ ~Interrupted
    <3>1. taken' = taken
      BY <2>3 DEF UartNext, SetUp, Until, Delay, Spin, Delayed, UsePins, uartVars, time
    <3> QED
      BY <3>1 DEF PaceType
  <2> QED
    BY <2>1, <2>2, <2>3
<1>2. worst <= worst'
  <2>1. worst' = worst \/ (worst' = IF taken > worst THEN taken ELSE worst)
    BY DEF UartNext, SetUp, Begin, Drive, DriveTo, Until, Delay, Spin, Delayed,
           UsePins, Interrupted, uartVars, pace
  <2> QED
    BY <2>1 DEF PaceType
<1>3. taken \in Nat /\ taken' \in Nat /\ worst \in Nat /\ worst' \in Nat /\ BitTime \in Nat
  BY Sizes DEF PaceType
<1>4. 2 * worst' < BitTime /\ 2 * taken' < BitTime
  BY DEF Clean
<1>5. ASSUME NEW a \in Nat, NEW b \in Nat, NEW c \in Nat, a <= b, 2 * b < c
      PROVE  2 * a < c
  BY <1>5
<1>6. 2 * worst < BitTime
  BY <1>2, <1>3, <1>4, <1>5
<1>7. 2 * taken < BitTime
  BY <1>1, <1>3, <1>4, <1>5
<1> QED
  BY <1>6, <1>7 DEF Clean

\* Between two bits: not much later than the next one is due.
LEMMA Punctual ==
  PaceInv /\ Clean /\ sw \in {"drive", "until", "delay", "spin"} =>
    Ideal \in Nat /\ Ideal <= now + BitTime /\ now <= Ideal + taken
<1> SUFFICES ASSUME PaceInv, Clean, sw \in {"drive", "until", "delay", "spin"}
             PROVE  Ideal \in Nat /\ Ideal <= now + BitTime /\ now <= Ideal + taken
  OBVIOUS
<1>1. PaceType /\ Timed
  BY CleanBrief DEF PaceInv
<1>2. /\ Ideal \in Nat /\ now \in Nat /\ late \in Nat /\ taken \in Nat /\ BitTime \in Nat
      /\ worst \in Nat /\ before \in Nat /\ late <= worst /\ 2 * worst < BitTime
  BY <1>1, IdealType, Sizes DEF PaceType, Timed, Clean
<1>3. CASE sw = "drive"
  BY <1>1, <1>2, <1>3 DEF Timed
<1>4. CASE sw \in {"until", "delay"}
  BY <1>1, <1>2, <1>4 DEF Timed, Waiting
<1>5. CASE sw = "spin"
  <2>1. PICK s \in Nat : Spinning(s)
    BY <1>1, <1>5 DEF Timed
  <2>2. /\ now - Ideal - (late + taken - BitTime) \in Nat
        /\ now - Ideal - (late + taken - BitTime) <= cycles
    BY <2>1 DEF Spinning
  <2>3. cycles \in Nat /\ late + cycles <= BitTime
    BY <1>1, <1>5 DEF Timed
  <2> QED
    BY <1>2, <2>2, <2>3
<1> QED
  BY <1>3, <1>4, <1>5

\* The pin is driven by the program only: handlers have other pins.
LEMMA LineStep ==
  ASSUME PaceType, Fresh, LineInv, [UartNext]_uartVars
  PROVE  LineInv'
<1> USE GpioAssumption, UartAssumption DEF call, pace
<1>1. UartPin \in Pins /\ edge \in Nat /\ edge + 1 - 1 = edge /\ edge + 1 # 0
  BY DEF PaceType
<1>2. CASE SetUp
  <2>1. /\ fsel' = Selected(UartPin, "Output", fsel) /\ edge' = edge /\ edge = 0
        /\ level' = [level EXCEPT ![UartPin] = TRUE]
    BY <1>2 DEF SetUp, Fresh
  <2>2. level' \in [Pins -> BOOLEAN] /\ level'[UartPin]
    BY <1>1, <2>1 DEF LineInv
  <2>3. fsel'[UartPin] = "Output"
    BY <1>1, <2>1 DEF Selected, InSelect
  <2> QED
    BY <2>1, <2>2, <2>3 DEF LineInv
<1>3. CASE Drive
  <2>1. /\ level' = [level EXCEPT ![UartPin] = Level(edge)] /\ edge' = edge + 1
        /\ fsel' = fsel /\ bytes' = bytes /\ sw = "drive"
    BY <1>3 DEF Drive, DriveTo
  <2>2. Level(edge) \in BOOLEAN
    BY DEF Level
  <2>3. level' \in [Pins -> BOOLEAN] /\ level'[UartPin] = Level(edge)
    BY <1>1, <2>1, <2>2 DEF LineInv
  <2>4. Level(edge - 1)' <=> Level(edge)
    BY <1>1, <2>1 DEF Level
  <2> QED
    BY <1>1, <2>1, <2>3, <2>4 DEF LineInv, Writing
<1>4. CASE UsePins
  <2>1. sw' = "pins" /\ GpioNext
    BY <1>4 DEF UsePins
  <2>2. level' \in [Pins -> BOOLEAN]
    <3>1. level' = level \/ \E p \in Pins, bit \in BOOLEAN : level' = [level EXCEPT ![p] = bit]
      BY <2>1 DEF GpioNext, HandlerPins, ProgramOperation, Operation, Into, Erase, Write, Enable,
                  Disable, Clear, OpenSelect, OpenDetect, CloseSelect, CloseDetect, Edge
    <3> QED
      BY <3>1 DEF LineInv
  <2> QED
    BY <2>1, <2>2 DEF LineInv, Writing
<1>5. ASSUME bytes' = bytes, edge' = edge, Writing' => Writing, level' \in [Pins -> BOOLEAN],
             fsel'[UartPin] = fsel[UartPin], level'[UartPin] = level[UartPin]
      PROVE  LineInv'
  <2>1. Level(edge - 1)' <=> Level(edge - 1)
    BY <1>5 DEF Level
  <2> QED
    BY <1>5, <2>1 DEF LineInv
<1>6. CASE Interrupted
  <2>1. bytes' = bytes /\ edge' = edge /\ sw' = sw
    BY <1>6 DEF Interrupted
  <2>2. CASE UNCHANGED pinVars
    BY <1>5, <2>1, <2>2 DEF pinVars, LineInv, Writing
  <2>3. CASE \E p \in HandlerPins : Operation(p)
    <3>1. PICK p \in Pins : Operation(p) /\ p # UartPin
      BY <2>3 DEF HandlerPins
    <3>2. \/ fsel' = fsel
          \/ level' = level /\ \E f \in Functions : fsel' = Selected(p, f, fsel)
      BY <3>1 DEF Operation, Into, Erase, Write, Enable, Disable, Clear
    <3>3. fsel'[UartPin] = fsel[UartPin]
      BY <1>1, <3>1, <3>2 DEF Selected, InSelect
    <3>4. level' = level \/ \E bit \in BOOLEAN : level' = [level EXCEPT ![p] = bit]
      BY <3>1 DEF Operation, Into, Erase, Write, Enable, Disable, Clear
    <3>5. level' \in [Pins -> BOOLEAN] /\ level'[UartPin] = level[UartPin]
      BY <1>1, <3>1, <3>4 DEF LineInv
    <3> QED
      BY <1>5, <2>1, <3>3, <3>5 DEF Writing
  <2> QED
    BY <1>6, <2>2, <2>3 DEF Interrupted
<1>7. CASE Begin \/ Until \/ Delay \/ Spin \/ Delayed \/ UNCHANGED uartVars
  <2>1. UNCHANGED pinVars /\ bytes' = bytes /\ edge' = edge /\ (Writing' => Writing)
    BY <1>7 DEF Begin, Until, Delay, Spin, Delayed, uartVars, Writing
  <2> QED
    BY <1>5, <2>1 DEF pinVars, LineInv
<1> QED
  BY <1>2, <1>3, <1>4, <1>6, <1>7 DEF UartNext

\* write drives every bit of its argument and no more.
LEMMA CountStep ==
  ASSUME PaceType, Fresh, EdgeInv, [UartNext]_uartVars
  PROVE  EdgeInv'
<1> USE DEF call, pace
<1>1. bytes' = bytes /\ edge \in Nat /\ Bits \in Nat /\ bytes \in Seq(Nat)
  <2>1. bytes' = bytes
    BY DEF UartNext, SetUp, Begin, Drive, DriveTo, Until, Delay, Spin, Delayed, UsePins,
           Interrupted, uartVars
  <2> QED
    BY <2>1, UartAssumption DEF EdgeInv, PaceType
<1>2. Bits' = Bits
  BY <1>1 DEF Bits
<1>3. CASE Begin
  <2>1. /\ sw = "ready" /\ edge' = edge /\ sw' = IF bytes = <<>> THEN "done" ELSE "drive"
        /\ edge = 0
    BY <1>3 DEF Begin, Fresh
  <2>2. CASE bytes = <<>>
    <3>1. Bits = 0
      BY <2>2, FrameSize DEF Bits
    <3> QED
      BY <1>1, <1>2, <2>1, <2>2, <3>1 DEF EdgeInv
  <2>3. CASE bytes # <<>>
    <3>1. Len(bytes) \in Nat /\ 1 <= Len(bytes)
      BY <1>1, <2>3
    <3>2. 1 * FrameLength <= Len(bytes) * FrameLength /\ 1 * FrameLength = FrameLength
      BY <3>1, FrameSize, Products
    <3>3. 0 < Bits
      BY <3>2, <1>1, FrameSize DEF Bits
    <3> QED
      BY <1>1, <1>2, <2>1, <2>3, <3>3 DEF EdgeInv
  <2> QED
    BY <2>2, <2>3
<1>4. CASE Drive
  <2>1. sw = "drive" /\ sw' = "until" /\ edge' = edge + 1
    BY <1>4 DEF Drive, DriveTo
  <2> QED
    BY <1>1, <1>2, <2>1 DEF EdgeInv
<1>5. CASE Delayed
  <2>1. sw = "spin" /\ edge' = edge /\ sw' = IF edge < Bits THEN "drive" ELSE "done"
    BY <1>5 DEF Delayed
  <2> QED
    BY <1>1, <1>2, <2>1 DEF EdgeInv, Writing
<1>6. CASE SetUp \/ Until \/ Delay \/ Spin \/ UsePins \/ Interrupted \/ UNCHANGED uartVars
  <2>1. edge' = edge /\ (sw' = sw \/ sw' \in {"ready", "delay", "spin", "panicked"})
    BY <1>6 DEF SetUp, Until, Delay, Spin, UsePins, Interrupted, uartVars
  <2>2. sw = "pins" \/ sw = "unset" => edge = 0
    BY DEF Fresh
  <2> QED
    BY <1>1, <1>2, <2>1, <2>2 DEF EdgeInv, Writing
<1> QED
  BY <1>3, <1>4, <1>5, <1>6 DEF UartNext

\* Time that passes adds samples of the line as it is.
LEMMA PassSamples ==
  ASSUME PaceType, ReceiverType, NEW d \in Nat, Pass(d)
  PROVE  LET n == SamplesBy(now + d) - Len(samples)
         IN /\ n \in Int /\ samples' \in Seq(BOOLEAN)
            /\ Len(samples') = IF n > 0 THEN Len(samples) + n ELSE Len(samples)
            /\ \A k \in 1 .. Len(samples) : samples'[k] = samples[k]
            /\ \A k \in 1 .. Len(samples') : k > Len(samples) => (samples'[k] <=> LineHigh)
<1> DEFINE n == SamplesBy(now + d) - Len(samples)
           l == Len(samples)
           more == [k \in 1 .. n |-> LineHigh]
           S == {j \in 0 .. FrameLength - 1 : began + Middle + j * BitTime <= now + d}
<1>1. samples \in Seq(BOOLEAN) /\ l \in Nat /\ frames \in Nat /\ FrameLength \in Nat
  BY FrameSize DEF ReceiverType
<1>2. Cardinality(S) \in Nat
  <2>1. IsFiniteSet(0 .. FrameLength - 1)
    BY <1>1, FS_Interval
  <2>2. S \subseteq 0 .. FrameLength - 1
    OBVIOUS
  <2> QED
    BY <2>1, <2>2, FS_Subset, FS_CardinalityType
<1>3. n \in Int
  <2>1. SamplesBy(now + d) = IF ~InFrame THEN l ELSE (frames - 1) * FrameLength + Cardinality(S)
    BY DEF SamplesBy
  <2> HIDE DEF S
  <2>2. (frames - 1) * FrameLength \in Int
    BY <1>1
  <2> QED
    BY <1>1, <1>2, <2>1, <2>2
<1>4. LineHigh \in BOOLEAN
  BY DEF LineHigh
<1> HIDE DEF n
<1>5. more \in Seq(BOOLEAN) /\ Len(more) = IF n > 0 THEN n ELSE 0
  BY <1>3, <1>4, Constantly
<1>6. \A k \in 1 .. n : more[k] = LineHigh
  OBVIOUS
<1>7. samples' = samples \o more
  BY DEF Pass, n
<1> HIDE DEF more, l
<1>8. /\ samples' \in Seq(BOOLEAN) /\ Len(samples') = l + Len(more)
      /\ \A k \in 1 .. l + Len(more) : samples'[k] = IF k <= l THEN samples[k] ELSE more[k - l]
  BY <1>1, <1>5, <1>7, ConcatProperties DEF l
<1>9. Len(samples') = IF n > 0 THEN l + n ELSE l
  BY <1>1, <1>3, <1>5, <1>8
<1>10. \A k \in 1 .. l : samples'[k] = samples[k]
  BY <1>1, <1>3, <1>5, <1>8
<1>11. ASSUME NEW k \in 1 .. Len(samples'), k > l
       PROVE  samples'[k] = LineHigh
  <2>1. n > 0 /\ k - l \in 1 .. n
    BY <1>1, <1>3, <1>9, <1>11
  <2>2. samples'[k] = more[k - l]
    BY <1>1, <1>3, <1>5, <1>8, <1>9, <1>11, <2>1
  <2> QED
    BY <1>6, <2>1, <2>2
<1> QED
  BY <1>3, <1>8, <1>9, <1>10, <1>11 DEF n, l

\* A bit of a frame.
LEMMA LevelAt ==
  ASSUME NEW f \in Nat, NEW place \in 0 .. FrameLength - 1
  PROVE  Level(f * FrameLength + place) <=>
           place = FrameLength - 1 \/ (place \in 1 .. Width /\ Bit(bytes[f + 1], place))
<1> DEFINE k == f * FrameLength + place
<1>1. k \in Int /\ k = FrameLength * f + place /\ f \in Int
  BY FrameSize
<1> HIDE DEF k
<1>2. k % FrameLength = place /\ k \div FrameLength = f
  BY <1>1, FrameSize, Division
<1>3. Level(k) <=> place = FrameLength - 1 \/ (place \in 1 .. Width /\ Bit(bytes[f + 1], place))
  BY <1>2 DEF Level
<1> QED
  BY <1>3 DEF k

\* The last bit is sampled before the next one is due, and the next one later than
\* interrupts may keep it from being driven.
LEMMA FrameTimes ==
  ASSUME PaceType, ReceiverType, FrameInv, edge > 0, NEW x \in Nat, 2 * x < BitTime
  PROVE  /\ edge - 1 - Base \in 0 .. FrameLength - 1 /\ Base \in Int /\ SampledAt \in Int
         /\ SampledAt <= Ideal /\ Ideal + x < SampledAt + BitTime
<1> DEFINE q == edge - 1 - Base
           b == BitTime
<1>1. /\ edge \in Nat /\ frames \in Nat /\ began \in Int /\ first \in Nat
      /\ FrameLength \in Nat /\ Middle \in Nat /\ b \in Nat
      /\ 2 * Middle >= b /\ 2 * Middle <= b + 1
  BY FrameSize DEF PaceType, ReceiverType
<1>2. Base \in Int
  BY <1>1 DEF Base
<1>3. /\ Base <= edge - 1 /\ edge - 1 < Base + FrameLength
      /\ first + Base * b <= began /\ 2 * (began - (first + Base * b)) < b
  BY DEF FrameInv
<1>4. q \in 0 .. FrameLength - 1 /\ q \in Int /\ Base + (q + 1) = edge /\ q + 1 \in Int
  BY <1>1, <1>2, <1>3
<1>5. Ideal = first + edge * b /\ SampledAt = began + Middle + q * b
  BY DEF Ideal, SampledAt
<1> HIDE DEF q, b
<1>6. (Base + (q + 1)) * b = Base * b + (q + 1) * b /\ (q + 1) * b = q * b + 1 * b /\ 1 * b = b
      /\ Base * b \in Int /\ q * b \in Int
  BY <1>1, <1>2, <1>4, Products
<1>7. edge * b = Base * b + q * b + b
  BY <1>1, <1>4, <1>6
<1>8. SampledAt <= Ideal /\ SampledAt \in Int
  BY <1>1, <1>3, <1>5, <1>6, <1>7
<1>9. Ideal + x < SampledAt + b
  <2>1. 2 * x < b
    BY DEF b
  <2> QED
    BY <1>1, <1>3, <1>5, <1>6, <1>7, <2>1
<1> QED
  BY <1>2, <1>4, <1>8, <1>9 DEF q, b

LEMMA ReceiverTypeStep ==
  ASSUME PaceType, PaceType', Fresh, ReceiverType, [UartNext]_uartVars
  PROVE  ReceiverType'
<1> USE DEF call, pace, wait, time, receiver
<1>1. CASE Drive
  <2>1. now \in Int /\ edge' = edge + 1 /\ edge \in Nat /\ samples' = samples
        /\ (<<frames', began'>> = <<frames + 1, now>> \/ UNCHANGED <<frames, began>>)
    BY <1>1 DEF Drive, DriveTo, PaceType
  <2> QED
    BY <2>1 DEF ReceiverType
<1>2. ASSUME NEW d \in Nat, Pass(d), edge' = edge
      PROVE  ReceiverType'
  <2>1. frames' = frames /\ began' = began
    BY <1>2 DEF Pass
  <2>2. samples' \in Seq(BOOLEAN)
    BY <1>2, PassSamples
  <2>3. ASSUME edge = 0
        PROVE  samples' = <<>>
    <3>1. frames = 0 /\ samples = <<>> /\ Len(samples) = 0
      BY <2>3 DEF ReceiverType
    <3>2. ~InFrame
      BY <3>1, FrameSize DEF InFrame
    <3>3. SamplesBy(now + d) - Len(samples) = 0
      BY <3>1, <3>2 DEF SamplesBy
    <3>4. Len(samples') = 0
      BY <1>2, <3>1, <3>3, PassSamples
    <3> QED
      BY <2>2, <3>4
  <2> QED
    BY <1>2, <2>1, <2>2, <2>3 DEF ReceiverType
<1>3. CASE Spin
  BY <1>2, <1>3 DEF Spin
<1>4. CASE Interrupted
  <2>1. PICK d \in Durations : Pass(d)
    BY <1>4 DEF Interrupted
  <2> QED
    BY <1>2, <1>4, <2>1, UartAssumption DEF Interrupted
<1>5. CASE SetUp \/ Begin \/ Until \/ Delay \/ Delayed \/ UsePins \/ UNCHANGED uartVars
  <2>1. UNCHANGED <<frames, began, samples, edge>>
    BY <1>5 DEF SetUp, Begin, Until, Delay, Delayed, UsePins, uartVars
  <2> QED
    BY <2>1 DEF ReceiverType
<1> QED
  BY <1>1, <1>3, <1>4, <1>5 DEF UartNext

\* When time passes the last bit is sampled if its time comes, and no other.
LEMMA PassStep ==
  ASSUME PaceInv, PaceInv', ReceiverInv, Clean, Clean', NEW d \in Nat, Pass(d),
         sw \in {"ready", "drive", "until", "delay", "spin"}, UNCHANGED <<sw, bytes, edge, first>>
  PROVE  FrameInv' /\ SampledInv'
<1> DEFINE l == Len(samples)
           n == SamplesBy(now + d) - l
<1>1. /\ PaceType /\ PaceType' /\ ReceiverType /\ FrameInv /\ SampledInv /\ LineInv /\ Fresh
      /\ now \in Nat /\ edge \in Nat /\ taken \in Nat /\ l \in Nat /\ frames \in Nat
  BY DEF PaceInv, ReceiverInv, PaceType, ReceiverType
<1>2. now' = now + d /\ frames' = frames /\ began' = began
  BY DEF Pass
<1>3. /\ n \in Int /\ Len(samples') = IF n > 0 THEN l + n ELSE l
      /\ \A k \in 1 .. l : samples'[k] = samples[k]
      /\ \A k \in 1 .. Len(samples') : k > l => (samples'[k] <=> LineHigh)
  BY <1>1, PassSamples
<1>4. Level(edge - 1)' <=> Level(edge - 1)
  BY DEF Level
<1>5. \A k \in 1 .. l : Level(k - 1)' <=> Level(k - 1)
  BY DEF Level
<1>6. CASE edge = 0
  <2>1. frames = 0 /\ samples = <<>> /\ l = 0
    BY <1>1, <1>6 DEF ReceiverType
  <2>2. ~InFrame
    BY <2>1, FrameSize DEF InFrame
  <2>3. n = 0
    BY <2>1, <2>2 DEF SamplesBy
  <2>4. Len(samples') = 0
    BY <1>3, <2>1, <2>3
  <2> QED
    BY <1>6, <2>4 DEF FrameInv, SampledInv
<1>7. CASE edge > 0
  <2>1. sw \in {"drive", "until", "delay", "spin"} /\ sw # "done"
    BY <1>1, <1>7 DEF Fresh
  <2>2. Ideal <= now + BitTime /\ Ideal \in Nat
    BY <2>1, Punctual
  <2>3. now' <= Ideal' + taken'
    <3>1. (PaceInv /\ Clean /\ sw \in {"drive", "until", "delay", "spin"} =>
             Ideal \in Nat /\ Ideal <= now + BitTime /\ now <= Ideal + taken)'
      BY Punctual, PTL
    <3> QED
      BY <2>1, <3>1
  <2>4. Ideal' = Ideal /\ Base' = Base /\ SampledAt' = SampledAt
    BY <1>2 DEF Ideal, Base, SampledAt
  <2>5. /\ edge - 1 - Base \in 0 .. FrameLength - 1 /\ Base \in Int /\ SampledAt \in Int
        /\ SampledAt <= Ideal
    BY <1>1, <1>7, FrameTimes DEF Clean
  <2>6. now' < SampledAt + BitTime
    <3>1. 2 * taken' < BitTime /\ taken' \in Nat
      BY <1>1 DEF Clean, PaceType
    <3>2. Ideal + taken' < SampledAt + BitTime
      BY <1>1, <1>7, <3>1, FrameTimes
    <3>3. now' <= Ideal + taken'
      BY <2>3, <2>4
    <3>4. /\ now' \in Int /\ Ideal \in Int /\ SampledAt \in Int /\ taken' \in Int
          /\ BitTime \in Int
      BY <1>1, <1>2, <2>2, <2>5, <3>1, FrameSize
    <3>5. ASSUME NEW t \in Int, NEW i \in Int, NEW k \in Int, NEW x \in Int, NEW b \in Int,
                 i + x < k + b, t <= i + x
          PROVE  t < k + b
      BY <3>5
    <3> QED
      BY <3>2, <3>3, <3>4, <3>5
  <2>7. l = IF now < SampledAt THEN edge - 1 ELSE edge
    BY <1>7 , <1>1 DEF FrameInv
  <2>8. Len(samples') = IF now' < SampledAt THEN edge - 1 ELSE edge
    <3>1. CASE InFrame
      <4> DEFINE a == began + Middle
                 q == edge - 1 - Base
                 t == now + d
                 S == {j \in 0 .. FrameLength - 1 : a + j * BitTime <= t}
      <4>1. /\ a \in Int /\ t \in Int /\ q \in 0 .. FrameLength - 1 /\ FrameLength \in Nat
            /\ BitTime \in Nat \ {0} /\ SampledAt = a + q * BitTime
        BY <1>1, <2>5, FrameSize DEF ReceiverType, SampledAt
      <4>2. SamplesBy(t) = Base + Cardinality(S)
        BY <3>1 DEF SamplesBy, Base
      <4>7. \A j : j \in S <=> j \in 0 .. FrameLength - 1 /\ a + j * BitTime <= t
        OBVIOUS
      <4> HIDE DEF a, q, t, S
      <4>3. a + q * BitTime <= t + BitTime /\ t < a + q * BitTime + BitTime
        <5>1. t = now' /\ now \in Int /\ d \in Nat /\ t = now + d
          BY <1>1, <1>2 DEF t
        <5>2. /\ SampledAt <= Ideal /\ Ideal <= now + BitTime /\ SampledAt \in Int
              /\ Ideal \in Int /\ BitTime \in Int
          BY <2>2, <2>5, <4>1
        <5>3. SampledAt <= t + BitTime /\ t < SampledAt + BitTime
          BY <2>6, <5>1, <5>2
        <5> QED
          BY <4>1, <5>3
      <4>4. Cardinality(S) = IF t < a + q * BitTime THEN q ELSE q + 1
        <5> DEFINE c == IF t < a + q * BitTime THEN q ELSE q + 1
        <5>1. /\ q \in Nat /\ c \in {q, q + 1} /\ (c = q <=> t < a + q * BitTime)
              /\ c \in Nat /\ c <= FrameLength
          BY <4>1
        <5> HIDE DEF c
        <5>2. \A j \in Nat : a + j * BitTime <= t <=> j < c
          BY <4>1, <4>3, <5>1, SamplingTimes
        <5>3. \A j : j \in S <=> j \in 0 .. c - 1
          <6>1. \A j \in 0 .. FrameLength - 1 : j \in Nat /\ (j \in 0 .. c - 1 <=> j < c)
            BY <4>1, <5>1
          <6>2. \A j \in 0 .. c - 1 : j \in 0 .. FrameLength - 1
            BY <4>1, <5>1
          <6> QED
            BY <4>7, <5>2, <6>1, <6>2
        <5>4. S = 0 .. c - 1
          BY <5>3
        <5>5. Cardinality(0 .. c - 1) = c
          BY <5>1, FS_Interval
        <5> QED
          BY <5>4, <5>5 DEF c
      <4>5. SamplesBy(t) = IF t < SampledAt THEN edge - 1 ELSE edge
        BY <1>1, <2>5, <4>1, <4>2, <4>4 DEF q
      <4>6. n = SamplesBy(t) - l
        BY DEF t
      <4> HIDE DEF n, l
      <4> QED
        BY <1>1, <1>2, <1>3, <2>5, <2>7, <4>5, <4>6 DEF t
    <3>2. CASE ~InFrame
      <4>1. l >= frames * FrameLength
        BY <1>1, <3>2, FrameSize DEF InFrame
      <4>2. frames * FrameLength = Base + FrameLength
        BY <1>1, FrameSize DEF Base
      <4>3. l = edge /\ ~(now < SampledAt)
        BY <1>1, <2>5, <2>7, <4>1, <4>2, FrameSize
      <4>4. n = 0
        BY <1>1, <3>2 DEF SamplesBy
      <4> QED
        BY <1>1, <1>2, <1>3, <2>5, <4>3, <4>4
    <3> QED
      BY <3>1, <3>2
  <2>9. FrameInv'
    BY <1>1, <1>2, <1>7, <2>1, <2>4, <2>8 DEF FrameInv
  <2>10. LineHigh <=> Level(edge - 1)
    BY <1>1, <1>7, <2>1 DEF LineHigh, LineInv, Writing
  <2>11. SampledInv'
    <3> SUFFICES ASSUME NEW k \in 1 .. Len(samples')
                 PROVE  samples'[k] <=> Level(k - 1)'
      BY DEF SampledInv
    <3>1. CASE k <= l
      <4>1. k \in 1 .. l
        BY <1>1, <3>1
      <4> QED
        BY <1>1, <1>3, <1>5, <4>1 DEF SampledInv
    <3>2. CASE k > l
      <4>1. k = edge
        BY <1>1, <2>5, <2>7, <2>8, <3>2
      <4> QED
        BY <1>3, <1>4, <2>10, <3>2, <4>1
    <3> QED
      BY <1>1, <3>1, <3>2
  <2> QED
    BY <2>9, <2>11
<1> QED
  BY <1>1, <1>6, <1>7


\* A bit is driven after the bit before it is sampled.  The line falls at the first bit of
\* a frame, where the receiver waits for it, and nowhere else does it wait.
LEMMA DrivePasses ==
  ASSUME PaceInv, ReceiverInv, ReceiverType', Clean, Drive
  PROVE  FrameInv' /\ SampledInv'
<1> DEFINE l == Len(samples)
           edges == frames * FrameLength
<1>1. /\ PaceType /\ Timed /\ LineInv /\ EdgeInv /\ ReceiverType /\ FrameInv /\ SampledInv
      /\ now \in Nat /\ edge \in Nat /\ taken \in Nat /\ l \in Nat /\ frames \in Nat
      /\ first \in Nat /\ Ideal \in Nat /\ 2 * taken < BitTime
  BY CleanBrief, IdealType DEF PaceInv, ReceiverInv, PaceType, ReceiverType, Clean
<1>2. /\ sw = "drive" /\ sw' = "until" /\ edge' = edge + 1
      /\ bytes' = bytes /\ first' = first /\ now' = now /\ samples' = samples
      /\ IF LineHigh /\ ~Level(edge) /\ ~InFrame
           THEN frames' = frames + 1 /\ began' = now
           ELSE frames' = frames /\ began' = began
  BY DEF Drive, DriveTo, call, receiver
<1>3. now - Ideal \in 0 .. taken
  BY <1>1, <1>2 DEF Timed
<1>4. LineHigh <=> edge = 0 \/ Level(edge - 1)
  BY <1>1, <1>2 DEF LineInv, LineHigh, Writing
<1>5. FrameLength \in Nat /\ FrameLength > 1 /\ Middle \in Nat \ {0} /\ BitTime \in Nat \ {0}
  BY FrameSize
<1>6. edges \in Nat /\ Base = edges - FrameLength /\ Base \in Int
  BY <1>1, <1>5 DEF Base
<1>7. SampledInv'
  <2>1. \A k \in 1 .. l : Level(k - 1)' <=> Level(k - 1)
    BY <1>2 DEF Level
  <2> QED
    BY <1>1, <1>2, <2>1 DEF SampledInv
<1>8. ASSUME edge = edges, l = edge, LineHigh
      PROVE  FrameInv'
  <2>1. ~Level(edge)
    <3>1. 0 \in 0 .. FrameLength - 1 /\ frames * FrameLength + 0 = edge
      BY <1>5, <1>6, <1>8
    <3>2. Level(frames * FrameLength + 0) <=>
            0 = FrameLength - 1 \/ (0 \in 1 .. Width /\ Bit(bytes[frames + 1], 0))
      BY <1>1, <3>1, LevelAt
    <3>3. 0 # FrameLength - 1 /\ 0 \notin 1 .. Width
      BY <1>5, FrameSize
    <3> QED
      BY <3>1, <3>2, <3>3
  <2>2. ~InFrame
    BY <1>1, <1>6, <1>8 DEF InFrame
  <2>3. frames' = frames + 1 /\ began' = now
    BY <1>2, <1>8, <2>1, <2>2
  <2>4. Base' = edge
    <3>1. (frames + 1) - 1 = frames
      BY <1>1
    <3> QED
      BY <1>8, <2>3, <3>1 DEF Base, FrameLength
  <2>5. SampledAt' = now + Middle
    <3>1. 0 * BitTime = 0
      BY <1>5
    <3>2. SampledAt' = began' + Middle + (edge' - 1 - Base') * BitTime
      BY DEF SampledAt
    <3>3. edge' - 1 - Base' = 0
      BY <1>1, <1>2, <2>4
    <3> QED
      BY <1>1, <1>5, <2>3, <3>1, <3>2, <3>3
  <2>6. Ideal = first + edge * BitTime
    BY DEF Ideal
  <2>7. first' + Base' * BitTime = Ideal
    BY <1>2, <2>4, <2>6
  <2>8. first' + Base' * BitTime <= began' /\ 2 * (began' - (first' + Base' * BitTime)) < BitTime
    <3>1. Ideal <= now /\ 2 * (now - Ideal) < BitTime
      BY <1>1, <1>3, <1>5
    <3> QED
      BY <2>3, <2>7, <3>1
  <2>9. Len(samples') = edge' - 1 /\ now' < SampledAt'
    BY <1>1, <1>2, <1>5, <1>8, <2>5
  <2>10. frames' > 0 /\ Base' <= edge' - 1 /\ edge' - 1 < Base' + FrameLength
    BY <1>1, <1>2, <1>5, <2>3, <2>4
  <2> QED
    BY <1>2, <2>8, <2>9, <2>10 DEF FrameInv, FrameLength
<1>9. CASE edge = 0
  <2>1. frames = 0 /\ l = 0
    BY <1>1, <1>9 DEF ReceiverType
  <2>2. edges = 0
    BY <1>5, <2>1
  <2> QED
    BY <1>4, <1>7, <1>8, <1>9, <2>1, <2>2
<1>10. CASE edge > 0
  <2>1. /\ edge - 1 - Base \in 0 .. FrameLength - 1 /\ SampledAt \in Int
        /\ SampledAt <= Ideal /\ Ideal + taken < SampledAt + BitTime
    BY <1>1, <1>10, FrameTimes
  <2>2. ~(now < SampledAt) /\ now < SampledAt + BitTime
    BY <1>1, <1>3, <1>5, <2>1
  <2>3. l = edge
    BY <1>1, <1>10, <2>2 DEF FrameInv
  <2>4. CASE edge = edges
    <3>1. FrameLength - 1 \in 0 .. FrameLength - 1 /\ frames - 1 \in Nat
      BY <1>1, <1>5, <1>10 DEF FrameInv
    <3>2. Level((frames - 1) * FrameLength + (FrameLength - 1)) <=> TRUE
      BY <3>1, LevelAt
    <3>3. (frames - 1) * FrameLength + (FrameLength - 1) = edge - 1
      BY <1>5, <1>6, <2>4 DEF Base
    <3>4. Level(edge - 1)
      BY <3>2, <3>3
    <3> QED
      BY <1>4, <1>7, <1>8, <2>3, <2>4, <3>4
  <2>5. CASE edge < edges
    <3>1. InFrame
      BY <2>3, <2>5 DEF InFrame
    <3>2. frames' = frames /\ began' = began
      BY <1>2, <3>1
    <3>3. Base' = Base
      BY <3>2 DEF Base, FrameLength
    <3>4. SampledAt' = SampledAt + BitTime
      <4> DEFINE q == edge - 1 - Base
      <4>1. q \in Int /\ began \in Int
        BY <1>1, <1>6 DEF ReceiverType
      <4>2. SampledAt' = began' + Middle + (edge' - 1 - Base') * BitTime
        BY DEF SampledAt
      <4>3. SampledAt = began + Middle + q * BitTime
        BY DEF SampledAt
      <4>4. edge' - 1 - Base' = q + 1
        BY <1>1, <1>2, <1>6, <3>3 DEF q
      <4> HIDE DEF q
      <4>5. (q + 1) * BitTime = q * BitTime + 1 * BitTime /\ 1 * BitTime = BitTime
            /\ q * BitTime \in Int
        BY <1>5, <4>1, Products
      <4> QED
        BY <1>5, <3>2, <4>1, <4>2, <4>3, <4>4, <4>5
    <3>5. Len(samples') = edge' - 1 /\ now' < SampledAt'
      BY <1>1, <1>2, <2>2, <2>3, <3>4
    <3>6. Base <= edge' - 1 /\ edge' - 1 < Base + FrameLength
      BY <1>1, <1>2, <1>5, <1>6, <2>1, <2>5
    <3>7. /\ frames > 0 /\ first + Base * BitTime <= began
          /\ 2 * (began - (first + Base * BitTime)) < BitTime
      BY <1>1, <1>10 DEF FrameInv
    <3>8. /\ frames' > 0 /\ Base' <= edge' - 1 /\ edge' - 1 < Base' + FrameLength
          /\ first' + Base' * BitTime <= began'
          /\ 2 * (began' - (first' + Base' * BitTime)) < BitTime
      BY <1>2, <3>2, <3>3, <3>6, <3>7
    <3>9. FrameInv'
      BY <1>2, <3>5, <3>8 DEF FrameInv, FrameLength
    <3> QED
      BY <1>7, <3>9
  <2>6. edge = edges \/ edge < edges
    BY <1>1, <1>5, <1>6, <2>1
  <2> QED
    BY <2>4, <2>5, <2>6
<1> QED
  BY <1>1, <1>9, <1>10

\* The other steps leave the line and the receiver alone.
LEMMA QuietStep ==
  ASSUME PaceInv, ReceiverInv, Clean,
         SetUp \/ Until \/ Delay \/ Delayed \/ UsePins \/ UNCHANGED uartVars
  PROVE  FrameInv' /\ SampledInv'
<1>1. PaceType /\ Timed /\ Brief /\ FrameInv /\ SampledInv /\ now \in Nat /\ Ideal \in Nat
  BY CleanBrief, IdealType DEF PaceInv, ReceiverInv, PaceType
<1>2. UNCHANGED <<bytes, edge, first, now, frames, began, samples>>
  BY DEF SetUp, Until, Delay, Delayed, UsePins, uartVars, call, pace, time, receiver
<1>3. Ideal' = Ideal /\ Base' = Base /\ SampledAt' = SampledAt
  BY <1>2 DEF Ideal, Base, SampledAt
<1>4. sw' = "done" => sw = "done" \/ now >= Ideal
  <2>1. CASE Delayed
    BY <1>1, <2>1, DelayedTime
  <2>2. CASE ~Delayed
    BY <2>2 DEF SetUp, Until, Delay, UsePins, uartVars
  <2> QED
    BY <2>1, <2>2
<1>5. FrameInv'
  BY <1>1, <1>2, <1>3, <1>4 DEF FrameInv
<1>6. \A k \in 1 .. Len(samples) : Level(k - 1)' <=> Level(k - 1)
  BY <1>2 DEF Level
<1> QED
  BY <1>1, <1>2, <1>5, <1>6 DEF SampledInv

LEMMA ReceiverStep == PaceInv /\ PaceInv' /\ ReceiverInv /\ [UartNext]_uartVars => ReceiverInv'
<1> SUFFICES ASSUME PaceInv, PaceInv', ReceiverInv, [UartNext]_uartVars
             PROVE  ReceiverInv'
  OBVIOUS
<1>1. PaceType /\ PaceType' /\ Fresh /\ LineInv /\ EdgeInv /\ ReceiverType
  BY DEF PaceInv, ReceiverInv
<1>2. LineInv' /\ EdgeInv' /\ ReceiverType'
  BY <1>1, LineStep, CountStep, ReceiverTypeStep
<1>3. CASE Begin
  <2>1. edge' = 0 /\ samples' = <<>>
    BY <1>1, <1>3 DEF Begin, Fresh, ReceiverType, receiver
  <2>2. FrameInv'
    BY <2>1 DEF FrameInv
  <2>3. SampledInv'
    BY <2>1 DEF SampledInv
  <2> QED
    BY <1>2, <2>2, <2>3 DEF ReceiverInv
<1>4. CASE ~Begin
  <2> SUFFICES ASSUME Clean'
               PROVE  FrameInv' /\ SampledInv'
    BY <1>2 DEF ReceiverInv
  <2>1. Clean
    BY <1>1, <1>4, CleanBefore
  <2>2. CASE Drive
    BY <1>2, <2>1, <2>2, DrivePasses
  <2>3. CASE Spin
    <3>1. Pass(1) /\ sw = "spin" /\ UNCHANGED <<sw, bytes, edge, first>>
      BY <2>3 DEF Spin, call, pace
    <3> QED
      BY <2>1, <3>1, PassStep
  <2>4. CASE Interrupted
    <3>1. PICK d \in Durations : Pass(d)
      BY <2>4 DEF Interrupted
    <3>2. d \in Nat
      BY UartAssumption
    <3>3. UNCHANGED <<sw, bytes, edge, first>> /\ sw \notin {"pins", "unset", "done", "panicked"}
      BY <2>4 DEF Interrupted, call, pace
    <3>4. sw \in {"ready", "drive", "until", "delay", "spin"}
      BY <1>1, <3>3 DEF PaceType, Program
    <3> QED
      BY <2>1, <3>1, <3>2, <3>3, <3>4, PassStep
  <2>5. CASE SetUp \/ Until \/ Delay \/ Delayed \/ UsePins \/ UNCHANGED uartVars
    BY <2>1, <2>5, QuietStep
  <2> QED
    BY <1>4, <2>2, <2>3, <2>4, <2>5 DEF UartNext
<1> QED
  BY <1>3, <1>4

LEMMA InitReceiver == UartInit => ReceiverInv
<1> SUFFICES ASSUME UartInit
             PROVE  ReceiverInv
  OBVIOUS
<1>1. /\ sw \in {"pins", "unset"} /\ bytes \in Messages /\ edge = 0 /\ frames = 0 /\ began = 0
      /\ samples = <<>>
  BY DEF UartInit
<1>2. LineInv
  BY <1>1 DEF UartInit, GpioInit, LineInv, Writing
<1>3. EdgeInv
  <2>1. Len(bytes) \in Nat
    BY <1>1, UartAssumption
  <2> QED
    BY <1>1, <2>1, FrameSize DEF EdgeInv, Bits, Writing
<1>4. ReceiverType /\ FrameInv /\ SampledInv
  BY <1>1 DEF ReceiverType, FrameInv, SampledInv
<1> QED
  BY <1>2, <1>3, <1>4 DEF ReceiverInv

\* The samples of a whole frame.
LEMMA FrameSampled ==
  ASSUME PaceInv, ReceiverInv, Clean, NEW f \in 0 .. Len(samples) \div FrameLength - 1
  PROVE  /\ ~samples[f * FrameLength + 1] /\ samples[(f + 1) * FrameLength]
         /\ SampledByte(f) = bytes[f + 1]
<1> DEFINE l == Len(samples)
           F == FrameLength
<1>1. /\ F \in Nat \ {0} /\ F > Width + 1 /\ Width \in Nat \ {0} /\ l \in Nat /\ f \in Nat
      /\ edge \in Nat /\ bytes \in Seq(Nat) /\ bytes \in Messages /\ Bits \in Nat
      /\ samples \in Seq(BOOLEAN)
  BY FrameSize, UartAssumption DEF PaceInv, PaceType, ReceiverInv, ReceiverType, EdgeInv
<1>2. f * F + F <= l /\ f * F \in Nat
  <2>1. l \div F \in Nat /\ (l \div F) * F <= l /\ f + 1 <= l \div F
    BY <1>1
  <2>2. F \in Nat /\ f + 1 \in Int /\ l \div F \in Int
    BY <1>1, <2>1
  <2> HIDE DEF F, l
  <2>3. (f + 1) * F <= (l \div F) * F /\ (f + 1) * F = f * F + F /\ f * F \in Nat
    <3>1. (f + 1) * F <= (l \div F) * F
      BY <2>1, <2>2, Products
    <3>2. (f + 1) * F = f * F + F /\ f * F \in Nat
      BY <1>1
    <3> QED
      BY <3>1, <3>2
  <2>4. (f + 1) * F \in Int /\ (l \div F) * F \in Int
    BY <1>1, <2>1
  <2> QED
    BY <1>1, <2>1, <2>3, <2>4
<1>3. l <= edge /\ edge <= Bits
  <2>1. l <= edge
    <3>1. CASE edge = 0
      BY <3>1 DEF ReceiverInv, ReceiverType
    <3>2. CASE edge > 0
      BY <1>1, <3>2 DEF ReceiverInv, FrameInv
    <3> QED
      BY <1>1, <3>1, <3>2
  <2>2. edge <= Bits
    BY <1>1 DEF ReceiverInv, EdgeInv, Writing, PaceInv, Fresh
  <2> QED
    BY <2>1, <2>2
<1>4. f + 1 \in DOMAIN bytes
  <2>1. Len(bytes) \in Nat /\ Bits = Len(bytes) * F
    BY <1>1 DEF Bits
  <2>2. ~(Len(bytes) <= f)
    <3> SUFFICES ASSUME Len(bytes) <= f
                 PROVE  FALSE
      OBVIOUS
    <3>1. Len(bytes) * F <= f * F
      BY <1>1, <2>1, Products
    <3> QED
      BY <1>1, <1>2, <1>3, <2>1, <3>1
  <2> QED
    BY <1>1, <2>1, <2>2
<1> HIDE DEF F
<1>5. ASSUME NEW place \in 0 .. F - 1
      PROVE  samples[f * F + place + 1] <=>
               place = F - 1 \/ (place \in 1 .. Width /\ Bit(bytes[f + 1], place))
  <2>1. f * F + place + 1 \in 1 .. l /\ (f * F + place + 1) - 1 = f * F + place
    BY <1>1, <1>2
  <2>2. samples[f * F + place + 1] <=> Level(f * F + place)
    BY <2>1 DEF ReceiverInv, SampledInv
  <2>3. Level(f * F + place) <=> place = F - 1 \/ (place \in 1 .. Width /\ Bit(bytes[f + 1], place))
    BY <1>1, <1>5, LevelAt DEF F
  <2> QED
    BY <2>2, <2>3
<1>6. ~samples[f * F + 1]
  <2>1. 0 \in 0 .. F - 1 /\ f * F + 0 + 1 = f * F + 1 /\ 0 # F - 1 /\ 0 \notin 1 .. Width
    BY <1>1, <1>2
  <2> QED
    BY <1>5, <2>1
<1>7. samples[(f + 1) * F]
  <2>1. F - 1 \in 0 .. F - 1 /\ f * F + (F - 1) + 1 = (f + 1) * F
    BY <1>1, <1>2
  <2> QED
    BY <1>5, <2>1
<1>8. \A place \in 1 .. Width : samples[f * F + place + 1] = Bit(bytes[f + 1], place)
  <2> SUFFICES ASSUME NEW place \in 1 .. Width
               PROVE  samples[f * F + place + 1] = Bit(bytes[f + 1], place)
    OBVIOUS
  <2>1. place \in 0 .. F - 1 /\ place # F - 1 /\ f * F + place + 1 \in 1 .. l
    BY <1>1, <1>2
  <2>2. samples[f * F + place + 1] <=> Bit(bytes[f + 1], place)
    BY <1>5, <2>1
  <2>3. samples[f * F + place + 1] \in BOOLEAN
    BY <1>1, <2>1
  <2>4. Bit(bytes[f + 1], place) \in BOOLEAN
    BY DEF Bit
  <2> QED
    BY <2>2, <2>3, <2>4
<1>9. SampledByte(f) = bytes[f + 1]
  <2>1. [place \in 1 .. Width |-> samples[f * F + place + 1]]
          = [place \in 1 .. Width |-> Bit(bytes[f + 1], place)]
    BY <1>8
  <2>2. bytes[f + 1] = Number([place \in 1 .. Width |-> Bit(bytes[f + 1], place)])
    BY <1>1, <1>4, ByteAssumption
  <2> QED
    BY <2>1, <2>2 DEF SampledByte, F
<1> QED
  BY <1>6, <1>7, <1>9 DEF F

\* For every bit time, odd or even, width of a byte, message, width and reading of the
\* counter, and whatever handlers do to other pins: if interrupts put no two bits half a
\* bit apart, a receiver gets the bytes that write was called with, each between a low and
\* a high bit, and all of them when write returns.
THEOREM BytesReceived == UartSpec => []Received
<1>1. PaceInv /\ ReceiverInv => Received
  <2> SUFFICES ASSUME PaceInv, ReceiverInv, Clean
               PROVE  /\ \A f \in 0 .. Len(samples) \div FrameLength - 1 :
                           /\ ~samples[f * FrameLength + 1] /\ samples[(f + 1) * FrameLength]
                           /\ SampledByte(f) = bytes[f + 1]
                      /\ sw = "done" => Len(samples) = Bits
    BY DEF Received, Clean
  <2>1. ASSUME sw = "done"
        PROVE  Len(samples) = Bits
    <3>1. edge = Bits /\ edge \in Nat /\ now \in Nat /\ PaceType /\ ReceiverType /\ FrameInv
      BY <2>1 DEF ReceiverInv, EdgeInv, PaceInv, PaceType, Writing
    <3>2. CASE edge = 0
      BY <3>1, <3>2 DEF ReceiverType
    <3>3. CASE edge > 0
      <4>1. SampledAt <= Ideal /\ SampledAt \in Int /\ Ideal \in Nat
        <5>1. taken \in Nat /\ 2 * taken < BitTime
          BY <3>1 DEF PaceType, Clean
        <5> QED
          BY <3>1, <3>3, <5>1, FrameTimes, IdealType
      <4>2. now >= Ideal
        BY <2>1, <3>1, <3>3 DEF FrameInv
      <4>3. ~(now < SampledAt)
        BY <3>1, <4>1, <4>2
      <4> QED
        BY <3>1, <3>3, <4>3 DEF FrameInv
    <3> QED
      BY <3>1, <3>2, <3>3
  <2> QED
    BY <2>1, FrameSampled
<1> QED
  BY InitPace, PaceStep, InitReceiver, ReceiverStep, <1>1, PTL DEF UartSpec

=============================================================================
