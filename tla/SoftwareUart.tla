---------------------------- MODULE SoftwareUart ----------------------------
(***************************************************************************)
(* Serial output bit by bit on a pin (software::SWUart of lib/src/uart.rs) *)
(* paced by the cycle counter (cycle_counter.rs), which wraps, while       *)
(* interrupts take time and their handler works on pins of the same        *)
(* registers (Gpio).                                                       *)
(*                                                                         *)
(* Time is counted in cycles.  It passes in the delay loop and in          *)
(* interrupts; the code between them takes none.  The receiver at the      *)
(* other end of the line takes a falling edge for the beginning of a frame *)
(* and samples the line in the middle of each bit.                         *)
(***************************************************************************)
EXTENDS Gpio, Sequences, FiniteSets

LOCAL INSTANCE FiniteSetsExt

CONSTANTS
  UartPin,        \* the pin of the SWUart
  Width,          \* bits of a byte
  BitTime,        \* CYCLES_PER_BIT
  CounterSize,    \* the number of values of a u32
  Offsets,        \* readings of the cycle counter at time 0
  Messages,       \* what write is called with
  Durations,      \* what an interrupt may take
  MaxInterrupts   \* bound

ASSUME UartAssumption ==
  /\ UartPin \in OwnPins
  /\ Width \in Nat \ {0} /\ BitTime \in Nat \ {0} /\ CounterSize \in Nat
  /\ BitTime < (CounterSize - 1) \div 3 /\ Messages \subseteq Seq(Nat)
  /\ Offsets \subseteq Nat /\ Durations \subseteq Nat /\ MaxInterrupts \in Nat

\* The bits of a byte from the lowest on, and the number that bits write.
Bit(byte, place) == (byte \div 2 ^ (place - 1)) % 2 = 1
Number(bits) ==
  MapThenSumSet(LAMBDA place : IF bits[place] THEN 2 ^ (place - 1) ELSE 0, 1 .. Width)

\* The bytes of a message have Width bits: they write the byte.
ASSUME ByteAssumption ==
  \A message \in Messages : \A i \in DOMAIN message :
    message[i] = Number([place \in 1 .. Width |-> Bit(message[i], place)])

VARIABLES
  sw,        \* where the program is
  bytes,     \* the argument of write
  edge,      \* bits driven so far
  desired,   \* desired
  cycles,    \* delay's cycle_delay
  start,     \* delay's start
  offset,    \* the cycle counter at time 0
  now,       \* the time
  interrupts,
  frames,    \* frames the receiver has seen begin
  began,     \* when it saw the last one begin
  samples,   \* the line at its sampling times
  first,     \* history: the time write began
  late,      \* history: how late the last bit was
  taken,     \* history: interrupt time since the last bit was driven
  before,    \* history: and between the last two
  worst      \* history: the longest such time

call == <<bytes, offset, first>>
pace == <<edge, desired, late, before, worst>>
wait == <<cycles, start>>
time == <<now, interrupts, taken>>
receiver == <<frames, began, samples>>
uartVars == <<pinVars, sw, call, pace, wait, time, receiver>>

UartInit ==
  /\ GpioInit
  /\ sw \in {"pins", "unset"}
  /\ bytes \in Messages /\ offset \in Offsets /\ first = 0
  /\ edge = 0 /\ desired = 0 /\ late = 0 /\ before = 0 /\ worst = 0
  /\ cycles = 0 /\ start = 0
  /\ now = 0 /\ interrupts = 0 /\ taken = 0
  /\ frames = 0 /\ began = 0 /\ samples = <<>>

-----------------------------------------------------------------------------
(* The cycle counter, the bits of a message, the receiver.                 *)

Read == (offset + now) % CounterSize
WrappingAdd(a, b) == (a + b) % CounterSize
WrappingSub(a, b) == (a - b) % CounterSize

FrameLength == Width + 2
Bits == Len(bytes) * FrameLength

\* Mutant: the high bit first.
LevelHighFirst(k) ==
  LET place == k % FrameLength
      byte == bytes[(k \div FrameLength) + 1]
  IN \/ place = FrameLength - 1
     \/ place \in 1 .. Width /\ (byte \div 2 ^ (Width - place)) % 2 = 1

\* The k-th bit: a low start bit, the byte from its lowest bit on, a high stop bit.
Level(k) ==
  LET place == k % FrameLength
      byte == bytes[(k \div FrameLength) + 1]
  IN \/ place = FrameLength - 1
     \/ place \in 1 .. Width /\ Bit(byte, place)

\* A pin that is not an output does not hold the line.
LineHigh == fsel[UartPin] = "Output" /\ level[UartPin]

InFrame == Len(samples) < frames * FrameLength

\* Half a bit, and no less.
Middle == (BitTime + 1) \div 2

SamplesBy(t) ==
  IF ~InFrame THEN Len(samples)
  ELSE (frames - 1) * FrameLength +
         Cardinality({j \in 0 .. FrameLength - 1 :
                        began + Middle + j * BitTime <= t})

Pass(d) ==
  /\ now' = now + d
  /\ samples' = samples \o [k \in 1 .. SamplesBy(now + d) - Len(samples) |-> LineHigh]
  /\ UNCHANGED <<frames, began>>

-----------------------------------------------------------------------------
(* The program.                                                            *)

\* setup_output: in a critical section the pin becomes an output and is set high.
SetUp ==
  /\ sw = "unset"
  /\ fsel' = Selected(UartPin, "Output", fsel)
  /\ typed' = [typed EXCEPT ![UartPin] = "Output"]
  /\ level' = [level EXCEPT ![UartPin] = TRUE]
  /\ sw' = "ready"
  /\ UNCHANGED <<detect, gpeds, opened, wanted, last, due, lost,
                 call, pace, wait, time, receiver>>

Begin ==
  /\ sw = "ready"
  /\ desired' = Read
  /\ first' = now
  /\ taken' = 0
  /\ sw' = IF bytes = <<>> THEN "done" ELSE "drive"
  /\ UNCHANGED <<pinVars, bytes, offset, edge, late, before, worst, wait, now, interrupts,
                 receiver>>

DriveTo(deadline) ==
  /\ sw = "drive"
  /\ level' = [level EXCEPT ![UartPin] = Level(edge)]
  /\ desired' = deadline
  /\ edge' = edge + 1
  /\ IF LineHigh /\ ~Level(edge) /\ ~InFrame
     THEN frames' = frames + 1 /\ began' = now
     ELSE UNCHANGED <<frames, began>>
  /\ late' = now - (first + edge * BitTime)
  /\ before' = taken /\ taken' = 0
  /\ worst' = IF taken > worst THEN taken ELSE worst
  /\ sw' = "until"
  /\ UNCHANGED <<fsel, detect, gpeds, opened, typed, wanted, last, due, lost,
                 call, wait, now, interrupts, samples>>

\* Mutant: each bit is timed from when the last one was driven.
DriveRelative == DriveTo(WrappingAdd(Read, BitTime))

\* pin.write, and the deadline of the next bit from the deadline of this one.
Drive == DriveTo(WrappingAdd(desired, BitTime))

\* delay_until: a deadline that has passed looks like a very long delay.
Until ==
  /\ sw = "until"
  /\ cycles' = WrappingSub(desired, Read)
  /\ sw' = IF cycles' < (CounterSize - 1) \div 3 THEN "delay" ELSE "panicked"
  /\ UNCHANGED <<pinVars, call, pace, start, time, receiver>>

Delay ==
  /\ sw = "delay"
  /\ start' = Read
  /\ sw' = "spin"
  /\ UNCHANGED <<pinVars, call, pace, cycles, time, receiver>>

Spin ==
  /\ sw = "spin"
  /\ WrappingSub(Read, start) < cycles
  /\ Pass(1)
  /\ UNCHANGED <<pinVars, sw, call, pace, wait, interrupts, taken>>

Delayed ==
  /\ sw = "spin"
  /\ WrappingSub(Read, start) >= cycles
  /\ sw' = IF edge < Bits THEN "drive" ELSE "done"
  /\ UNCHANGED <<pinVars, call, pace, wait, time, receiver>>

\* A program that does not give the pin to setup_output, and its handler.
UsePins ==
  /\ sw = "pins"
  /\ GpioNext
  /\ UNCHANGED <<sw, call, pace, wait, time, receiver>>

-----------------------------------------------------------------------------
(* Interrupts.                                                             *)

\* Once the UART is set up interrupts take time, and a handler may use its pins.
Interrupted ==
  /\ sw \notin {"pins", "unset", "done", "panicked"}
  /\ interrupts < MaxInterrupts
  /\ interrupts' = interrupts + 1
  /\ \E d \in Durations : Pass(d) /\ taken' = taken + d
  /\ \/ UNCHANGED pinVars
     \/ \E p \in HandlerPins : Operation(p)
  /\ UNCHANGED <<sw, call, pace, wait>>

UartNext == SetUp \/ Begin \/ Drive \/ Until \/ Delay \/ Spin \/ Delayed \/ UsePins \/ Interrupted

UartSpec == UartInit /\ [][UartNext]_uartVars

-----------------------------------------------------------------------------
(* Properties.                                                             *)

\* A bit is never early, and late by no more than the interrupts since the bit
\* before it took: lateness does not add up over a message.  write panics only when
\* interrupts have taken longer than a bit (delay_until's assertion), wherever the
\* cycle counter wraps.
Paced ==
  /\ late \in 0 .. before
  /\ sw = "panicked" => before + taken > BitTime

\* The byte in the samples of the f-th frame.
SampledByte(f) == Number([place \in 1 .. Width |-> samples[f * FrameLength + place + 1]])

\* A receiver that samples in the middle of the bits, from the first low one on,
\* gets the bytes between low start and high stop bits if interrupts put no two bits
\* half a bit apart, whatever handlers do to other pins of the registers.
Received ==
  2 * worst < BitTime /\ 2 * taken < BitTime =>
    /\ \A f \in 0 .. Len(samples) \div FrameLength - 1 :
         /\ ~samples[f * FrameLength + 1] /\ samples[(f + 1) * FrameLength]
         /\ SampledByte(f) = bytes[f + 1]
    /\ sw = "done" => Len(samples) = Bits

=============================================================================
