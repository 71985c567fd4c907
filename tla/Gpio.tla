-------------------------------- MODULE Gpio --------------------------------
(***************************************************************************)
(* The pins of lib/src/gpio.rs.  Several pins share a register: ten a      *)
(* function select register, thirty-two a bank of the others.  Some        *)
(* operations read the register, change their bits and write it back,      *)
(* some write only their bit, which leaves the others alone in the set,    *)
(* clear and event registers, and clears them in the detection registers.  *)
(*                                                                         *)
(* A pin is owned by the program or by an interrupt handler (its value is  *)
(* moved there).  The program may be interrupted between reading and       *)
(* writing a register, unless it is in a critical section (setup_uart,     *)
(* SWUart::setup_output); a handler is not interrupted.                    *)
(***************************************************************************)
EXTENDS Integers

CONSTANTS
  Pins,       \* valid pins
  OwnPins,    \* those of the program; the others are a handler's
  Select(_),  \* the function select register of a pin
  Bank(_),    \* the set, clear, level, event and detection registers of a pin
  Functions,  \* "Input", "Output", "Alt0", "Alt5"
  Kinds       \* detection registers: "rising" and "falling"

Unset == "Unset"

ASSUME GpioAssumption ==
  /\ OwnPins \subseteq Pins
  /\ {"Input", "Output"} \subseteq Functions /\ Unset \notin Functions
  /\ Kinds \cap {"none", "select"} = {}

HandlerPins == Pins \ OwnPins

VARIABLES
  fsel,      \* function of each pin in the registers
  level,     \* level each pin drives
  detect,    \* per kind: pins whose edges are detected
  gpeds,     \* pins with an event pending
  opened,    \* the program's read of a register that is to be written back, or Idle
  typed,     \* history: FSEL of each pin's type
  wanted,    \* history: per kind, pins whose detection was asked for
  last,      \* history: per kind and bank, the pin detection was last enabled for
  due,       \* history: pins whose owner should find an event
  lost       \* history: pins and registers of a handler's change that is overruled
             \* when the program writes the register back

pinVars == <<fsel, level, detect, gpeds, opened, typed, wanted, last, due, lost>>

Idle == [reg |-> "none"]

GpioInit ==
  /\ fsel = [p \in Pins |-> "Input"]
  /\ level = [p \in Pins |-> FALSE]
  /\ detect = [k \in Kinds |-> {}]
  /\ gpeds = {}
  /\ opened = Idle
  /\ typed = [p \in Pins |-> Unset]
  /\ wanted = [k \in Kinds |-> {}]
  /\ last = [k \in Kinds |-> [b \in {Bank(p) : p \in Pins} |-> Unset]]
  /\ due = {} /\ lost = {}

InSelect(p) == {q \in Pins : Select(q) = Select(p)}
InBank(p) == {q \in Pins : Bank(q) = Bank(p)}

\* p is changed in register r, which the program may have read already.
Change(p, r) ==
  lost' = IF opened.reg = r /\ p \in IF r = "select" THEN InSelect(opened.pin) ELSE InBank(opened.pin)
          THEN lost \cup {<<p, r>>}
          ELSE lost \ {<<p, r>>}

-----------------------------------------------------------------------------
(* What an operation leaves in its register, given the value it has read.  *)

\* Mutant: the or mask alone, the bits of the old function stay.
SelectedOr(p, f, value) ==
  [q \in Pins |-> IF q \in InSelect(p)
                  THEN IF q = p /\ value[q] = "Input" THEN f ELSE value[q]
                  ELSE fsel[q]]

\* set_fsel: bits & and | or, on the register of ten pins.
Selected(p, f, value) ==
  [q \in Pins |-> IF q \in InSelect(p) THEN IF q = p THEN f ELSE value[q] ELSE fsel[q]]

\* gpfen, gpren with r & !(1 << I).
Undetected(p, k, value) ==
  [detect EXCEPT ![k] = (@ \ InBank(p)) \cup ((value \cap InBank(p)) \ {p})]

\* gpfen, gpren with 1 << I alone.
Detected(p, k) == [detect EXCEPT ![k] = (@ \ InBank(p)) \cup {p}]

-----------------------------------------------------------------------------
(* The operations, as the one step they are in a critical section or in a  *)
(* handler.                                                                *)

\* into_output, into_input, into_alt0, into_alt5
Into(p, f) ==
  /\ fsel' = Selected(p, f, fsel)
  /\ typed' = [typed EXCEPT ![p] = f]
  /\ Change(p, "select")
  /\ UNCHANGED <<level, detect, gpeds, opened, wanted, last, due>>

\* erase
Erase(p) ==
  /\ typed[p] # Unset
  /\ typed' = [typed EXCEPT ![p] = Unset]
  /\ UNCHANGED <<fsel, level, detect, gpeds, opened, wanted, last, due, lost>>

\* write: gpset and gpclr change the pins whose bits are 1.
Write(p, bit) ==
  /\ typed[p] = "Output"
  /\ level' = [level EXCEPT ![p] = bit]
  /\ UNCHANGED <<fsel, detect, gpeds, opened, typed, wanted, last, due, lost>>

\* set_falling_detection, set_rising_detection
Enable(p, k) ==
  /\ typed[p] = "Input"
  /\ detect' = Detected(p, k)
  /\ wanted' = [wanted EXCEPT ![k] = @ \cup {p}]
  /\ last' = [last EXCEPT ![k][Bank(p)] = p]
  /\ Change(p, k)
  /\ UNCHANGED <<fsel, level, gpeds, opened, typed, due>>

Disable(p, k) ==
  /\ typed[p] = "Input"
  /\ detect' = Undetected(p, k, detect[k])
  /\ wanted' = [wanted EXCEPT ![k] = @ \ {p}]
  /\ Change(p, k)
  /\ UNCHANGED <<fsel, level, gpeds, opened, typed, last, due>>

\* Mutant: the bit is set in what was read: all pending events are cleared.
ClearModifies(p) ==
  /\ typed[p] = "Input" /\ p \in gpeds
  /\ gpeds' = gpeds \ InBank(p)
  /\ due' = due \ {p}
  /\ UNCHANGED <<fsel, level, detect, opened, typed, wanted, last, lost>>

\* event_detected, then clear_event: a 1 clears a pin's event, a 0 leaves it.
Clear(p) ==
  /\ typed[p] = "Input" /\ p \in gpeds
  /\ gpeds' = gpeds \ {p}
  /\ due' = due \ {p}
  /\ UNCHANGED <<fsel, level, detect, opened, typed, wanted, last, lost>>

Operation(p) ==
  \/ \E f \in Functions : Into(p, f)
  \/ Erase(p)
  \/ \E bit \in BOOLEAN : Write(p, bit)
  \/ \E k \in Kinds : Enable(p, k) \/ Disable(p, k)
  \/ Clear(p)

-----------------------------------------------------------------------------
(* The program.                                                            *)

\* One write, or a modify in a critical section.
ProgramOperation(p) == opened = Idle /\ Operation(p)

\* A modify outside critical sections begins with the read.
OpenSelect(p) ==
  /\ opened = Idle
  /\ opened' = [reg |-> "select", pin |-> p, value |-> fsel]
  /\ UNCHANGED <<fsel, level, detect, gpeds, typed, wanted, last, due, lost>>

OpenDetect(p, k) ==
  /\ opened = Idle
  /\ typed[p] = "Input"
  /\ opened' = [reg |-> k, pin |-> p, value |-> detect[k]]
  /\ UNCHANGED <<fsel, level, detect, gpeds, typed, wanted, last, due, lost>>

CloseSelect ==
  /\ opened.reg = "select"
  /\ \E f \in Functions :
       /\ fsel' = Selected(opened.pin, f, opened.value)
       /\ typed' = [typed EXCEPT ![opened.pin] = f]
  /\ opened' = Idle
  /\ UNCHANGED <<level, detect, gpeds, wanted, last, due, lost>>

CloseDetect ==
  /\ opened.reg \in Kinds
  /\ detect' = Undetected(opened.pin, opened.reg, opened.value)
  /\ wanted' = [wanted EXCEPT ![opened.reg] = @ \ {opened.pin}]
  /\ opened' = Idle
  /\ UNCHANGED <<fsel, level, gpeds, typed, last, due, lost>>

-----------------------------------------------------------------------------
(* The handler, and the world at the pins.                                 *)

\* An edge of kind k at an input.
Edge(p, k) ==
  /\ fsel[p] = "Input"
  /\ gpeds' = IF p \in detect[k] THEN gpeds \cup {p} ELSE gpeds
  /\ due' = IF p \in wanted[k] /\ last[k][Bank(p)] = p /\ <<p, k>> \notin lost
            THEN due \cup {p} ELSE due
  /\ UNCHANGED <<fsel, level, detect, opened, typed, wanted, last, lost>>

GpioNext ==
  \/ \E p \in OwnPins : ProgramOperation(p) \/ OpenSelect(p)
  \/ \E p \in OwnPins, k \in Kinds : OpenDetect(p, k)
  \/ CloseSelect
  \/ CloseDetect
  \/ \E p \in HandlerPins : Operation(p)
  \/ \E p \in Pins, k \in Kinds : Edge(p, k)

GpioSpec == GpioInit /\ [][GpioNext]_pinVars

-----------------------------------------------------------------------------
(* Properties.                                                             *)

\* The function in the register is the one of the pin's type ("the compile-time
\* state of the pin", gpio.rs 61-62), unless a handler set it while the program
\* was, outside critical sections, in the middle of setting another one's.
FunctionKept ==
  \A p \in Pins : typed[p] # Unset /\ <<p, "select">> \notin lost => fsel[p] = typed[p]

\* An edge is reported to the owner of the pin that asked for it, until that owner
\* clears it, if the pin is the last of its bank that asked (an earlier one's
\* detection is switched off by the later one's being switched on) and a handler
\* did not ask while the program was switching off another one's.
EventsReported == due \subseteq gpeds

=============================================================================
