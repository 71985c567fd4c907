SPECIFICATION UartSpec
CONSTANTS
  Pins = {"uart", "other"}
  OwnPins = {"uart"}
  Select <- MCOne
  Bank <- MCOne
  Functions = {"Input", "Output"}
  Kinds = {"rising"}
  UartPin = "uart"
  Width = 2
  BitTime = 4
  CounterSize = 16
  Offsets <- MCOffsets
  Messages <- MCMessages
  Durations = {1, 3, 5}
  MaxInterrupts = 2
INVARIANTS
  FunctionKept
  EventsReported
  Paced
  Received
\* write returns, or panics.
CHECK_DEADLOCK FALSE
