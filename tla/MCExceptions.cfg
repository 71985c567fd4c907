SPECIFICATION Spec
CONSTANTS
  a = a
  b = b
  Main = main
  None = None
  Threads <- MCThreads
INVARIANTS
  Transparent
  Parked
SYMMETRY Symmetry
CHECK_DEADLOCK FALSE
