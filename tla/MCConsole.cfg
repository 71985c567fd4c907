SPECIFICATION FairSpec
CONSTANTS
  Heap = 4
  Layouts <- MCLayouts
  FifoSize = 3
  MaxPrints = 2
  MaxAllocs = 3
  MaxExceptions = 2
  MaxPanics = 2
INVARIANTS
  HeapSound
  WholeLines
  PanicCauses
PROPERTY
  Reported
\* The reboot, or a program that does nothing more.
CHECK_DEADLOCK FALSE
