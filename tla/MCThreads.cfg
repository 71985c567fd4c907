SPECIFICATION FairSpec
CONSTANTS
  ThreadCount = 2
  MaxForks = 4
  YieldOutside = FALSE
INVARIANTS
  Contexts
  NoUseAfterFree
  PanicOnlyOverCapacity
PROPERTIES
  StartRunsAll
  NoStarvation
  Refines
CHECK_DEADLOCK FALSE
