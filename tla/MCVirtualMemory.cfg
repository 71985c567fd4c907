SPECIFICATION FairSpec
CONSTANTS
  code = code
  stack = stack
  Illegal = illegal
  Elsewhere = elsewhere
  None = None
  Kernel <- MCKernel
INVARIANTS
  KernelMapped
  Panics
PROPERTY
  AccessEnds
CHECK_DEADLOCK FALSE
