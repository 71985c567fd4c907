SPECIFICATION Spec
CONSTANTS
  a = a
  b = b
  Main = main
  None = None
  Threads <- MCThreads
INVARIANT SyscallRestores
CHECK_DEADLOCK FALSE
