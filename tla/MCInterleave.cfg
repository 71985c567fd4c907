\* umain's scheduler, and any other.
SPECIFICATION FairSpec
CONSTANT
  Code <- MCCode
INVARIANTS
  Isolation
  MainRestored
  SwitchPoint
  Explores
PROPERTIES
  OneStep
  Completes
\* umain ends at the reboot.
CHECK_DEADLOCK FALSE
