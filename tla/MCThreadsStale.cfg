SPECIFICATION FairSpec
CONSTANTS
  ThreadCount = 2
  MaxForks = 4
  YieldOutside = TRUE
PROPERTIES
  YieldsFromThread
CHECK_DEADLOCK FALSE
