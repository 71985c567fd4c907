SPECIFICATION FairSpec
CONSTANTS
  Programs <- MCPrograms
  Crc <- MCCrc
  Base = 1
  Space = 3
  U32 = 6
  Chunk = 2
  MaxInFlight = 4
  MaxRuns = 1
  MaxLost = 0
  MaxDamaged = 0
PROPERTIES
  LoadedMeansLoaded
CHECK_DEADLOCK FALSE
