SPECIFICATION FairSpec
CONSTANTS
  Programs <- MCPrograms
  Crc <- MCCrc
  Base = 1
  Space = 3
  U32 = 6
  Chunk = 2
  MaxInFlight = 4
  MaxRuns = 2
  MaxLost = 1
  MaxDamaged = 1
INVARIANTS
  JumpVerified
  BootloaderIntact
PROPERTIES
  CommitVerified
  Loads
  Refuses
