SPECIFICATION FairSpec
CONSTANTS
  handlers = handlers
  uart = uart
  Cells <- MCCells
  DispatchCell = handlers
  MaxNest = 2
INVARIANTS
  Inv
  NoBorrowPanic
  NoStaleMsr
  RestoreState
PROPERTIES
  Refines
  Delivered
