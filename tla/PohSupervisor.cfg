CONSTANTS
  MaxSlot = 3
  MaxIndex = 2
  TICKS_PER_SLOT = 2
  SealLag = 1
  DropGrace = 1
  MaxPending = 2
  MaxArrivals = 4
SPECIFICATION FairSpec
INVARIANTS EndTellsTicks
PROPERTIES StreamKept SweepBounds GapsClose
CHECK_DEADLOCK FALSE
