CONSTANTS
  MaxSlot = 3
  MaxIndex = 1
  TICKS_PER_SLOT = 2
  SealLag = 1
  DropGrace = 1
  MaxPending = 1
  MaxArrivals = 4
SPECIFICATION Spec
INVARIANTS NeverBothEnds
CHECK_DEADLOCK FALSE
