CONSTANTS
  MaxSlot = 3
  LastIndex = 1
  MaxTick = 1
  FiredWindow = 1
  CacheWindow = 1
  MaxLookback = 2
  ReviveLag = 1
  LandedSlot = 2
  LandedIndex = 0
SPECIFICATION Spec
INVARIANTS FiresOnceInWindow CacheSpan CacheHoldsLast
