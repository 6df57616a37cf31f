CONSTANTS
  MaxSlot = 4
  chunk_size = 1
  lead_slots = 1
  SlotsPerSleep = 1
  ChannelCapacity = 1
  EvictLag = 1
  NonceMode = TRUE
  NumNonces = 1
SPECIFICATION FairSpec
INVARIANTS EntryConserved
PROPERTIES NothingDroppedEarly StallEnds PoolDrains
CHECK_DEADLOCK FALSE
