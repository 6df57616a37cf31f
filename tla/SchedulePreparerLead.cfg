CONSTANTS
  MaxSlot = 10
  chunk_size = 2
  lead_slots = 1
  SlotsPerSleep = 1
  ChannelCapacity = 1
  EvictLag = 1
  NonceMode = TRUE
  NumNonces = 1
SPECIFICATION Spec
INVARIANTS LeadBounded
CHECK_DEADLOCK FALSE
