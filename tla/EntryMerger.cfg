CONSTANTS
  MaxSlot = 4
  Hashes = {h1, h2}
  DEDUP_WINDOW_SLOTS = 2
  ChannelCapacity = 1
  MaxObservations = 5
SPECIFICATION Spec
INVARIANTS OnceInWindow IndexMatchesMap
CHECK_DEADLOCK FALSE
