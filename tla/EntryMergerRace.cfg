CONSTANTS
  MaxSlot = 1
  Hashes = {h1}
  DEDUP_WINDOW_SLOTS = 2
  ChannelCapacity = 2
  MaxObservations = 3
SPECIFICATION Spec
INVARIANTS WinnerDoesNotMatter
CHECK_DEADLOCK FALSE
