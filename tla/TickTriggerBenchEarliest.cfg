CONSTANTS
  Entry <- const_Entry
  schedule <- const_schedule
  HASHES_PER_TICK = 2
  TICKS_PER_SLOT = 2
  start_slot = 1
  look_ahead_slots = 3
  channel_capacity = 1
  max_inflight = 2
  MaxObservations = 4
  MaxCycles = 2
SPECIFICATION BenchSpec
INVARIANTS EarliestMatchKept
CHECK_DEADLOCK FALSE
