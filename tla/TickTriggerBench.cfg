CONSTANTS
  Entry <- const_Entry
  schedule <- const_schedule
  HASHES_PER_TICK = 2
  TICKS_PER_SLOT = 2
  start_slot = 1
  look_ahead_slots = 3
  channel_capacity = 1
  max_inflight = 2
  MaxObservations = 3
  MaxCycles = 2
SPECIFICATION BenchSpec
INVARIANTS FiresAccounted PendingIsOpen TicksNotInflated DeltasAgree
PROPERTIES ShutdownCompletes
CHECK_DEADLOCK FALSE
