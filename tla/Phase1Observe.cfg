CONSTANTS
  Length <- const_Length
  Batch <- const_Batch
  source_channel_capacity = 2
  seal_lag = 1
  max_offsets = 2
  offset_history = 0
  MaxMessages = 4
  MaxReconnects = 1
SPECIFICATION Phase1Spec
INVARIANTS ReportsAreTrue FlushLeavesAtMostOne ShredStreamNeverDisordered
CHECK_DEADLOCK FALSE
