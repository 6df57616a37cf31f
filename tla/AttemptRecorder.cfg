CONSTANTS
  Triggers = {t1}
  Senders = {a, b, c}
  NonceMode = TRUE
  ChannelCapacity = 1
  MaxSightings = 2
SPECIFICATION FairSpec
INVARIANTS SummaryAddsUp
PROPERTIES LedgerKept EveryAttemptEnds
CHECK_DEADLOCK FALSE
