CONSTANTS
  FecSets <- const_FecSets
  DataPerSet = 2
  Terminated <- const_Terminated
  Undecodable <- const_Undecodable
  EntriesPerSet = 2
  RawCapacity = 1
  OffsetLimit = 0
  KeepSlots = 1
  MaxCopies = 2
SPECIFICATION ShredSpec
INVARIANTS EmittedPerFullCopy IndexGivenOnce
PROPERTIES SetsLeave
CHECK_DEADLOCK FALSE
