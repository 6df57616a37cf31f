SPECIFICATION SupplySpec
CONSTANTS
  t1 = t1
  t2 = t2
  jito = jito
  fixed = fixed
  Trigger <- const_Trigger
  Sender <- const_Sender
  JitoSender <- const_JitoSender
  Tipped <- const_Tipped
  tip_lamports <- const_tip_lamports
  tip_floor = 1
  tip_ceiling = 3
  TipFloors <- const_TipFloors
  MaxHash = 2
INVARIANTS VariantsWellFormed
PROPERTY EntriesMoveOn
CHECK_DEADLOCK FALSE
