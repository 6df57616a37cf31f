CONSTANTS
  Triggers = {t1}
  Senders = {a}
  NonceMode = TRUE
  ChannelCapacity = 1
  MaxSightings = 1
SPECIFICATION Spec
PROPERTIES UnknownWasSent
CHECK_DEADLOCK FALSE
