SPECIFICATION Spec
CONSTANTS
  s1 = s1
  s2 = s2
  r1 = r1
  r2 = r2
  Send <- const_Send
  Region <- const_Region
  min_send_interval = 2
  MaxClock = 2
  MaxClosed = 1
  MaxDropped = 1
INVARIANT SuccessIsDelivered
CHECK_DEADLOCK FALSE
