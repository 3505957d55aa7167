SPECIFICATION Spec
CONSTANTS
  Half = 4
  QueueCapacity = 5
  BufLen = 7
  MaxPayload = 2
  FrameSizes <- MCFrameSizes
  HaveDtls = TRUE
  MaxSent = 13
  MaxNack = 2
PROPERTIES ResentAsSent
CHECK_DEADLOCK FALSE
