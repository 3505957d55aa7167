SPECIFICATION Spec
CONSTANTS
  Half = 4
  QueueCapacity = 5
  BufLen = 7
  MaxPayload = 2
  FrameSizes <- MCFrameSizes
  HaveDtls = FALSE
  MaxSent = 13
  MaxNack = 2
INVARIANTS TypeOK QueueIntact
PROPERTIES FragmentsWhole ResentAsSent
CHECK_DEADLOCK FALSE
