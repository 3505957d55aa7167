SPECIFICATION FairSpec
CONSTANTS
  Half = 10
  MaxQueueSize = 3
  MaxReqCount = 0
  MaxAliveTime = 2
  FirstNackInterval = 1
  NackInterval0 = 2
  MinNackInterval = 1
  MaxNackInterval = 4
  NackCheckInterval = 1
  FlipMod = 1
  Rtts <- MCRtts
  JumpAhead = 2
  LateBy = 2
  MaxAdvance = 3
  MaxLag = 15
  MaxSilence = 1
  Watched = {0}
INVARIANTS TypeOK NoLossForgotten QueueBounded ListedInWindow
PROPERTIES GiveUpOnlyExpired EveryNackEnds
