CONSTANTS
  Poster <- Posters
  Stopper = "ui"
  MaxPosts = 2
SPECIFICATION MsgFairSpec
INVARIANTS MsgTypeOK NoneSleptOver
PROPERTY Served
CHECK_DEADLOCK FALSE
