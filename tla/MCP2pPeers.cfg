CONSTANTS
  MaxPeer = 2
SPECIFICATION FairSpec
INVARIANTS TypeOK PlayCount
PROPERTIES RemovalEnds PeersGo
CHECK_DEADLOCK FALSE
