SPECIFICATION TrackSpec
CONSTANTS
  HaveDtls = TRUE
  Half = 5
  CacheSize = 5
  Window = 4
  MaxPackets = 7
INVARIANT NeverMixed
