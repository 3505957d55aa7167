SPECIFICATION TrackSpec
CONSTANTS
  HaveDtls = FALSE
  Half = 6
  CacheSize = 6
  Window = 3
  MaxPackets = 8
INVARIANTS TrackTypeOK OneFrameAtATime InOrderFlows WholeNalUnits
