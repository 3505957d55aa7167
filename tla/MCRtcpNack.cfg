SPECIFICATION Spec
CONSTANTS
  Half = 8
  BlpBits = 3
  MaxAsked = 5
  ForeignPids <- MCForeignPids
  ForeignChunks = 2
INVARIANTS TypeOK AskedWithinReach PacketFits
PROPERTY ReadExactly
