SPECIFICATION FairSpec
CONSTANTS
  m_cache_num = 3
  m_videoCacheTime = 1
  m_maxVideoMinus = 1
  MaxMisses = 1
  Stamp = {0, 1, 9}
  MaxElapsed = 2
  MaxFrame = 4
INVARIANT TypeOK
PROPERTIES NextInOrder KeepsDrawing
CHECK_DEADLOCK FALSE
