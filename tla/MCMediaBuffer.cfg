CONSTANTS
  p1 = p1
  p2 = p2
  c = c
  none = none
  f1 = f1
  f2 = f2
  torn = torn
  Producers <- MCProducers
  Consumer <- c
  NoThread <- none
  Frame <- MCFrame
  HalfWritten <- torn
  m_cache_num = 3
SPECIFICATION Spec
INVARIANTS TypeOK RefIntact
PROPERTIES IsQueue FullDrains
