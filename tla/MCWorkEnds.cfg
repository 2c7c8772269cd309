SPECIFICATION FairSpec
CONSTANTS
  y1 = y1
  g1 = g1
  a = a
  k1 = k1
PROPERTIES
  WorkEnds
CHECK_DEADLOCK FALSE
