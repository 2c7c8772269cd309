SPECIFICATION FairSpec
CONSTANTS
  a = a
  b = b
  i = i
  k1 = k1
  h1 = h1
  h2 = h2
  NoOne = NoOne
  NoIdem = NoIdem
  NoHandler = NoHandler
  a1 = a1
  a2 = a2
  alice = alice
  it1 = it1
  it2 = it2
  NoId = NoId
PROPERTIES
  SyncEnds
CHECK_DEADLOCK FALSE
