SPECIFICATION SceneSpec
SYMMETRY HandlerSymmetry
CONSTANTS
  a = a b = b i = i j = j k1 = k1 h1 = h1 h2 = h2
  Member = {a, b}
  NoOne = NoOne
  InstanceOwner = a
  Item = {i, j}
  Key = {k1}
  NoKey = NoKey
  Reader = {b}
  Handler = {h1, h2}
  NoHandler = NoHandler
  Request <- AllRequests
  Validate = TRUE
  PageLimit = 2
  IdemTTL = 0
  MaxSend = 2
  MaxBump = 1
  MaxNow = 1
  MaxSeq = 0
INVARIANTS
  TypeOK
  NoSkippedRow
  ReplayStable
  AckedDurable
PROPERTIES
  DerivedFromLog
  RevokedForever
CHECK_DEADLOCK FALSE
