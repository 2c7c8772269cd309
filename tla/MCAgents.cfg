SPECIFICATION SceneSpec
CONSTANTS
  Owners = {a}
  Keys = {k1}
  Modes = {"manual"}
  Capacity = 1
  MaxConns = 1
  MaxActive = 1
  Retained = 1
  RetainedSess = 1
  RetainedTotal = 1
  MaxSess = 1
  MaxRuns = 1
  MaxRevs = 2
  MaxEps = 1
  MaxEpoch = 1
CONSTANTS
  y1 = y1
  y2 = y2
  g1 = g1
  a = a
  b = b
  k1 = k1
  k2 = k2
INVARIANTS
  RequestsCleared
  ListenersClose
PROPERTIES
  ExecAuthorised
  BrokerSound
CHECK_DEADLOCK FALSE
