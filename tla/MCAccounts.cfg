SPECIFICATION SceneSpec
CONSTANTS
  Accounts = {alice}
  ClaimOwner = alice
  Owners = {alice}
  Devices = {d1, d2}
  FirstDevice <- OneDevice
  Handlers = {"p1", "p2"}
  NonceTTL = 1
  PendingTTL = 1
  WebTTL = 1
  Retention = 0
  Ops = {"verify", "refresh", "add", "revoke", "logout"}
  MaxSend = 4
  MaxPair = 3
  MaxNonce = 2
  MaxNow = 2
  AccessTTL = 2
  RefreshTTL = 2
CONSTANTS
  alice = alice
  bob = bob
  d1 = d1
  d2 = d2
  o = o
  ann = ann
  ben = ben
  cid = cid
  dan = dan
  s1 = s1
  s2 = s2
  v1 = v1
  i1 = i1
  i2 = i2
  q1 = q1
  q2 = q2
  NoOne = NoOne
SYMMETRY Symmetry
INVARIANTS
  UsedOnce
PROPERTIES
  SessionsEndRight
  AuditSound
  SpacesSound
CHECK_DEADLOCK FALSE
