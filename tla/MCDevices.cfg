SPECIFICATION SceneSpec
CONSTANTS
  Attempts = {"a1", "a2"}
  Cancels = {"c1"}
  Typers = {"t1"}
  Lockers = {"l1"}
  Resets = {"r1"}
  Enables = {"e1"}
  Installs = {"i1"}
  Disables = {"d1"}
  Faults = FALSE
  Jobs = {"a1", "a2", "l1"}
CONSTANTS
  a1 = a1
  a2 = a2
  b1 = b1
  alice = alice
  bob = bob
  it1 = it1
  NoId = NoId
INVARIANTS
  NoStaleSeal
  AttemptsSound
  ObjectsUsable
  SettledSound
PROPERTIES
  TrustMonotone
CHECK_DEADLOCK FALSE
