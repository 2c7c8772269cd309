SPECIFICATION Spec
CONSTANTS
  c1 = c1
  c2 = c2
  jump = jump
  host = host
  k1 = k1
  k2 = k2
  NoKey = NoKey
  f1 = f1
  f2 = f2
  t1 = t1
  r1 = r1
  r2 = r2
SYMMETRY Symmetry
INVARIANTS
  LiveSound
  SessionsKept
PROPERTIES
  CredentialsGuarded
  PinsByConsent
  FillSound
CHECK_DEADLOCK FALSE
