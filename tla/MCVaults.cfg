SPECIFICATION SceneSpec
CONSTANTS
  Accounts = {alice}
  Passwords = {"p", "q"}
  Channels = {}
  Nobody = NoOne
  RelayTTL = 1
  MaxNow = 0
  MaxGen = 2
  MaxPairings = 0
  MaxPushes = 1
  MaxCrashes = 1
  Devices = {d1, d2}
  AccountOf <- OneSignedIn
CONSTANTS
  m1 = m1
  m2 = m2
  h1 = h1
  h2 = h2
  h3 = h3
  a1 = a1
  a2 = a2
  s1 = s1
  s2 = s2
  s3 = s3
  s4 = s4
  v1 = v1
  p1 = p1
  p2 = p2
  alice = alice
  bob = bob
  d1 = d1
  d2 = d2
  d3 = d3
  NoRef = NoRef
  NoOne = NoOne
INVARIANTS
  OnboardingSound
  MoveSound
  FleetSound
PROPERTIES
  HostsSound
CHECK_DEADLOCK FALSE
