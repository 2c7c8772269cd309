SPECIFICATION FairSceneSpec
CONSTANTS
  Threads = {"u1", "u2"}
  Ops = {"unlock", "lock", "reset", "create", "sftp"}
  Passwords = {1, 2}
  FirstRecord <- Legacy
  ServerRecords = {}
  MaxOps = 4
  MaxCrash = 1
  MaxSwap = 0
  MaxGen = 3
CONSTANTS
  f1 = f1
  t1 = t1
  r1 = r1
  r2 = r2
  c1 = c1
  m1 = m1
INVARIANTS
  KeysetSound
PROPERTIES
  DeskEnds
CHECK_DEADLOCK FALSE
