SPECIFICATION SceneSpec
CONSTANTS
  Threads = {"t1", "t2", "t3"}
  Ops = {"unlock", "blob", "change", "lock", "sftp"}
  Passwords = {1, 2}
  FirstRecord <- Current
  ServerRecords <- Copies
  MaxOps = 3
  MaxCrash = 1
  MaxSwap = 1
  MaxGen = 3
CONSTANTS
  i1 = i1
  i2 = i2
  t1 = t1
  t2 = t2
  t3 = t3
SYMMETRY Symmetry
INVARIANTS
  LinksSound
  RotationSafe
PROPERTIES
  LockHolds
CHECK_DEADLOCK FALSE
