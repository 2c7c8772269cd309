SPECIFICATION SceneSpec
CONSTANTS
  Plain = {"p1"}
  Cancellable = {"c1"}
  Reopeners = {"r1"}
  Parallelism = 2
  ServerMax = 1
  OpenRetryMax = 1
  MaxOps = 3
  MaxDown = 1
  MaxFlaw = 1
INVARIANTS
  PoolSound
  TransfersWhole
PROPERTIES
  LeasedCurrent
  SharedSound
  ItemsKept
CHECK_DEADLOCK FALSE
