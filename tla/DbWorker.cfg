CONSTANTS
  MaxOps = 4
  MaxDeaths = 1
  Atomic = {1, 3}
SPECIFICATION Spec
INVARIANTS
  WorkerInv
  ShutdownDrains
  CancelledIsPast
PROPERTY KeepsContract
CHECK_DEADLOCK FALSE
