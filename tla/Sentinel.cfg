SPECIFICATION Spec
CONSTANTS
  IPs = {1, 2}
  Sites = {"a", "b"}
  None = None
  Env <- Environment
  Settings <- MCSettings
  Batches <- MCBatches
  MaxTime = 4
  MaxBatches = 2
  MaxFaults = 1
INVARIANTS HardBlockEarned QuietReleased ThresholdsOrdered
CHECK_DEADLOCK FALSE
