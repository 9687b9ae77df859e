CONSTANTS
  PodKeys = {k1}
  ChanCap = 2
  WireCap = 1
  OutCap = 1
  MaxCreates = 2
  MaxDrops = 1
SPECIFICATION WatchSpec
INVARIANTS Converged
PROPERTIES DeadPodCleared
CHECK_DEADLOCK FALSE
