SPECIFICATION Spec
CONSTANTS
  b1 = b1
  b2 = b2
  k1 = k1
  k2 = k2
  Boots = {b1, b2}
  Keys = {k1, k2}
  Octets = {1, 2}
  Pooled = {2}
  MaxActive = 2
  MaxWrites = 1
  MaxCalls = 2
  MaxFaults = 1
INVARIANTS DeviceMatchesMemory CapturedStaysResumable FilesOfTheInstant 
SYMMETRY Sym
CHECK_DEADLOCK FALSE
