CONSTANTS
  Keys = {k1, k2}
  Requests = {r1, r2, r3}
  Builds = {b1, b2}
  MaxFaults = 1
  MaxTags = 1
  MaxActive = 2
SPECIFICATION Spec
SYMMETRY Symm
INVARIANTS OneHolder YoungestSurvives OnePodPerRef
CHECK_DEADLOCK FALSE
