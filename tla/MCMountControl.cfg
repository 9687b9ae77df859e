\* Two settings: see TwoWorlds.
SPECIFICATION FairSpec
CHECK_DEADLOCK FALSE
CONSTANTS
  w1 = w1
  w2 = w2
  Paths = {w1, w2}
  MaxBox = 2
  MaxAcl = 2
  MaxApplies = 2
  Worlds <- TwoWorlds
INVARIANTS AckMeansDrained WorkspaceServed
PROPERTY ActorsFinish
