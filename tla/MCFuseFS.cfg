\* Two files on a sync or an async mount, which may end at any point.
SPECIFICATION FuseSpec
CONSTANTS
  f1 = f1
  f2 = f2
  Files = {f1, f2}
  Absent = Absent
  Dir = Dir
  Link = Link
  Miss = Miss
  Modes = {TRUE, FALSE}
  MaxWrites = 2
  MaxOps = 2
  MaxReads = 2
  MaxDead = 1
SYMMETRY Symm
CHECK_DEADLOCK FALSE
INVARIANTS DirtyBalanced UploadsLand DrainedMeansStored
