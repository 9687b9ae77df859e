\* Two applies on a sandbox that is coming up; other events compete for a channel of one.
SPECIFICATION FairSpec
CONSTANTS
  Requests = {q1, q2}
  Images = {i1}
  NoImage = noimage
  Boots = {b0, b1}
  Runs = {r0, r1}
  EventSets <- SomeEvents
  Boot0 = b0
  Run0 = r0
  Partly = partly
  SubDepth = 1
  MaxOther = 1
  Booting = TRUE
INVARIANTS ChangesExact ReconciledToStore
PROPERTY EventuallyInForce
