\* Four settings: see FourWorlds.
CONSTANTS
  r1 = r1
  r2 = r2
  k1 = k1
  k2 = k2
  d1 = d1
  d2 = d2
  Requests = {r1, r2}
  Keys = {k1, k2}
  Deletes = {d1, d2}
  Addrs = {1, 2}
  NoReq = NoReq
  Worlds <- FourWorlds
SPECIFICATION FairSpec
CHECK_DEADLOCK FALSE
INVARIANTS AddressOwned ReadyMeansEnforced KeyOwned DurableDelete
PROPERTY Progress
