\* Three sandboxes over a pool of two slots; wiring a slot may fail.
CONSTANTS
  Tenants = {t1, t2, t3}
  Target = 2
  ProvisionMayFail = TRUE
  FlushMayFail = FALSE
SPECIFICATION FairSpec
CHECK_DEADLOCK FALSE
INVARIANTS
  ReleaseNeverBlocks
  NoInheritedFlows
PROPERTIES
  ImplementsAlloc
  SlotComesBack
