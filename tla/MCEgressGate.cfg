\* Two writes to two sources; file, signal and read errors allowed.
CONSTANTS
  Callers = {c1, c2}
  IPs = {a, b}
  Policies = {p}
  NoRules = NoRules
  NoIP = NoIP
  IOMayFail = TRUE
SPECIFICATION FairSpec
CHECK_DEADLOCK FALSE
INVARIANTS
  AckedRulesAreLive
PROPERTIES
  ImplementsPromise
  EventuallyLive
