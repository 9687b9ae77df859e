\* A client with up to two connections, a ring and a channel of two, two types.
SPECIFICATION FairSpec
CONSTANTS
  Clients = {c1}
  Types = {a, b}
  Cap = 2
  SubDepth = 2
  MaxEvents = 4
  MaxConns = 2
CHECK_DEADLOCK FALSE
INVARIANTS InOrder NothingSkipped ChannelsSafe
PROPERTY Delivered
