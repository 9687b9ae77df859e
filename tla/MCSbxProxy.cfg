SPECIFICATION SbxSpec
CONSTANTS
    Flows = {1, 2, 3}
    Conns = {c1, c2, c3}
    Stray = Stray
    Nil = Nil
    Worlds <- MCWorlds
    Reloads <- MCReloads
    Questions <- MCQuestions
    MaxPeerActs = 2
    MaxIdlePer = 1
    Names = {n1, n2, n3, n0}
    NoName = n0
    Sink = Sink
    MaxEntries = 2
    AuditLimit = 2
    MaxFrames = 4
    Idle = Idle
INVARIANTS
    
    
    MatchersExact
CHECK_DEADLOCK FALSE
