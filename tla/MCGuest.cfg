SPECIFICATION Spec
CONSTANTS
    Fids = {f1, f2}
    Tags = {t1, t2}
    Names = {n1}
    Root = Root
    Xattr = Xattr
    Free = Free
    MaxReqs = 4
    MaxDeaths = 1
    MaxReconns = 2
    Mounts = {w1, w2}
    Overlap = FALSE
    MaxExports = 3
    MaxFaults = 2
    MaxBehind = 1
    Viewers = {v1, v2}
    Specs = {c1, c2}
    None = None
    RingCap = 1
    SubBuffer = 1
    MaxLaunches = 2
    MaxChunks = 2
    MaxTyped = 1
    Execs = {x1}
    Lines <- MCLines
    Code = 1
    MaxDrops = 1
    MaxStdin = 1
    BacklogMax = 2
    LogSubBuffer = 2
    MaxFrames = 4
    MaxDials = 3
    Calls = {k1, k2}
    Files = {p1, p2}
    Chunks = 2
    MaxHops = 2
    Layouts <- MCLayouts
    Nil = Nil
    MaxFileFaults = 1
INVARIANTS
    SessionSurvives
    WorkspacesAttached
    
CONSTRAINT NotTwice
SYMMETRY Sym
CHECK_DEADLOCK FALSE
