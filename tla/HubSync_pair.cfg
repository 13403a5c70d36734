\* Two linked hubs: writes, one purge, link loss or restart, sweeps.
SPECIFICATION Spec
CONSTANTS
    a = a
    b = b
    c = c
    x = x
    Hubs = {a, b}
    Edges <- Pair
    Recs = {x}
    RecKind <- KindB
    Vals = {1, 2}
    Skew <- NoSkew
    MaxFuture = 2
    LaneCap = 1
    Hold = 1
    DedupWindow = 9
    MaxRecent = 1
    MaxClock = 9
    MaxNow = 1
    MaxStamp = 2
    MaxWrites = 2
    MaxPurges = 1
    MaxEdits = 3
    MaxDrops = 1
    MaxTrouble = 1
    Trusted = {}
    Sweeps = TRUE
    Linked <- Pair
CHECK_DEADLOCK FALSE
INVARIANTS Provenance NothingLost
PROPERTIES Converges
