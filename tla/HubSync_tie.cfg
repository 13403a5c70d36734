\* Two hubs add the same channel with different keys in one second.
SPECIFICATION Spec
CONSTANTS
    a = a
    b = b
    c = c
    x = x
    Hubs = {a, b}
    Edges <- Pair
    Recs = {x}
    RecKind <- KindC
    Vals = {1, 2}
    Skew <- NoSkew
    MaxFuture = 3
    LaneCap = 1
    Hold = 1
    DedupWindow = 9
    MaxRecent = 1
    MaxClock = 9
    MaxNow = 1
    MaxStamp = 1
    MaxWrites = 2
    MaxPurges = 0
    MaxEdits = 2
    MaxDrops = 0
    MaxTrouble = 1
    Trusted = {}
    Sweeps = TRUE
    Linked <- Pair
CHECK_DEADLOCK FALSE
PROPERTIES Converges
