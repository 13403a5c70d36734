\* Three hubs; one write and one purge, or two purges, of which a hub
\* remembers one for a second; the third link comes up late.
SPECIFICATION Spec
CONSTANTS
    a = a
    b = b
    c = c
    x = x
    Hubs = {a, b, c}
    Edges <- Triangle
    Recs = {x}
    RecKind <- KindC
    Vals = {1}
    Skew <- NoSkew
    MaxFuture = 3
    LaneCap = 1
    Hold = 1
    DedupWindow = 1
    MaxRecent = 1
    MaxClock = 2
    MaxNow = 1
    MaxStamp = 1
    MaxWrites = 1
    MaxPurges = 2
    MaxEdits = 2
    MaxDrops = 0
    MaxTrouble = 2
    Trusted = {b}
    Sweeps = FALSE
    Linked <- Line
CHECK_DEADLOCK FALSE
SYMMETRY Swap
INVARIANTS NothingLost PurgeOnce
