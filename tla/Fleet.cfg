\* A driver with two bots and a peer hub; a ring of three hubs and one beside the origin.
SPECIFICATION FleetSpec
CONSTANTS
    b1 = b1
    b2 = b2
    g = g
    Bots = {b1, b2}
    PeerHubs = {g}
    Driver = d
    Manifest <- Tree
    Installed <- From
    Targets <- Asks
    Stubborn = {b2, d}
    Brittle = {b1}
    MaxTries = 2
    MaxBegins = 2
    MaxFaults = 1
    RHubs = {"o", "a", "c", "d"}
    Source = "o"
    Wires <- Ring
    RBots <- TwoBots
    Enrolled <- SyncPending
    Hops = 2
    Ttl = 1
    MapFull = {"d"}
    Room <- Rows
    Viewers = {"a"}
    MaxRounds = 2
    MaxChanges = 2
    MaxEdits = 1
    MaxVersion = 2
    Content <- Undone
    Size <- Growing
    LaneCap = 2
    ByteCap = 2
    WritingCap = 3
    BulkBudget = 1
    DeltaBudget = 2
    MaxEvents = 1
CHECK_DEADLOCK FALSE
INVARIANTS  QueueTrue
PROPERTIES Together ConfigFirst RollEnds Delivered
