\* A link: four connections at once, two failures.
\* Admins: two, with deletes, flag drops, edits, a bot, a lost link or a restart.
SPECIFICATION TwoSpec
CONSTANTS
    Slots = {1, 2, 3, 4}
    MaxFails = 2
    h1 = h1
    h2 = h2
    x = x
    y = y
    Hubs = {h1, h2}
    Admins = {x, y}
    Links <- Pair
    Skew <- Even
    Lesser = 2
    Window = 1
    Ahead = 20
    DropLog = 1
    MaskTs = 2
    PushTs = {2}
    MaxNow = 2
    MaxOps = 3
    MaxDrops = 1
CHECK_DEADLOCK FALSE
INVARIANTS OneLink FloorHolds Agree
PROPERTIES Stays BothLink Settles
