\* The same mesh without faults; no node is flaky.
SPECIFICATION Spec
CONSTANTS
    d = d
    h1 = h1
    h2 = h2
    b0 = b0
    b1 = b1
    None = None
    Hubs = {d, h1, h2}
    Bots = {b1}
    Driver = d
    Links <- Chain
    Home <- FarBot
    ClientOrder <- Conns1
    Selections <- Whole
    Unfit = {}
    Flaky = {}
    Retained = {}
    Expiring = {}
    SameVersion = FALSE
    Divisor = 1
    WaveMax = 2
    Frail = {}
    MaxFaults <- NoFaults
CHECK_DEADLOCK FALSE
INVARIANT AbortRollsBack
