\* A chain of three hubs with a bot on the driver and one on the next hub; the whole
\* network without faults, or all but the driver and its bot with one.
SPECIFICATION Spec
CONSTANTS
    d = d
    h1 = h1
    h2 = h2
    b0 = b0
    b1 = b1
    None = None
    Hubs = {d, h1, h2}
    Bots = {b0, b1}
    Driver = d
    Links <- Chain
    Home <- OneEach
    ClientOrder <- Conns
    Selections <- Runs
    Unfit = {}
    Flaky = {d, h1, b0}
    Retained = {h1, h2}
    Expiring = {h1}
    SameVersion = FALSE
    Divisor = 1
    WaveMax = 2
    Frail <- FirstHub
    MaxFaults <- Faults
CHECK_DEADLOCK FALSE
INVARIANTS CommitHasRun
PROPERTIES Refines Thaws
