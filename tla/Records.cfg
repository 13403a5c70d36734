\* Channels: one, a ban of it and one of all, a clock of two.
\* Link: two data frames each way, one tampered with.
\* Gate: two addresses for tables of one row.  Lists: two entries each, two changes.
\* Bots: two, a revoke list of one, a clock of two days, four moves of operators or bots (logins among the first two), one mishap.
SPECIFICATION RecordsSpec
CONSTANTS
    Chans = {"a"}
    Bans <- BanAndAll
    CapOld = 1
    CapC = 1
    CapB = 1
    CapPerChan = 1
    CapGlobal = 1
    MaxFuture = 1
    Keep = 1
    Hold = 1
    MaxClock = 2
    Reboots = 1
    Speaks = {1, 2}
    UrgentCap = 2
    MaxData = 2
    MaxFaults = 1
    Ips = {"i1", "i2"}
    PeerIps = {"i2"}
    MaxKnown = 1
    KnownMemory = 2
    MaxRows = 1
    MaxSshRows = 1
    PerIp = 2
    ChurnN = 1
    ChurnS = 2
    ChurnBlock = 2
    FailN = 1
    FailS = 1
    FailBlock = 2
    StartupsStart = 1
    StartupsFull = 2
    ConnectN = 1
    ConnectS = 2
    SshFailN = 1
    SshFailS = 1
    SshBlock = 1
    SshBlockMax = 1
    BlockMemory = 2
    SuccessMemory = 2
    RowMemory = 1
    MaxTime = 3
    MaxOpen = 2
    MaxFails = 1
    MaxAccepts = 3
    Hosts = {"h1", "h2"}
    Networks <- Nested
    MaxAcl = 2
    MaxAclEdits = 2
    Uuids = {1, 2}
    MaxRevoked = 1
    FloorHold = 1
    SessSlots = {1, 2}
    MaxDay = 2
    MaxMoves = 4
    MaxLogins = 2
    MaxMishaps = 1
CHECK_DEADLOCK FALSE
INVARIANTS StoreTrue NeverRefused Faithful RowsTrue ListsHold ListsAgree SessionsTrue
PROPERTIES StoreSteps BlockServed NeverBack
