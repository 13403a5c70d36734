\* Three lines typed and two events; five strokes, among them a lone Esc, a paste and an overlong sequence; a ring of two log lines and a queue of one
\* frame; two whole logins of two admins, or three that never show a key.
SPECIFICATION ConsoleSpec
CONSTANTS
    Typed = {"logOn", "chanOp", "botDel", "y", "rekey", "quit"}
    CmdN = 1
    MaxQueued = 1
    MaxRq = 16
    HeldMax = 1
    MaxLines = 3
    MaxEvents = 2
    Strokes = {"x", "wide", "enter", "bs", "left", "up", "down", "altLeft", "keypadEnter", "^c", "esc", "long", "paste"}
    InputMax = 3
    HistMax = 1
    MaxStrokes = 5
    MaxRun = 2
    RingSize = 2
    OutqMax = 1
    SnapTopics <- StatusOnly
    LogLevels = {1, 2}
    MaxLog = 3
    MaxNews = 1
    MaxSubs = 2
    MaxConns = 3
    Addrs = {"i1", "i2"}
    AdminNames = {"n1", "n2"}
    KeyIds = {"k1", "k2"}
    Limits <- OneOrTwo
    AuthTries = 2
    MaxEdits = 1
CHECK_DEADLOCK FALSE
INVARIANTS UiTrue KeysTrue FeedTrue GateHolds
PROPERTIES EvictFair
