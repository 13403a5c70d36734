\* One connection, one admin, one change of its key.
SPECIFICATION LoginSpec
CONSTANTS
    MaxConns = 1
    Addrs = {"i1"}
    AdminNames = {"n1"}
    KeyIds = {"k1", "k2"}
    Limits <- One
    AuthTries = 2
    MaxEdits = 1
CHECK_DEADLOCK FALSE
INVARIANTS ClosesOnChange
