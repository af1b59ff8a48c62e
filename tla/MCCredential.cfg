SPECIFICATION Spec
CONSTANTS
    Sessions = {s1, s2}
    Unsealers = {u1}
    Keys = {k1, k2}
    NoKey = NoKey
    Passphrases = {p1, p2}
    NoPass = NoPass
    NoFile = NoFile
    TTLs <- MCTTLs
    MaxTTL = 2
    Developer = TRUE
    MaxTime = 3
    MaxCommands = 3
CHECK_DEADLOCK FALSE
INVARIANT KeySafe
PROPERTIES WatcherSparesOpenWindow AuthorizationSpec ExpiredKeyLocked
