SPECIFICATION LocksLiveSpec
CONSTANTS
    Runners = {p1, p2}
    Suites = {s1}
    Workspaces = {w1, w2}
    NewDirs = {d1}
    Nothing = Nothing
    MaxCalls = 2
    MaxEdits = 2
INVARIANTS
    ExecutesUnderBothLocks
    NoLockForgotten
PROPERTIES
    CallEnds
CHECK_DEADLOCK FALSE
