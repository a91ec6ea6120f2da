CONSTANTS
    Sessions = {s1}
    Boxes = {b1, b2}
    NoBox = NoBox
    MaxSessions = 1
    MaxLinks = 2
    MaxLossy = 1
    MaxStarts = 3
    MaxSeeks = 1
    MaxDeaths = 1
    Timeouts = TRUE
    Abandons = TRUE
SPECIFICATION Spec
CHECK_DEADLOCK FALSE
INVARIANTS
    NoLeakedSlot
    NoOrphanRun
    NoFrozenSession
