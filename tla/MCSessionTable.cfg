CONSTANTS
    Ids = {s1, s2}
    MaxPerUser = 1
    Seekable = {s1}
    Seeks = {r1, r2}
    Picks = {r1}
    NoRun = NoRun
    AtStart = AtStart
    NoSession = NoSession
    NoIntent = NoIntent
    Nobody = Nobody
SPECIFICATION Spec
CHECK_DEADLOCK FALSE
INVARIANTS
    CapHolds
    NoRunAfterEnd
    LastSeekPlays
    IdleIsTruth
PROPERTIES
    SeekAnswered
