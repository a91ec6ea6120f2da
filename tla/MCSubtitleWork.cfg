CONSTANTS
    Files = {"f1"}
    TextTracks = {"e1"}
    ImageTracks = {"i1"}
    Chunks = 2
    MaxParts = 2
    Window = 1
    RefillAt = 0
    BlockAfter = 2
    MaxWalks = 2
    MaxDisturbances = 1
    KindSets = {{"text"}, {"sets"}}
    DeletesRace = FALSE
SPECIFICATION Spec
CHECK_DEADLOCK FALSE
INVARIANTS
    MissingIsOutstanding
    TornOnlyWhenDoubled
PROPERTIES
    RowsAreSettledByDisk
    MissingIsResolved
