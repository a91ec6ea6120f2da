CONSTANTS
    Sources = {s1}
    Revs = {1, 2}
    SizeOf <- MCSizeOf
    MtimeOf <- MCMtimeOf
    FactKinds = {"file_hashes"}
    KindRank <- MCKindRank
    Errors = {e1}
    FailedHashes = TRUE
    MaxVersion = 4
    MaxEpoch = 2
    MaxTasks = 1
    PageSize = 2
    LinkCap = 1
    MaxBreaks = 1
    NoFile = NoFile
    NoRev = NoRev
    NoError = NoError
    NoRecord = NoRecord
    Empty = Empty
    NoRow = NoRow
    NoFact = NoFact
    NoAck = NoAck
    NoSync = NoSync
    NoCursor = NoCursor
SPECIFICATION SyncSpec
CHECK_DEADLOCK FALSE
INVARIANTS
    CursorCovers
    ProjectedFactsFit
    RefusedOnlyForHashes
PROPERTIES
    SnapshotKeepsProjection
