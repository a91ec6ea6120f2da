CONSTANTS
    Sources = {s1}
    Revs = {1, 2}
    SizeOf <- MCSizeOf
    MtimeOf <- MCMtimeOf
    FactKinds = {"file_loudness"}
    KindRank <- MCKindRank
    Errors = {e1}
    FailedHashes = FALSE
    MaxVersion = 3
    MaxEpoch = 1
    MaxTasks = 1
    PageSize = 2
    LinkCap = 1
    MaxBreaks = 1
    NoFile = NoFile
    NoRev = NoRev
    NoError = NoError
    NoRecord = NoRecord
    Empty = Empty
    NoRow = NoRow
    NoFact = NoFact
    NoAck = NoAck
    NoSync = NoSync
    NoCursor = NoCursor
SPECIFICATION SyncSpec
CHECK_DEADLOCK FALSE
PROPERTIES
    Converges
