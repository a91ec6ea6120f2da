CONSTANTS
    Sources = {s1}
    Revs = {1, 2, 3}
    SizeOf <- MCSizeOf
    MtimeOf <- MCMtimeOf
    FactKinds = {"file_hashes", "file_loudness"}
    KindRank <- MCKindRank
    Errors = {e1, e2}
    FailedHashes = FALSE
    MaxVersion = 7
    MaxEpoch = 2
    MaxTasks = 2
    NoFile = NoFile
    NoRev = NoRev
    NoError = NoError
    NoRecord = NoRecord
    Empty = Empty
SPECIFICATION Spec
CHECK_DEADLOCK FALSE
INVARIANTS
    TypeOK
    VersionsAreUnique
    FactsFollowTheirFile
    JournalMatchesFiles
    NothingUnadvertised
