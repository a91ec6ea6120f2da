CONSTANTS
    Starts <- MCStarts
    MaxEnds = 2
    MaxCrashes = 1
SPECIFICATION Spec
CHECK_DEADLOCK FALSE
INVARIANTS
    EndIsFinal
    TeardownReachesAll
PROPERTIES
    KeepsContract
    Answered
    CutLeavesNothing
