CONSTANTS
    Links = {1, 2, 3}
    Sessions = {s1}
    NoLink = NoLink
    MaxMessages = 1
    MaxDeletes = 1
    FailingDelete = TRUE
    DroppedHandler = TRUE
    HellosInOrder = FALSE
SPECIFICATION Spec
CHECK_DEADLOCK FALSE
INVARIANTS
    WorkerIsCurrent
    LinkedIsEnrolled
