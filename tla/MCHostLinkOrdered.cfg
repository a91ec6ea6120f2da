CONSTANTS
    Links = {1, 2, 3}
    Sessions = {}
    NoLink = NoLink
    MaxMessages = 1
    MaxDeletes = 1
    FailingDelete = FALSE
    DroppedHandler = FALSE
    HellosInOrder = TRUE
SPECIFICATION Spec
CHECK_DEADLOCK FALSE
INVARIANTS
    LinksAgree
    HealthyHostVisible
PROPERTIES
    AbsenceNoticed
    HandshakeProceeds
