CONSTANTS
    MaxCerts = 3
    Links = {"l1", "l2"}
    MaxFaults = 1
    NoCert = NoCert
    NoRow = NoRow
    Free = "free"
SPECIFICATION Spec
CHECK_DEADLOCK FALSE
INVARIANTS
    NotLockedOut
    AllowlistMirrors
PROPERTIES
    RenewalSettles
