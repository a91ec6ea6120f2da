CONSTANTS
    Jobs = {j1, j2, j3}
    Workloads <- MCWorkloads
    Owners = {"h1", "h2"}
    Domains = {"a", "b"}
    Exclusives = {"segments"}
    Sources = {"f"}
    Levels = {0, 1, 2}
    Viewers = {v1}
    Interactions <- MCInteractions
    CpuSlots = 1
    IoCapacity <- MCIoCapacity
    MaxHints = 1
    MaxCancels = 1
    MaxYields = 1
SPECIFICATION Spec
CHECK_DEADLOCK FALSE
INVARIANTS
    WithinCapacity
    PauseIsHeard
    NoIdleCapacity
    NoLostWakeup
