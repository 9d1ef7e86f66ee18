CONSTANTS
    Total = 1
    Invocations = 2
    MaxBreaks = 1
    MaxConns = 4
    Chunks = {1, 2}
    ReplayLimit = 2
    QueueCap = 1
    Window = 2
    MaxAttachments = 2
    None = None
CHECK_DEADLOCK FALSE
SPECIFICATION Spec
INVARIANTS
    NoOrphanConnection
