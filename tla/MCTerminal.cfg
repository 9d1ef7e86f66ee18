CONSTANTS
    Total = 3
    Invocations = 1
    MaxBreaks = 1
    MaxConns = 2
    Chunks = {1, 2}
    ReplayLimit = 2
    QueueCap = 1
    Window = 2
    MaxAttachments = 1
    None = None
CHECK_DEADLOCK FALSE
SPECIFICATION Spec
INVARIANTS
    TypeOK
    EndMeansComplete
    BacklogIsBounded
    AcksAreValid
PROPERTIES
    ImplementsOutputStream
