CONSTANTS
    Total = 1
    Invocations = 2
    MaxBreaks = 0
    MaxConns = 3
    Chunks = {1}
    ReplayLimit = 1
    QueueCap = 1
    Window = 1
    MaxAttachments = 1
    None = None
SPECIFICATION FairSpec
CHECK_DEADLOCK FALSE
INVARIANTS
    EndMeansComplete
PROPERTIES
    FinalOutputShown
    ViewReconnects
