SPECIFICATION FairServerSpec
CONSTANTS
    Keys = {k1}
    Invocations = {i1, i2}
    Callers = {c1}
    None = None
INVARIANTS
    RequestsFindStorage
    LockOutlivesUse
    EndReleases
PROPERTIES
    NoLateRequests
    ServerStops
    StopReturns
