CONSTANTS
    Creates = {c1, c2}
    Deletes = {d1}
    Starts = {s1, s2}
    None = None
    MaxStoreFaults = 1
    MaxFileFaults = 2
SPECIFICATION FairSpec
CHECK_DEADLOCK FALSE
PROPERTIES
    ImplementsProjects
    LockIsReleased
    ReservationEnds
