CONSTANTS
    Creates = {c1}
    Renames = {r1}
    Deletes = {d1}
    Starts = {s1}
    None = None
    MaxStoreFaults = 0
    MaxFileFaults = 0
    MaxCrashes = 1
SPECIFICATION Spec
CHECK_DEADLOCK FALSE
INVARIANTS
    CallerStopsProcesses
