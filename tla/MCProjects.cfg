CONSTANTS
    Creates = {c1, c2}
    Renames = {r1, r2}
    Deletes = {d1}
    Starts = {s1}
    None = None
    MaxStoreFaults = 1
    MaxFileFaults = 2
    MaxCrashes = 1
SPECIFICATION Spec
CHECK_DEADLOCK FALSE
SYMMETRY Symmetry
INVARIANTS
    ReadyHasRepository
    FilesKeepTheirRecord
    VersionIdentifiesRecord
PROPERTIES
    ForeignFilesUntouched
    RenameReplacesWhatWasRead
    ImplementsProjectLease
