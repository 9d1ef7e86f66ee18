SPECIFICATION FairSpec
INVARIANTS
    FailureReleases
    ReportVouchesForHarness
PROPERTIES
    ImplementsLauncher
    LauncherReturns
    CancelJoins
