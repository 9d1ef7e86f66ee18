CONSTANTS
    Keys = {k1, k2}
    Invocations = {i1, i2, i3}
    Callers = {c1, c2}
    None = None
SPECIFICATION Spec
SYMMETRY Symmetry
INVARIANTS
    AtMostOneHarness
    StopConfirms
    CloseJoins
    StatusAgreesWithStart
PROPERTIES
    ImplementsExclusiveExecution
    UsesLauncherContract
