SPECIFICATION Spec
CONSTANTS
    Handlers = {h1, h2}
    MaxOutput = 0
SYMMETRY Symmetry
INVARIANTS
    WaitMeansStopped
PROPERTIES
    NoLateRegistration
    InputSerialized
