SPECIFICATION Spec
CONSTANTS
    m1 = m1
    m2 = m2
    v1 = v1
    NoMovement = NoMovement
    Movements <- TwoMovements
    Versions = {v1}
    object <- MCobject
    max_attempts = 2
    SampleIndices <- OneSample
    max_grants = 2
    MaxIncarnation = 1
    MaxEpoch = 2
    MaxFaults = 1
    Faults = {"transfer","damage","break","io","read"}
    Crashable = {"C"}
    Commands = {"reconcile"}
    MaxCommands = 1
SYMMETRY Interchangeable
CHECK_DEADLOCK FALSE
INVARIANT TypeOK
INVARIANT CommitEvidence
PROPERTY ImplementsOutcome
PROPERTY GenerationFences
