SPECIFICATION Spec
CONSTANTS
    m1 = m1
    m2 = m2
    v1 = v1
    NoMovement = NoMovement
    Movements <- OneMovement
    Versions = {v1}
    object <- MCobject
    max_attempts = 1
    SampleIndices <- NoSample
    max_grants = 4
    MaxIncarnation = 1
    MaxEpoch = 1
    MaxFaults = 0
    Faults = {}
    Crashable = {}
    Commands = {"cancel"}
    MaxCommands = 1
CHECK_DEADLOCK FALSE
PROPERTY CancelIsDurable
