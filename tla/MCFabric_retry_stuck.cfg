SPECIFICATION FairSpec
CONSTANTS
    m1 = m1
    m2 = m2
    v1 = v1
    NoMovement = NoMovement
    Movements <- OneMovement
    Versions = {v1}
    object <- MCobject
    max_attempts = 2
    SampleIndices <- NoSample
    max_grants = 4
    MaxIncarnation = 1
    MaxEpoch = 1
    MaxFaults = 1
    Faults = {"transfer"}
    Crashable = {}
    Commands = {}
    MaxCommands = 0
CHECK_DEADLOCK FALSE
PROPERTY EveryMovementSettles
