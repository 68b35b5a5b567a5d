SPECIFICATION FairSpec
CONSTANTS
    m1 = m1
    m2 = m2
    v1 = v1
    NoMovement = NoMovement
    Movements <- OneMovement
    Versions = {v1}
    object <- MCobject
    max_attempts = 1
    SampleIndices <- NoSample
    max_grants = 4
    MaxIncarnation = 2
    MaxEpoch = 2
    MaxFaults = 0
    Faults = {}
    Crashable = {"D"}
    Commands = {"cancel","reconcile"}
    MaxCommands = 1
CHECK_DEADLOCK FALSE
INVARIANT CommittedHasMarker
INVARIANT FailedHasNoEffect
PROPERTY EveryMovementSettles
