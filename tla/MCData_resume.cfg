SPECIFICATION FairSpec
CONSTANTS
    ChunkCount = 3
    Window = 2
    Journaling = TRUE
    SyncOptions = {TRUE}
    Disturbances = {"drop"}
    MaxAttempts = 2
    MaxDisturbed = 1
INVARIANT PartialResumeArrives
CHECK_DEADLOCK FALSE
