SPECIFICATION FairSpec
CONSTANTS
    ChunkCount = 4
    Window = 2
    Journaling = TRUE
    SyncOptions = {TRUE, FALSE}
    Disturbances = {"drop", "kill", "io", "cancel", "damage", "rot"}
    MaxAttempts = 3
    MaxDisturbed = 3
INVARIANT ArrivedIsExact
INVARIANT WindowBounded
INVARIANT JournalWithinBytes
INVARIANT FreshAttemptArrives
PROPERTY EveryAttemptEnds
CHECK_DEADLOCK FALSE
