SPECIFICATION Spec
CONSTANTS
    a = a
    b = b
    None = None
    Ids = {a, b}
    MaxHistory = 1
    RetentionCompleted = 1
    PayloadCells = {1, 3}
    SyncOptions = {TRUE, FALSE}
    WriteErrors = TRUE
    MaxAppends = 4
SYMMETRY Symmetric
INVARIANT RecoveryIsExact
INVARIANT OpensAfterKills
PROPERTY RetentionSparesActive
