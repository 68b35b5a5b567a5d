SPECIFICATION Spec
CONSTANTS
    m1 = m1
    m2 = m2
    Loads <- MCLoads
    Secrets = {s1, s2}
    CoordinatorSecret = s1
    Roles = {"ENDPOINT", "ADMIN"}
    Movements = {m1, m2}
    Generations = {1, 2}
    NoThread = NoThread
CHECK_DEADLOCK FALSE
INVARIANTS DeliveredPrefix RefusalHasCause KeyedIsPeer AckedIsAnnounced SlotHolderWaits AckedGrantIsHeld
PROPERTIES  LinkEndsAtBothEnds
