SPECIFICATION StoreSpec
CONSTANTS
    m1 = m1
    m2 = m2
    a = a
    b = b
    c = c
    Absent = Absent
    Movers = {m1, m2}
    Contents = {a, b, c}
    Size <- MCSize
    Faults = {"crash", "io", "edit", "cleanup", "read"}
    MaxStagings = 2
    MaxPublications = 2
    MaxQueries = 1
    MaxFaults = 1
SYMMETRY Interchangeable
INVARIANTS
    BytesMissingHasCause
    MarkerRewrittenOnce
PROPERTIES
    MarkerIsExact
    AuthorityIsHeld
CHECK_DEADLOCK FALSE
