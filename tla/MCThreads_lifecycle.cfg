SPECIFICATION FairThreadsSpec
CONSTANTS
    w1 = w1
    w2 = w2
    e1 = e1
    a1 = a1
    e2 = e2
    Workers = {w1, w2}
    EndpointConns = {e1, e2}
    AdminConns = {a1}
    max_sessions = 1
    MaxSubmitted = 1
    Stops = TRUE
CHECK_DEADLOCK FALSE
INVARIANT StoreReleasedLast
INVARIANT SessionsAlmostBounded
PROPERTY QueuedIsDriven
PROPERTY StopHeldOnlyByASleeper
