SPECIFICATION FairSpec
CONSTANTS
    e1 = e1
    e2 = e2
    o1 = o1
    Endpoints = {e1, e2}
    Objects = {o1}
    MaxEpoch = 2
    MaxGeneration = 2
    MaxStarts = 2
CHECK_DEADLOCK FALSE
INVARIANT ServedUnlessOvertaken
INVARIANT LinkHasSession
PROPERTY DeadIsNoticed
