SPECIFICATION FairSpec
CONSTANTS
    ServiceIds = {s1}
    Jobs = {j1,j2}
    Updates = {u1}
    s1 = s1
    j1 = j1
    j2 = j2
    u1 = u1
    NoBot = NoBot
    MaxStarts = 1
    Disciplined = TRUE
    MaxCrashes = 1
INVARIANTS
    NoOrphan
    StoppedStays
    WebhookRemoved
    AssignmentRemoved
    RegisteredServes
    ReadyNotLost
PROPERTIES
    IsRegistry
    EveryJobEnds
CHECK_DEADLOCK FALSE
