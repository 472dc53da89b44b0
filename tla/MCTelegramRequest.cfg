SPECIFICATION Spec
CONSTANTS
    group = group
    r1 = r1
    r2 = r2
    r3 = r3
    r4 = r4
    Requests = {r1, r2, r3, r4}
    Chat <- Targets
    NoChat = NoChat
    Global = Global
    Bucket <- TightBuckets
    MaxTicks = 3
    MaxRetries = 1
INVARIANTS
    GlobalRate
    CarriedOutOnce
    ChatTotal
CHECK_DEADLOCK FALSE
