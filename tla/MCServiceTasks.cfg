SPECIFICATION FairSpec
CONSTANTS
    a = a
    b = b
    Tasks = {a, b}
    Interval <- TwoIntervals
    NumChats = 5
    Initially = 4
    Limit = 3
    Batch = 2
    MaxChanges = 1
    MaxFailures = 1
INVARIANTS
    Spaced
    ChatsOnce
PROPERTIES
    KeepsFiring
