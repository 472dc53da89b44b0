SPECIFICATION Spec
CONSTANTS
    Updates = {u1, u2, u3}
    u1 = u1
    u2 = u2
    u3 = u3
    NoUpdate = NoUpdate
    MaxWaits = 2
    MaxCrashes = 1
SYMMETRY UpdateSymmetry
INVARIANTS
    ClearedForGood
    UnreadIsNewer
PROPERTIES
    IsSlot
CHECK_DEADLOCK FALSE
