SPECIFICATION Spec
CONSTANTS
    Handlers = {h1, h2}
    h1 = h1
    h2 = h2
    MaxRequests = 2
    MaxCrashes = 0
SYMMETRY HandlerSymmetry
INVARIANTS
    LastAreEarlier
CHECK_DEADLOCK FALSE
