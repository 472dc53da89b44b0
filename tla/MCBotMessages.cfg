SPECIFICATION Spec
CONSTANTS
    Handlers = {h1, h2, h3}
    h1 = h1
    h2 = h2
    h3 = h3
    MaxRequests = 2
    MaxCrashes = 1
SYMMETRY HandlerSymmetry
INVARIANTS
    DeletedOnce
    WholeMessages
CHECK_DEADLOCK FALSE
