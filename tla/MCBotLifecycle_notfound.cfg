SPECIFICATION Spec
CONSTANTS
    ServiceIds = {s1}
    Jobs = {j1,j2}
    s1 = s1
    j1 = j1
    j2 = j2
    NoBot = NoBot
    MaxStarts = 1
    Disciplined = FALSE
    MaxCrashes = 0
SYMMETRY JobSymmetry
INVARIANTS
    NotFoundIsNotStarted
CHECK_DEADLOCK FALSE
