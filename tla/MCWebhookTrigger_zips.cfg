SPECIFICATION Spec
CONSTANTS
    c1 = c1
    c2 = c2
    c3 = c3
    c4 = c4
    r1 = r1
    Subjects <- ThreeChats
    Initially <- ThreeInOrder
    Runs = {r1}
    Limit = 3
    Batch = 2
    Debug = FALSE
    MaxGrants = 0
    MaxChanges = 0
INVARIANTS
    ZipsAgree
CHECK_DEADLOCK FALSE
