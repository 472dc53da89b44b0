SPECIFICATION Spec
CONSTANTS
    c1 = c1
    c2 = c2
    c3 = c3
    c4 = c4
    r1 = r1
    r2 = r2
    Subjects <- FourChats
    Initially <- FourInOrder
    Runs = {r1, r2}
    Limit = 3
    Batch = 2
    Debug = TRUE
    MaxGrants = 1
    MaxChanges = 1
SYMMETRY RunSymmetry
INVARIANTS
    TypeOK
    Conservation
    AllChatsOnce
PROPERTIES
    NoneSkipped
CHECK_DEADLOCK FALSE
