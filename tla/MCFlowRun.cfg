SPECIFICATION FairSpec
CONSTANTS
    Tasks <- WaysTasks
    Start <- NoWay
    Parent <- WaysParent
    Above <- WaysAbove
    Kind <- WaysKind
INVARIANTS
    EndsLast
    Isolated
    OwnAnswer
PROPERTIES
    FlowEnds
CHECK_DEADLOCK FALSE
