SPECIFICATION Inputs
CONSTANTS
    MIN_MEDIA_LENGTH = 2
    MAX_MEDIA_LENGTH = 10
    MaxParts = 4
    MaxTokens = 5
    MaxFiles = 21
    MaxButtons = 4
    MaxChars = 6
    MaxNodes = 4
    MaxObjects = 2
INVARIANTS
    InOrder
    Nested
    TextKept
    SentOnce
    ButtonsPlaced
    Expanded
    ReadBack
    StartedOnce
CHECK_DEADLOCK FALSE
