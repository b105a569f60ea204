SPECIFICATION ChunkerSpec
CONSTANTS
    MaxLen = 12
    MaxLines = 2
    Shapes = {"blank", "word", "heading", "fence", "prose", "emoji", "oneliner"}
INVARIANTS NothingIsLost
CHECK_DEADLOCK FALSE
