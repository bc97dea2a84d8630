SPECIFICATION Spec
CONSTANTS
    Keys = {"a", "up", "lshift"}
    BUFSZ = 4
    PollMax = 1
    DrainMax = 1
    MaxStrokes = 3
    MaxMouse = 1
INVARIANTS
    KeysInOrder
    NoStuckModifier
PROPERTY
    KeysReturned
CHECK_DEADLOCK FALSE
