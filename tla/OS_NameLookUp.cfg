CONSTANTS
    Tasks = {"app", "other"}
    NoTask = "none"
    MAX_OBJECTS = 2
    INDEX_MASK = 4
    ATTEMPTS = 2
    Names = {"a", "b"}
    NoName = "no"
    FREE = FREE
    RESERVED = RESERVED
SPECIFICATION Spec
INVARIANTS
    LockReleased
CHECK_DEADLOCK FALSE
