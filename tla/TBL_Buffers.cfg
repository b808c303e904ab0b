CONSTANTS
    Apps = {"A1", "A2"}
    Names = {"s", "d", "u"}
    NoName = "no"
    OwnerOf <- MCOwnerOf
    DoubleBuffered = {"d"}
    DumpOnly = {"u"}
    UserDef = {"u"}
    Critical = {}
    Validating = {"s", "d"}
    Files = {"good", "bad"}
    MAX_TABLES = 1
    MAX_HANDLES = 1
    MAX_LOADS = 1
    MAX_VALIDATIONS = 1
    MAX_CRITICAL = 1
    POOL = 2
    Fragmented = TRUE
    Resets = FALSE
    Orderly = TRUE
SPECIFICATION FairSpec
PROPERTIES
    ImplementsImages
    RequestsServed
CHECK_DEADLOCK FALSE
