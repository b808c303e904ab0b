CONSTANTS
    Apps = {"A1", "A2"}
    Names = {"s"}
    NoName = "no"
    OwnerOf <- MCOwnerOf
    DoubleBuffered = {}
    DumpOnly = {}
    UserDef = {}
    Critical = {}
    Validating = {"s"}
    Files = {"good", "bad"}
    MAX_TABLES = 1
    MAX_HANDLES = 1
    MAX_LOADS = 1
    MAX_VALIDATIONS = 1
    MAX_CRITICAL = 1
    POOL = 1
    Fragmented = FALSE
    Resets = FALSE
    Orderly = TRUE
SPECIFICATION Spec
PROPERTIES
    ActivatedValid
CHECK_DEADLOCK FALSE
