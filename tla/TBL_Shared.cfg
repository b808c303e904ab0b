CONSTANTS
    Apps = {"A1", "A2"}
    Names = {"s", "p"}
    NoName = "no"
    OwnerOf <- MCOwnerOf
    DoubleBuffered = {}
    DumpOnly = {"p"}
    UserDef = {}
    Critical = {"s"}
    Validating = {"s"}
    Files = {"good"}
    MAX_TABLES = 2
    MAX_HANDLES = 2
    MAX_LOADS = 1
    MAX_VALIDATIONS = 1
    MAX_CRITICAL = 1
    POOL = 3
    Fragmented = FALSE
    Resets = TRUE
    Orderly = TRUE
SPECIFICATION Spec
INVARIANTS
    AccessListExact
    BuffersOwned
    RequestsOwned
    
    CriticalSaved
CHECK_DEADLOCK FALSE
