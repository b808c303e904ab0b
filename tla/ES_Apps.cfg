CONSTANTS
    Names = {n1, n2}
    NoName = NoName
    FREE = FREE
    RESERVED = RESERVED
    MAX_APPS = 2
    MAX_TASKS = 2
    SCAN_RATE = 2
    KILL_TIMEOUT = 1
    Delays = {1}
    CmdMax = 3
    ChildMax = 1
    CreateMayFail = FALSE
    PromptStart = TRUE
    QuietCleanup = TRUE
SPECIFICATION Spec
SYMMETRY NameSymmetry
INVARIANTS
    RecordsExact
    NothingLeft
    RequestHonoured
PROPERTIES
    NeverRevived
    ImplementsLife
CHECK_DEADLOCK FALSE
