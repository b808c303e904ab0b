CONSTANTS
    A1 = A1
    A2 = A2
    T1 = T1
    T2 = T2
    T3 = T3
    Apps = {A1, A2}
    Tasks = {T1, T2, T3}
    Cleaner = ES
    Msgs = {M1}
    Buffers = {B1, B2}
    NoApp = NoApp
    NoMsg = NoMsg
    NoBuf = NoBuf
    FREE = FREE
    RESERVED = RESERVED
    MAX_PIPES = 1
    MAX_MSG_IDS = 1
    MAX_DEST_PER_PKT = 2
    MAX_DEPTH = 2
    USE_CAP = 32767
    SerialMax = 3
    Depths = {2}
    MsgLims = {1}
    SharedPipes = FALSE
    QuietCleanup = TRUE
    AppOf <- MCAppOf
    Calls <- ZeroCopy
    CounterMod <- NoCounters
SPECIFICATION FairSpec
INVARIANTS
    BuffersExact
    CleanUpComplete
    MsgLimitKept
PROPERTIES
    CallsEnd
    BuffersRecycled
CHECK_DEADLOCK FALSE
