CONSTANTS
    M1 = M1
    M2 = M2
    M3 = M3
    M4 = M4
    M5 = M5
    MsgIds = {M1, M2, M3, M4, M5}
    InvalidMsgId = InvalidMsgId
    NoRoute = NoRoute
    MAX_MSG_IDS = 3
    MAP_SIZE = 4
    Hash <- MCHash
    SEQ_MOD = 3
SPECIFICATION Spec
INVARIANTS
    LookupExact
    ProbesEnd
    NumberedAlone
PROPERTIES
    DumpFaithful
