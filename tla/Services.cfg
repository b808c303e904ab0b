CONSTANTS
    FREE = FREE
    RESERVED = RESERVED
    None = None
SPECIFICATION Spec
INVARIANTS
    IdsExact
    
    ReadsWhole
    ObjectsExact
    BridgeInformed
    
    LogsExact
    EventsExact
    GraceKept
PROPERTIES
    METTracks
    RequestServed
CHECK_DEADLOCK FALSE
