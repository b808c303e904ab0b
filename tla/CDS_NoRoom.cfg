CONSTANTS
    SIZES = {2, 3}
    START = 1
    POOL_MAX = 9
    ALIGN = 1
    Names = {"a", "b"}
    NoName = "no"
    MAX_ENTRIES = 2
    SizesOf <- MCSizesOf
    ImagesOf <- MCImagesOf
    Faults = {"noroom"}
SPECIFICATION Spec
INVARIANTS
    NoSharedBlock
CHECK_DEADLOCK FALSE
