SPECIFICATION Spec
CONSTANTS
    HDR = 2
    HEAP_ALIGN = 2
    HEAP_MIN = 2
    PAGE = 4
    ARENA = 2
    EARLY_HEAP = 12
    TOP = 32
    Requests = {1, 3, 5}
INVARIANTS TypeOK BlocksTile ListCoherent LiveBlocksExact UsedExact NoAdjacentFree
PROPERTIES DoubleFreeIgnored LiveBlocksStable
CONSTRAINT Intact
VIEW Readable
