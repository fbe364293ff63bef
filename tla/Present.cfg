SPECIFICATION BootSpec
CONSTANTS
    PAGE = 4
    PMM_MAX_PAGES = 16
    LOW = 4
    KERNEL_END = 10
    FALLBACK = 10
    Maps <- PresentMaps
    NoMap = NoMap
    Counts = {1, 2, 3, 4}
    LOW_MEM = 20
    HIGH_MEM = 64
    Cpus <- MCCpus
    Tags <- MCTags
    NoTag = NoTag
    SoftWidth = 4
    SoftHeight = 3
    FallbackWords = 6
    Unknown = "unknown"
    Black = "black"
    U32 = 64
    Ops <- MCOps
    CELL = 2
    LINE = 3
    Glyph <- MCGlyph
    NewLine = "nl"
    Transparent = "transparent"
    MAPPED = 60
    Nothing = Nothing
    TASKBAR_H = 1
    COL_DESK = "desk"
    COL_TASKBAR = "bar"
INVARIANT FramesPresented
