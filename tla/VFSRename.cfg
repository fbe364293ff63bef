SPECIFICATION Spec
CONSTANTS
    VFS_MAX_NODES = 5
    MAX_PARTS = 2
    Names = {"a", "b"}
    Contents = {"", "x"}
    Empty = ""
    Paths <- MCPaths
    SeedDirs <- MCSeedDirs
    SeedFiles <- MCSeedFiles

PROPERTY MvMoves
