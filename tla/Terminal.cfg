SPECIFICATION TerminalSpec
CONSTANTS
    PAGE = 4
    PMM_MAX_PAGES = 7
    LOW = 4
    KERNEL_END = 10
    FALLBACK = 7
    Maps <- MCMaps
    NoMap = NoMap
    Counts = {2}
    Files <- MCFiles
    Arena <- MCArena
    Codes = {0, 7}
    WORD = 256
    HALF = 16
    TERM_ROWS = 2
    TERM_COLS = 2
    TERM_IN = 2
    Texts <- MCTexts
    NL = "nl"
    Packages = {"p"}
    DB_BUF = 3
    Missing = Missing
    Seed <- MCSeed
    Databases <- MCDatabases
INVARIANTS TerminalTypeOK ImagesFaithful OthersUntouched ExitReported
PROPERTIES ImplementsScrollBuffer RecordsKept
CHECK_DEADLOCK FALSE
