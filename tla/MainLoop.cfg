SPECIFICATION LoopSpec
CONSTANTS
    KBD_BUF_SIZE = 4
    Keys <- MCKeys
    None = None
    g_freq = 100
    target_fps = 60
    ELAPSED_MAX = 3
INVARIANTS TypeOK KeysInTime
PROPERTIES ImplementsQueue FramesGoOn
