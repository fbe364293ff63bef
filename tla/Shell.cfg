SPECIFICATION Spec
CONSTANTS
    WM_MAX_WINDOWS = 2
    max_windows = 2
INVARIANTS TypeOK FocusCoherent WindowsCounted DragCoherent PopupsExclusive
PROPERTY DragEnds
