CONSTANTS
    Width = 3
    Height = 2
    Unreadable = Unreadable
    Absent = Absent
    Colors <- MCColors
    Frames = 3
SPECIFICATION Spec
INVARIANT PassMeansSourceShown
CHECK_DEADLOCK FALSE
