CONSTANTS
    HActive = 2
    HTotal = 3
    VActive = 1
    VTotal = 4
    VSyncLines <- MCSyncLines1
    Fault = "data"
    BadWords <- MCBadWords
    X = X
    FFH = 1
    FFV = 1
    CycleBudget = 96
    Frames = 3
    Images <- MCImages2
    RefLoaded = TRUE
SPECIFICATION Spec
INVARIANT SampleXNotFatal
CHECK_DEADLOCK FALSE
