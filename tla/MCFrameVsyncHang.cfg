CONSTANTS
    HActive = 2
    HTotal = 3
    VActive = 1
    VTotal = 4
    VSyncLines <- MCSyncLines1
    Fault = "halt"
    BadWords <- MCBadWords
    X = X
    FFH = 1
    FFV = 1
    CycleBudget = 96
    Frames = 3
    Images <- MCImages2
    RefLoaded = TRUE
SPECIFICATION Spec
PROPERTY HarnessTerminates
CHECK_DEADLOCK FALSE
