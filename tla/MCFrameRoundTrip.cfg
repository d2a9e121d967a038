CONSTANTS
    HActive = 2
    HTotal = 3
    VActive = 2
    VTotal = 5
    VSyncLines <- MCSyncLines2
    Fault = "none"
    BadWords <- MCBadWords
    X = X
    FFH = 1
    FFV = 2
    CycleBudget = 120
    Frames = 3
    Images <- MCImages4
    RefLoaded = TRUE
SPECIFICATION Spec
INVARIANT TypeOK
PROPERTY RoundTrip
CHECK_DEADLOCK FALSE
