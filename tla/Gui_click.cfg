CONSTANTS
    MaxShows = 2
    ClicksAskLoader = TRUE
    SoftKeyboard = FALSE
    MayStop = FALSE
SPECIFICATION Spec
INVARIANTS
    LockChecksHold
CHECK_DEADLOCK FALSE
