SPECIFICATION FairSpec
CONSTANTS
    N = 1
    Sides = {"BUY"}
    Qty = 1
    Held = 0
    MaxPerCode = 2
    Recommended = {"NORMAL", "KILL_SWITCH_ACTIVE"}
    Numbered = {TRUE, FALSE}
    CancelGuard = TRUE
    MaxRestarts = 0
CHECK_DEADLOCK FALSE
INVARIANT
    NoSilentLoss
PROPERTY
    AckOrTimeout
