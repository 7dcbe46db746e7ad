SPECIFICATION Spec
CONSTANTS
    N = 1
    Sides = {"BUY"}
    Qty = 2
    Held = 0
    MaxPerCode = 2
    Recommended = {"NORMAL", "STOP_NEW_BUY"}
    Numbered = {TRUE, FALSE}
    CancelGuard = FALSE
    MaxRestarts = 1
CHECK_DEADLOCK FALSE
INVARIANTS
    TypeOK
    FillsAreReal
    PositionIsHeld
    NoSilentLoss
