SPECIFICATION Spec
CONSTANTS
    N = 2
    Sides = {"BUY"}
    Qty = 1
    Held = 0
    MaxPerCode = 2
    Recommended = {"NORMAL"}
    Numbered = {FALSE}
    CancelGuard = FALSE
    MaxRestarts = 1
CHECK_DEADLOCK FALSE
INVARIANTS
    OneLiveBuy
    BuysAreTheirOwn
