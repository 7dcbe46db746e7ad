SPECIFICATION Spec
CONSTANTS
    Required = {"OPEN_ORDERS", "ACCOUNT_POSITIONS"}
    MaxAttempts = 2
    MaxRuns = 2
    MaxQty = 1
    FirstQty = {1}
    MaxChanges = 1
    MaxFaults = 1
INVARIANTS
    TypeOK
    ReadyUnlessOverwritten
    AnsweredIsDecided
CHECK_DEADLOCK FALSE
