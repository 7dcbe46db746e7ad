SPECIFICATION Spec
CONSTANTS
    e1 = e1
    e2 = e2
    i1 = i1
    f1 = f1
    f2 = f2
    NoEvent = NoEvent
    Events = {e1, e2}
    Fills = {f1, f2}
    FillOf <- MCFillOf
    Ignored = {}
    ReceivedAt <- MCReceivedAt
    Batch = 2
    Lease = 1
    MaxAttempts = 3
    RetryBase = 1
    RetryMax = 1
    MaxPosts = 1
    MaxFaults = 1
CHECK_DEADLOCK FALSE
INVARIANTS
    TypeOK
    ReadyMeansApplied
    AppliedOnceUnlessExposed
