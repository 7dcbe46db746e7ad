SPECIFICATION FairSpec
CONSTANTS
    e1 = e1
    e2 = e2
    i1 = i1
    f1 = f1
    f2 = f2
    NoEvent = NoEvent
    Events = {e1, i1}
    Fills = {f1, f2}
    FillOf <- MCFillOf
    Ignored = {i1}
    ReceivedAt <- MCReceivedAt
    Batch = 1
    Lease = 1
    MaxAttempts = 2
    RetryBase = 1
    RetryMax = 2
    MaxPosts = 1
    MaxFaults = 1
CHECK_DEADLOCK FALSE
PROPERTY
    BacklogDrains
