SPECIFICATION FairSpec
CONSTANTS
    o1 = o1
    o2 = o2
    c1 = c1
    c2 = c2
    c3 = c3
    b1 = b1
    kOrder = kOrder
    kControl = kControl
    NoId = NoId
    Ids = {b1, c1}
    Keys = {kControl}
    KeyOf <- MCKeyOf
    Kind <- MCKind
    Rank <- MCRank
    TTL <- MCTTL
    MaxAttempts <- MCMaxAttempts
    Retention = 2
    Limits = {1}
    ExpireStaleDispatched = FALSE
    MaxTime = 3
INVARIANTS
    QueuedHasAttemptLeft
    DeliveriesBounded
PROPERTY
    OpenCommandsClose
