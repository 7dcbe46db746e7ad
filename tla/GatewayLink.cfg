SPECIFICATION LinkSpec
CONSTANTS
    o1 = o1
    o2 = o2
    t1 = t1
    kOrder = kOrder
    kControl = kControl
    NoId = NoId
    Ids = {o1}
    Keys = {kOrder}
    KeyOf <- MCKeyOf
    Kind <- MCKind
    Rank <- MCRank
    TTL <- MCTTL
    MaxAttempts <- MCMaxAttempts
    Retention = 2
    Limits = {1}
    ExpireStaleDispatched = TRUE
    MaxTime = 6
    MaxOutbox = 3
    MaxWaiting = 2
INVARIANTS
    OrderCalledOnce
    CallsComeFromDeliveries
    CalledOrderIsSettled
    AckedMeansAccepted
PROPERTY
    LinkImplementsCore
