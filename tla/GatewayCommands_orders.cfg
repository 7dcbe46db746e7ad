SPECIFICATION Spec
CONSTANTS
    o1 = o1
    o2 = o2
    c1 = c1
    c2 = c2
    c3 = c3
    b1 = b1
    kOrder = kOrder
    kControl = kControl
    NoId = NoId
    Ids = {o1, o2}
    Keys = {kOrder}
    KeyOf <- MCKeyOf
    Kind <- MCKind
    Rank <- MCRank
    TTL <- MCTTL
    MaxAttempts <- MCMaxAttempts
    Retention = 2
    Limits = {1, 2}
    ExpireStaleDispatched = TRUE
    MaxTime = 5
INVARIANTS
    TypeOK
    OneFreshOrderPerKey
    CancelledOrderNotSent
    IInv
PROPERTY
    ImplementsOrderDelivery
