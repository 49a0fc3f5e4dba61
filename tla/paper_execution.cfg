CONSTANTS
    NumOrders = 2
    Qty = 2
    AckLatency = 1
    CancelLatency = 1
    Ttl = 2
    MaxTime = 3
    CanResolve = TRUE
SPECIFICATION FairSpec
INVARIANT TypeOK
INVARIANT FillAccounting
INVARIANT OnlyCancelPendingIsRefused
PROPERTY DisabledOnlyWindsDown
PROPERTY KeepsTheContract
PROPERTY EveryOrderConcludes
CHECK_DEADLOCK FALSE
