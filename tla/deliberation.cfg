CONSTANTS
    MaxOpportunities = 2
    MaxPending = 1
    MaxAnswers = 2
    Running <- MCRunning
    Required <- MCRequired
    Weight <- MCWeight
    Ttl <- MCTtl
    Grace = 1
    Timeout = 1
    Lifetime = 1
    TidalSignals <- MCTidalSignals
    NoroSignals <- MCNoroSignals
    LumenSignals <- MCLumenSignals
SPECIFICATION FairSpec
INVARIANT EntryNeedsEveryView
INVARIANT DecidedAtOnce
INVARIANT NothingOutlivesItsRecord
PROPERTY NobodyWaitsForEver
