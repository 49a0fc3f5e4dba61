CONSTANTS
    Pairs = 2
    DegradedAfter = 2
    OfflineAfter = 3
    ErrorBudget = 1
    ErrorWindow = 1
    Confirmations = 3
    MaxElapsed = 1
    MaxTroubles = 3
SPECIFICATION FairHealthSpec
INVARIANT NeverHealthyWhileFailing
INVARIANT EntriesAreHealthy
PROPERTY NotPoisonedForever
PROPERTY SustainedFailureHalts
