CONSTANTS
    Symbols = {BTC}
    Venues = {VENUE_A, VENUE_B}
    Slots = 1
    MaxAttempts = 2
    DrainsComplete = TRUE
    MaxFailures = 0
    ActionSets <- AllTriggers
SPECIFICATION FairSpec
INVARIANT PositionsAreOwned
INVARIANT NoOrderStrays
PROPERTY TransitionsAreLegal
PROPERTY NothingHangs
