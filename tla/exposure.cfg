CONSTANTS
    Venues = {v1, v2}
    Symbols = {s1, s2}
    Limits <- MCLimits
    Required <- MCRequired
    None = None
    Ladder = {2}
    Equity = 4
    Tolerance = 1
    MaxAttempts = 1
    MaxEntries = 2
SPECIFICATION Spec
INVARIANT StrategyWithinLimit
INVARIANT EveryIntentFits
INVARIANT HedgesAreBounded
SYMMETRY Symmetry
CHECK_DEADLOCK FALSE
