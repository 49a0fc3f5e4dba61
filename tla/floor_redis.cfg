CONSTANTS
    Symbols = {BTC, ETH}
    Venues = {VENUE_A, VENUE_B}
    Slots = 2
    MaxAttempts = 1
    DrainsComplete = FALSE
    MaxFailures = 1
    ActionSets <- ManualTrigger
SPECIFICATION Spec
SYMMETRY Symmetry
INVARIANT ActiveIsTheOpenRecord
INVARIANT AtMostOneEntryAfterHalt
PROPERTY TransitionsAreLegal
CONSTRAINT TroubleAlone
ACTION_CONSTRAINT NewsIsPrompt
