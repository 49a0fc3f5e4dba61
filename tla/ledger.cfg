CONSTANTS
    NumOrders = 3
    Qty = 3
    Retained = 2
    MaxFills = 4
    MaxRepeats = 2
SPECIFICATION Spec
INVARIANT BooksBalance
INVARIANT RepeatsNeedALongGap
INVARIANT OnlySplitsMakeMismatches
INVARIANT ArchivedOrdersAreDone
PROPERTY DivergenceIsForever
CHECK_DEADLOCK FALSE
