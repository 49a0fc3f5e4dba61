CONSTANTS
    Watched = {"MAX_DRAWDOWN_BREACHED", "MARKET_DATA_OUTAGE", "RECONCILIATION_MISMATCH", "SYSTEM_HEALTH_FAILURE"}
    Named = {"MANUAL", "UNLISTED"}
SPECIFICATION FairSpec
INVARIANT Accounted
INVARIANT SustainedFailureEngages
PROPERTY OnlySustainedFailureEngages
PROPERTY ActionsAreCarriedOut
