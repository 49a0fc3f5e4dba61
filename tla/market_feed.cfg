CONSTANTS
    Venues = {VENUE_A}
    Symbols = {BTC}
    Adapters = {"simulated", "coinbase_public"}
    DeepFeeds = {"coinbase_public"}
    DataAge = 1
    MaxChanges = 4
    MaxQueue = 3
SPECIFICATION FairSpec
INVARIANT UsableBookIsRecent
PROPERTY OnlySnapshotsRevive
PROPERTY GapIsResynced
