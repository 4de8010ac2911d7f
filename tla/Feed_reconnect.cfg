\* The first broken connection leaves its order books in place.
CONSTANTS
    Assets = {A}
    Bids = {1, 2}
    Asks = {3}
    NoBook = NoBook
    ChannelCap = 4
    BackoffBase = 1
    BackoffCap = 3
    MaxBreaks = 3
    MaxMoves = 2
    MaxDumps = 1
SPECIFICATION Spec
INVARIANT ClearedOnReconnect
CHECK_DEADLOCK FALSE
