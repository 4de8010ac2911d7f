\* Two order books of two bids and an ask, a channel that can lag, three connections.
CONSTANTS
    Assets = {A, B}
    Bids = {1, 2}
    Asks = {3}
    NoBook = NoBook
    ChannelCap = 2
    BackoffBase = 1
    BackoffCap = 3
    MaxBreaks = 3
    MaxMoves = 1
    MaxDumps = 1
SPECIFICATION FairSpec
INVARIANTS
    
    OldBooksGo
PROPERTY BooksConverge
CHECK_DEADLOCK FALSE
