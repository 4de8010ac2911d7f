\* One asset and one symbol, two prices to bid and one to ask, four events of
\* its book and connection and one other.
CONSTANTS
    Assets = {"yes"}
    Symbols = {"btc"}
    Prices = {4, 5, 6}
    None = None
    BidPrices = {4, 5}
    AskPrices = {6}
    Ticks = {1, 2}
    Requirements <- MCRequirements
    Runtimes = {"legacy", "view"}
    Modes = {"live", "replay"}
    NoticeCap = 2
    MaxBook = 4
    MaxOther = 1
SPECIFICATION Spec
INVARIANTS
    TopPricesExact
    OldBooksForgotten
    RegisteredTicks
    ViewsCatchUp
CHECK_DEADLOCK FALSE
