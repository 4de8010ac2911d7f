\* Two quotes, four offers, three changes of mind; one broken connection, rejection
\* or fill.
CONSTANTS
    Ids = {1, 2}
    Offers <- MCOffers
    Wanted <- MCWanted
    NoOffer = NoOffer
    Digits = 2
    MinChange = 1
    Cooldown = 1
    SubmitTimeout = 2
    CancelTimeout = 2
    LateReports = FALSE
    MaxChanges = 3
    MaxTrouble = 1
    MaxLive = 2
SPECIFICATION FairSpec
INVARIANTS
    
    FillsCountOnce
    
PROPERTIES
    Converges
    TrustReturns
CHECK_DEADLOCK FALSE
