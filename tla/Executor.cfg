\* Every mode: orders, saves, a failing save, crashes and shutdowns, one restart,
\* and the fairness of the threads.
CONSTANTS
    Modes = {"signed", "presigned", "dry"}
    PoolLen = 2
    MaxOrders = 2
    MaxCents = 29
    Costs = {10, 280}
    ShortCosts = {}
    LossyCents <- MCLossyCents
    DrainCoversSave = TRUE
    MaxRestarts = 1
    MaxSaveErrors = 1
SPECIFICATION FairSpec
INVARIANTS
    StopsAtTrip
    FinalSaveCovers
    OrdersLimitSurvivesRestarts
    UsdLimitSurvivesRestarts
PROPERTIES
    SavesNeverGoBack
    ShutdownCompletes
    TripReachesDisk
CHECK_DEADLOCK FALSE
