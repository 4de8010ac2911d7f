\* Four snapshots through channels of one or two, with one worker or two.
CONSTANTS
    BroadcastCap = 2
    SnapshotCap = 1
    TriggerCap = 1
    ExecCap = 1
    MaxSnapshots = 4
    Decimals = 3
    MaxAmount = 100000000
    TokenIds = {"7", "8"}
    Configs <- MCConfigs
    Tops <- MCTops
    AddressOf <- MCAddressOf
SPECIFICATION FairSpec
INVARIANTS
    InOrder
    NothingLost
    OrdersMatchBooks
    CountCoversOrder
CHECK_DEADLOCK FALSE
PROPERTIES
    ShutdownCascades
    TriggersArrive
