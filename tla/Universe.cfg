\* Two refreshes that overlap, two failing requests, one change of the catalog.
CONSTANTS
    Refreshers = {r1, r2}
    Catalogs <- MCCatalogs
    PageSize = 2
    MaxRetries = 1
    Policy <- MCPolicy
    Nothing = Nothing
    MaxRefreshes = 2
    MaxFaults = 2
    MaxChanges = 1
    ShardCount = 2
    MaxBatch = 2
    StartAssets = {2, 4, 6}
    MaxMessages = 1
    MaxBreaks = 1
    AssetsOf <- MCAssetsOf
SPECIFICATION Spec
SYMMETRY Symmetry
INVARIANTS
    
    UniversesWhole
    SequencesUnique
    CommandsLead
    OnlyOwnedStored
    ShardsPartition
CHECK_DEADLOCK FALSE
