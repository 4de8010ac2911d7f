\* A proxy wallet: its address is the maker's, the private key's another.
CONSTANTS
    BroadcastCap = 2
    SnapshotCap = 1
    TriggerCap = 1
    ExecCap = 1
    MaxSnapshots = 2
    Decimals = 3
    MaxAmount = 100000000
    TokenIds = {"7", "8"}
    Configs <- MCConfigs
    Tops <- MCTops
    AddressOf <- MCAddressOf
SPECIFICATION Spec
INVARIANT AuthNamesSigner
CHECK_DEADLOCK FALSE
