\* Two refreshes, two polls and two calls at a time.
CONSTANTS
    None = None
    Nothing = Nothing
    NoCall = NoCall
    Wallets <- MCWallets
    Broke = {"w2"}
    RefreshIds = {1, 2}
    Drives <- MCDrives
    KeyOn <- MCKeyOn
    Newer = {"d3"}
    PollIds = {1, 2}
    CallIds = {1, 2}
    MaxLedger = 3
    Swaps = {2}
    SolscanPage = 2
    RpcPage = 1
SPECIFICATION ContextSpec
INVARIANTS
    CacheIsOwn
    DisconnectedStaysOff
PROPERTIES
    ShownIsOwn
    ShownHeals
    
    RecordsKept
