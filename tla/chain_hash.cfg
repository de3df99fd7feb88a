SPECIFICATION FairSpec
CONSTANTS
    Orders = {1}
    VerdictOf <- Verdicts12
    SyncBatch = 1
    SyncWindow = 2
    MaxAttempts = 2
    MaxFaults = 1
    MaxOutages = 0
    MaxForeign = 0
PROPERTIES
    OnChainGetsHash
