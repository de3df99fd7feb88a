\* One rejected order, and nothing fails.
SPECIFICATION FairSpec
CONSTANTS
    Orders = {2}
    VerdictOf <- Verdicts12
    SyncBatch = 1
    SyncWindow = 2
    MaxAttempts = 3
    MaxFaults = 0
    MaxOutages = 0
    MaxForeign = 0
PROPERTIES
    SettledGetsOnChain
