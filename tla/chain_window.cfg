SPECIFICATION Spec
CONSTANTS
    Orders = {1, 2, 3, 4, 5}
    VerdictOf <- Verdicts12
    SyncBatch = 1
    SyncWindow = 4
    MaxAttempts = 1
    MaxFaults = 0
    MaxOutages = 1
    MaxForeign = 0
INVARIANTS
    WindowHasRoom
