\* One failed call or crash, one archival, one transaction sent by hand.
SPECIFICATION FairSpec
CONSTANTS
    Orders = {1, 2}
    VerdictOf <- Verdicts12
    SyncBatch = 1
    SyncWindow = 2
    MaxAttempts = 3
    MaxFaults = 1
    MaxOutages = 1
    MaxForeign = 1
INVARIANTS
    TypeOK
    TakesEffectOnce
    SimulationHolds
    HashIsProof
PROPERTIES
    EventuallyOnChain
    PublishedAsDecided
