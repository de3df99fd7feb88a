SPECIFICATION Spec
CONSTANTS
    Orders = {o1, o2, o3}
    Services <- MCServices
    MaxWork = 2
    LastOffset = 3
    Handled = {1, 2}
    MaxRetry = 1
    MaxRuns = 2
    MaxFrames = 3
    MaxCallbacks = 2
    Goroutines = {g1, g2, g3}
    Main = g1
    MaxGets = 5
    MaxFailures = 1
    Requests = {1, 2}
    HttpCalls = {1, 2}
    Keys = {"a", "b", "c"}
    Values = {"x", "y"}
    MaxEntries = 3
    Sizes = {0, 1}
    StellarDecimals = 1
    MaxStroops = 97
    Ulp = 70
    Held = {0, 3, 97}
    Wallets = {"A", "B"}
    MaxOrders = 2
    MaxCalls = 2
    MaxConnects = 2
INVARIANTS
    SameMachineAsBackend
    EveryServiceTold
    CommitDiscipline
    CommitIsNoticed
    OneWholeInstance
    RefusedIsNotServed
    CallerIsServed
    ListKeepsOrder
    AmountsAgree
    PayerIsBuyer
    SecondPaymentLooksFirst
PROPERTIES
    FulfillableOnlyAfterDetected
    DecidedOnce
    EndsTogether
    NoMessageStarves
CHECK_DEADLOCK FALSE
