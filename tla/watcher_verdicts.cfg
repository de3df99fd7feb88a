\* Two orders, every kind of record, one watcher with faults.
SPECIFICATION Spec
CONSTANTS
    Watchers = {w1}
    OrderIds = {"o1", "o2"}
    Records <- AllRecords
    Buyers = {"b1"}
    Amounts = {0, 2}
    MaxAmount = 9
    Destination = "shop"
    AssetCode = "USDC"
    AssetIssuer = "issuer"
    Limit = 2
    MaxLedger = 3
    MaxOtherRun = 1
    MaxFaults = 2
INVARIANTS ReplaySafe CursorNeverSkips FirstPaymentDecides EvidenceExplainsOrder OneVerdictPerOrder TableExplainsVerdict
PROPERTIES VerdictStands DecidedOnce
