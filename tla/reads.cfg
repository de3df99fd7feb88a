\* Two orders of two wallets, a reader, one watcher with a fault.
SPECIFICATION ReadSpec
CONSTANTS
    Watchers = {w1}
    OrderIds = {"o1", "o2"}
    Records <- TwoOrderRecords
    Buyers = {"b1", "b2"}
    Amounts = {2}
    MaxAmount = 9
    Destination = "shop"
    AssetCode = "USDC"
    AssetIssuer = "issuer"
    Limit = 2
    MaxLedger = 3
    MaxOtherRun = 1
    MaxFaults = 1
INVARIANTS AnswerExplainsOrder ReportAgrees
