\* As many records in a row that are not payments as a page holds.
SPECIFICATION FairSpec
CONSTANTS
    Watchers = {w1}
    OrderIds = {"o1", "o2"}
    Records <- TwoOrderRecords
    Buyers = {"b1"}
    Amounts = {2}
    MaxAmount = 9
    Destination = "shop"
    AssetCode = "USDC"
    AssetIssuer = "issuer"
    Limit = 2
    MaxLedger = 3
    MaxOtherRun = 2
    MaxFaults = 1
PROPERTY EveryPaymentRecorded
