\* Two watchers on one stream: an old instance that has not stopped yet.
\* Calls fail, and still every payment is recorded in the end.
SPECIFICATION FairSpec
CONSTANTS
    Watchers = {w1, w2}
    OrderIds = {"o1"}
    Records <- FewRecords
    Buyers = {"b1"}
    Amounts = {2}
    MaxAmount = 9
    Destination = "shop"
    AssetCode = "USDC"
    AssetIssuer = "issuer"
    Limit = 2
    MaxLedger = 3
    MaxOtherRun = 1
    MaxFaults = 1
INVARIANTS IInv EvInv
PROPERTIES EmptyPageIsTip EveryPaymentRecorded PaidOrderSettles
