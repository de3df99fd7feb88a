--------------------------- MODULE MCChainWriter ---------------------------
(* ChainWriter for TLC: orders are numbered, odd ones validated; the even  *)
(* ones may have a buyer_wallet that is no key.                            *)
EXTENDS ChainWriter

Verdicts12 ==
    [o \in Orders |->
        IF o % 2 = 1 THEN Status(Validated, NoReason) ELSE Status(Rejected, WrongBuyerWallet)]
=============================================================================
