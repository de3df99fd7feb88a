----------------------------- MODULE MCWatcher -----------------------------
(* Small instances of Watcher: which records the ledger may contain.       *)
EXTENDS Watcher

USDC   == "USDC"
Issuer == "issuer"
Shop   == "shop"

Rec(type, from, to, code, issuer, amount, memoType, memo) ==
    [type |-> type, from |-> from, to |-> to,
     assetType |-> IF code = "" THEN "native" ELSE "credit_alphanum4",
     assetCode |-> code, assetIssuer |-> issuer,
     amount |-> amount, memoType |-> memoType, memo |-> memo]

Paid(o, from, amount) ==
    Rec("payment", from, Shop, USDC, Issuer, amount, "text", o)

(* Exact, short and excessive amounts (the last one through the DEX), the  *)
(* wrong wallet, the wrong asset, native XLM, a refund the shop sends.     *)
PaymentsFor(o) ==
    {Paid(o, "b1", 2), Paid(o, "b1", 1), Paid(o, "b2", 2),
     Rec("path_payment_strict_send", "b1", Shop, USDC, Issuer, 3, "text", o),
     Rec("payment", "b1", Shop, USDC, "other", 2, "text", o),
     Rec("payment", "b1", Shop, "", "", 2, "text", o),
     Rec("payment", Shop, "b1", USDC, Issuer, 2, "text", o)}

(* A memo no order has, a memo that is a hash, and a record that is not a  *)
(* payment.                                                                *)
Unrelated ==
    {Rec("payment", "b1", Shop, USDC, Issuer, 2, "text", "lost"),
     Rec("payment", "b1", Shop, USDC, Issuer, 2, "hash", "o1")}

Opened == Rec("create_account", "b1", Shop, "", "", 0, "none", "")

(* Every kind of record about one order, and a payment for another one.    *)
AllRecords == PaymentsFor("o1") \union {Paid("o2", "b1", 2)} \union Unrelated \union {Opened}

TwoOrderRecords ==
    {Paid(o, b, 2) : o \in {"o1", "o2"}, b \in {"b1", "b2"}} \union {Opened}

FewRecords == {Paid("o1", "b1", 2), Paid("o1", "b2", 2), Opened}
=============================================================================
