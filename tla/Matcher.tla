------------------------------ MODULE Matcher ------------------------------
(***************************************************************************)
(* The reconciliation engine of services/watcher/matcher.go, and the       *)
(* expected-versus-observed table that api/v1/evidence_api.go shows a      *)
(* reviewer for the same payment.  Both are pure functions.                *)
(*                                                                         *)
(* An observed payment has the fields source, destination, assetCode,      *)
(* assetIssuer, amount and memo.  An order has destination, assetCode,     *)
(* assetIssuer, amount, buyer, memo, status and reason.  Amounts are       *)
(* numbers of stroops: every amount the system keeps has at most seven     *)
(* decimals, so comparing decimals is comparing stroops.                   *)
(***************************************************************************)
EXTENDS Integers, OrderModel

NoOrder == [status |-> "none"]

Reject(r) == [verdict |-> VerdictRejected, reason |-> r]

(* Mutants of Match: it does not ask whether the order is settled; the     *)
(* exact amount is too little.                                             *)
MatchSettled(o, order) ==
    IF order.status = "none" THEN Reject(InvalidMemo)
    ELSE IF o.amount < order.amount THEN Reject(Underpayment)
    ELSE [verdict |-> VerdictMatched, reason |-> NoReason]

MatchMore(o, order) ==
    IF order.status = "none" THEN Reject(InvalidMemo)
    ELSE IF OrderFinal(order.status) THEN [verdict |-> VerdictDuplicate, reason |-> NoReason]
    ELSE IF o.destination # order.destination THEN Reject(WrongDestination)
    ELSE IF o.assetCode # order.assetCode \/ o.assetIssuer # order.assetIssuer THEN Reject(WrongAsset)
    ELSE IF o.source # order.buyer THEN Reject(WrongBuyerWallet)
    ELSE IF o.amount <= order.amount THEN Reject(Underpayment)
    ELSE [verdict |-> VerdictMatched, reason |-> NoReason]

(* The checks in the order of the source: the first that fails names the   *)
(* reason.                                                                 *)
Match(o, order) ==
    IF order.status = "none"
      THEN Reject(InvalidMemo)
    ELSE IF OrderFinal(order.status)
      THEN [verdict |-> VerdictDuplicate, reason |-> NoReason]
    ELSE IF o.destination # order.destination
      THEN Reject(WrongDestination)
    ELSE IF o.assetCode # order.assetCode \/ o.assetIssuer # order.assetIssuer
      THEN Reject(WrongAsset)
    ELSE IF o.source # order.buyer
      THEN Reject(WrongBuyerWallet)
    ELSE IF o.amount < order.amount
      THEN Reject(Underpayment)
    ELSE [verdict |-> VerdictMatched, reason |-> NoReason]

(* The rows of the comparison table: the field and whether the API marks   *)
(* it as matching.  An amount above the expected one is marked matching.   *)
Comparison(order, ev) ==
    [amount              |-> ev.amount = order.amount \/ ev.amount > order.amount,
     asset_code          |-> ev.assetCode = order.assetCode,
     asset_issuer        |-> ev.assetIssuer = order.assetIssuer,
     destination_account |-> ev.destination = order.destination,
     buyer_wallet        |-> ev.source = order.buyer,
     memo                |-> ev.memo = order.memo]
=============================================================================
