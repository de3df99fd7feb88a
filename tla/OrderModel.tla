----------------------------- MODULE OrderModel -----------------------------
(***************************************************************************)
(* The vocabulary of project/shopble/models: order statuses, the edges     *)
(* between them, the verdicts of the matcher and the five named reasons    *)
(* for a rejection.                                                        *)
(***************************************************************************)

AwaitingPayment == "awaiting_payment"
PaymentDetected == "payment_detected"
Validated       == "validated"
Rejected        == "rejected"

OrderStatuses == {AwaitingPayment, PaymentDetected, Validated, Rejected}

(* The legal edges of the state machine, as the map of the source.         *)
orderTransitions ==
    [s \in OrderStatuses |->
        CASE s = AwaitingPayment -> {PaymentDetected}
          [] s = PaymentDetected -> {Validated, Rejected}
          [] OTHER               -> {}]

CanTransition(from, to) == to \in orderTransitions[from]

(* An order that is settled takes no further verdict.                      *)
OrderFinal(s) == s \in {Validated, Rejected}

Underpayment     == "underpayment"
WrongAsset       == "wrong_asset"
WrongDestination == "wrong_destination"
WrongBuyerWallet == "wrong_buyer_wallet"
InvalidMemo      == "invalid_memo"

AllRejectReasons ==
    {Underpayment, WrongAsset, WrongDestination, WrongBuyerWallet, InvalidMemo}

NoReason == ""

VerdictMatched   == "matched"
VerdictRejected  == "rejected"
VerdictDuplicate == "duplicate"

Verdicts == {VerdictMatched, VerdictRejected, VerdictDuplicate}

(* The status an order takes from the verdict of the payment that settles  *)
(* it; never used for a duplicate.                                         *)
Terminal(v) == IF v = VerdictMatched THEN Validated ELSE Rejected
=============================================================================
