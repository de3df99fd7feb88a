------------------------------ MODULE Horizon ------------------------------
(***************************************************************************)
(* The payments of the destination account as Horizon serves them, and the *)
(* client of lib/libstellar/horizon.go.                                    *)
(*                                                                         *)
(* The history of the account is an append-only sequence of records.  The  *)
(* position of a record stands for its operation id and for its paging     *)
(* token, which Horizon orders in the same way; position 0 stands for the  *)
(* empty cursor, "from the beginning of the history".                      *)
(***************************************************************************)
EXTENDS Integers, Sequences

NoMemo == ""

PaymentTypes ==
    {"payment", "path_payment_strict_send", "path_payment_strict_receive"}

(* Mutant of RawPage: the record next to the cursor is passed over.        *)
RawPageAfterNext(ledger, cursor, limit) ==
    {i \in 1..Len(ledger) : cursor + 1 < i /\ i <= cursor + limit}

(* The raw page Horizon returns: the next limit records after the cursor.  *)
RawPage(ledger, cursor, limit) ==
    {i \in 1..Len(ledger) : cursor < i /\ i <= cursor + limit}

IsPayment(r) == r.type \in PaymentTypes

(* FetchPayments keeps the payments of the raw page and drops the rest:    *)
(* account creations, merges and whatever else the endpoint lists.         *)
FetchPayments(ledger, cursor, limit) ==
    {i \in RawPage(ledger, cursor, limit) : IsPayment(ledger[i])}

(* What the client keeps of a record.  A native payment has no asset code  *)
(* in the answer and gets "XLM"; a memo counts only when it is a text.     *)
Flatten(r) ==
    [source      |-> r.from,
     destination |-> r.to,
     assetCode   |-> IF r.assetType = "native" THEN "XLM" ELSE r.assetCode,
     assetIssuer |-> r.assetIssuer,
     amount      |-> r.amount,
     memo        |-> IF r.memoType = "text" THEN r.memo ELSE NoMemo]
=============================================================================
