------------------------------ MODULE Watcher ------------------------------
(***************************************************************************)
(* Payment ingestion: the API creates orders, buyers pay on the ledger,    *)
(* and watchers (services/watcher/watcher.go) poll Horizon, record one     *)
(* piece of evidence for each payment, settle the order it names and move  *)
(* the cursor, the three in one database transaction.                      *)
(*                                                                         *)
(* The module covers a watcher that has no contract client (--no-chain, or *)
(* no contract deployed): writeChain and syncChain then return at once.    *)
(* ChainWriter models them.                                                *)
(*                                                                         *)
(* Where the steps are cut.  A transaction reads the order first (LookUp)  *)
(* and then only inserts ON CONFLICT DO NOTHING and updates under a        *)
(* condition that Postgres evaluates again when it gets the row lock, all  *)
(* in the order evidence, order, cursor.  The writes therefore behave as   *)
(* one step at the commit (Commit); what may be stale there is the order   *)
(* that was looked up.                                                     *)
(***************************************************************************)
EXTENDS Horizon, Matcher

CONSTANTS
    Watchers,      \* watcher processes that share the stream's cursor
    OrderIds,      \* the ids (ksuid) the API may generate; the memo is the id
    Records,       \* the records the account's history may contain
    Buyers,        \* wallets that create orders
    Amounts,       \* amounts asked for in POST /orders, in stroops
    MaxAmount,     \* the largest amount a Stellar payment can carry
    Destination,   \* STELLAR_CONFIG.destination_account
    AssetCode,     \* STELLAR_CONFIG.asset_code
    AssetIssuer,   \* STELLAR_CONFIG.asset_issuer
    Limit,         \* size of a page; 200 in the code
    MaxLedger,     \* bound: records on the ledger
    MaxOtherRun,   \* bound: records in a row that are not payments
    MaxFaults      \* bound: crashes and failed calls

NoId == ""

ASSUME LimitAssumption  == Limit \in Nat \ {0}
ASSUME BoundsAssumption == MaxLedger \in Nat /\ MaxFaults \in Nat /\ MaxOtherRun \in Nat
ASSUME NoIdAssumption   == NoId \notin OrderIds /\ NoMemo \notin OrderIds
ASSUME RecordsAssumption ==
    \A r \in Records : Flatten(r).amount \in Int
ASSUME AmountsAssumption == Amounts \subseteq Int

VARIABLES
    ledger,     \* the account's history
    orders,     \* table shopble_order_intent, by id
    evidence,   \* table shopble_payment_evidence; op is unique
    cursor,     \* table shopble_watcher_cursor, the row of the stream
    pc,         \* where each watcher is in its loop
    page,       \* operations of the page it has still to process
    full,       \* did that page have Limit payments?
    at,         \* the operation it is processing; the cursor it read
    found,      \* order, verdict and reason of the running transaction
    faults

db    == <<orders, evidence, cursor>>
local == <<pc, page, full, at, found>>
vars  == <<ledger, db, local, faults>>

Nothing == [order |-> NoId, verdict |-> VerdictRejected, reason |-> NoReason]

Recorded == {e.op : e \in evidence}

Init ==
    /\ ledger = <<>>
    /\ orders = [o \in OrderIds |-> NoOrder]
    /\ evidence = {}
    /\ cursor = 0
    /\ pc = [w \in Watchers |-> "poll"]
    /\ page = [w \in Watchers |-> {}]
    /\ full = [w \in Watchers |-> FALSE]
    /\ at = [w \in Watchers |-> 0]
    /\ found = [w \in Watchers |-> Nothing]
    /\ faults = 0

-----------------------------------------------------------------------------
(* The HTTP API.                                                           *)

NormalizeAmount(a) == 0 < a /\ a <= MaxAmount

Created(o) == orders[o].status # "none"

OrderIntent(o, b, a) ==
    [destination |-> Destination, assetCode |-> AssetCode,
     assetIssuer |-> AssetIssuer, amount |-> a, buyer |-> b, memo |-> o,
     status |-> AwaitingPayment, reason |-> NoReason]

CreateOrder(o, b, a) ==
    /\ ~ Created(o)
    /\ NormalizeAmount(a)
    /\ orders' = [orders EXCEPT ![o] = OrderIntent(o, b, a)]
    /\ UNCHANGED <<ledger, evidence, cursor, local, faults>>

(* The ledger closes with one more record for the account.  The id of an   *)
(* order is random and leaves the server once its row is committed, so no  *)
(* payment carries the id of an order that does not exist yet.             *)
OtherRun(s) ==
    /\ MaxOtherRun < Len(s)
    /\ \A i \in (Len(s) - MaxOtherRun)..Len(s) : ~ IsPayment(s[i])

Pay(r) ==
    /\ Len(ledger) < MaxLedger
    /\ Flatten(r).memo \in OrderIds => Created(Flatten(r).memo)
    /\ ledger' = Append(ledger, r)
    /\ ~ OtherRun(ledger')
    /\ UNCHANGED <<db, local, faults>>

-----------------------------------------------------------------------------
(* The loop of one watcher.                                                *)

Goto(w, l) == pc' = [pc EXCEPT ![w] = l]

(* pollOnce has returned, or the process is gone: its variables are too.   *)
Forget(w) ==
    /\ page' = [page EXCEPT ![w] = {}]
    /\ full' = [full EXCEPT ![w] = FALSE]
    /\ at' = [at EXCEPT ![w] = 0]
    /\ found' = [found EXCEPT ![w] = Nothing]

LoadCursor(w) ==
    /\ pc[w] = "poll"
    /\ at' = [at EXCEPT ![w] = cursor]
    /\ Goto(w, "fetch")
    /\ UNCHANGED <<ledger, db, page, full, found, faults>>

Fetch(w) ==
    /\ pc[w] = "fetch"
    /\ page' = [page EXCEPT ![w] = FetchPayments(ledger, at[w], Limit)]
    /\ full' = [full EXCEPT ![w] =
                  FetchPayments(ledger, at[w], Limit) = (at[w] + 1)..(at[w] + Limit)]
    /\ Goto(w, "page")
    /\ UNCHANGED <<ledger, db, at, found, faults>>

(* The order a payment names: tx.Where("memo = ?").Take, skipped for an    *)
(* empty memo.                                                             *)
OrderOf(memo) == IF memo \in OrderIds THEN orders[memo] ELSE NoOrder

Looked(i) ==
    LET p == Flatten(ledger[i])
        m == Match(p, OrderOf(p.memo))
    IN  [order   |-> IF OrderOf(p.memo) = NoOrder THEN NoId ELSE p.memo,
         verdict |-> m.verdict,
         reason  |-> m.reason]

(* Mutant of LookUp: the page is read from its end, as with order=desc.    *)
LookUpLast(w) ==
    /\ pc[w] = "page"
    /\ \E i \in page[w] :
          /\ \A j \in page[w] : j <= i
          /\ at' = [at EXCEPT ![w] = i]
          /\ found' = [found EXCEPT ![w] = Looked(i)]
    /\ Goto(w, "commit")
    /\ UNCHANGED <<ledger, db, page, full, faults>>

LookUp(w) ==
    /\ pc[w] = "page"
    /\ \E i \in page[w] :
          /\ \A j \in page[w] : i <= j
          /\ at' = [at EXCEPT ![w] = i]
          /\ found' = [found EXCEPT ![w] = Looked(i)]
    /\ Goto(w, "commit")
    /\ UNCHANGED <<ledger, db, page, full, faults>>

PaymentEvidence(i, f) ==
    [op |-> i, observed |-> Flatten(ledger[i]),
     order |-> f.order, verdict |-> f.verdict, reason |-> f.reason]

(* Mutant of Settles: a rejected payment leaves the order open.            *)
SettlesMatched(w) ==
    /\ at[w] \notin Recorded
    /\ found[w].order # NoId
    /\ found[w].verdict = VerdictMatched
    /\ orders[found[w].order].status = AwaitingPayment

(* Does the transaction settle the order it looked up?  The evidence has   *)
(* to be new, the verdict not a duplicate, and the order still awaiting.   *)
Settles(w) ==
    /\ at[w] \notin Recorded
    /\ found[w].order # NoId
    /\ found[w].verdict # VerdictDuplicate
    /\ orders[found[w].order].status = AwaitingPayment

(* Mutant of SettledRow: the second update forgets the reason.             *)
SettledRowMute(r, f) == [r EXCEPT !.status = Terminal(f.verdict)]

(* awaiting_payment -> payment_detected -> Terminal(verdict): two updates  *)
(* of one transaction, so that payment_detected is never seen from outside.*)
SettledRow(r, f) ==
    [r EXCEPT !.status = Terminal(f.verdict), !.reason = f.reason]

(* Mutant of Settle: one update, whatever the verdict and the row's status. *)
SettleAlways(w) ==
    IF at[w] \notin Recorded /\ found[w].order # NoId
      THEN [orders EXCEPT ![found[w].order] = SettledRow(@, found[w])]
      ELSE orders

Settle(w) ==
    IF Settles(w)
      THEN [orders EXCEPT ![found[w].order] = SettledRow(@, found[w])]
      ELSE orders

(* Mutant of CommitTxn: no unique index on op_id.                          *)
CommitTxnTwice(w) ==
    /\ evidence' = evidence \union {PaymentEvidence(at[w], found[w])}
    /\ orders' = Settle(w)
    /\ cursor' = at[w]

CommitTxn(w) ==
    /\ evidence' = IF at[w] \in Recorded
                     THEN evidence
                     ELSE evidence \union {PaymentEvidence(at[w], found[w])}
    /\ orders' = Settle(w)
    /\ cursor' = at[w]

Commit(w) ==
    /\ pc[w] = "commit"
    /\ CommitTxn(w)
    /\ page' = [page EXCEPT ![w] = @ \ {at[w]}]
    /\ Goto(w, "page")
    /\ UNCHANGED <<ledger, full, at, found, faults>>

(* A full page is followed by the next one at once; otherwise the watcher  *)
(* takes itself to be at the tip of the ledger and sleeps.                 *)
EndPage(w) ==
    /\ pc[w] = "page"
    /\ page[w] = {}
    /\ Goto(w, IF full[w] THEN "poll" ELSE "sleep")
    /\ Forget(w)
    /\ UNCHANGED <<ledger, db, faults>>

Wake(w) ==
    /\ pc[w] = "sleep"
    /\ Goto(w, "poll")
    /\ UNCHANGED <<ledger, db, page, full, at, found, faults>>

-----------------------------------------------------------------------------
(* What can go wrong.  Each fault uses up the budget MaxFaults.            *)

Fault ==
    /\ faults < MaxFaults
    /\ faults' = faults + 1

(* Any error of the cursor's query is taken for "no cursor yet".           *)
LoadCursorFails(w) ==
    /\ Fault
    /\ pc[w] = "poll"
    /\ at' = [at EXCEPT ![w] = 0]
    /\ Goto(w, "fetch")
    /\ UNCHANGED <<ledger, db, page, full, found>>

FetchFails(w) ==
    /\ Fault
    /\ pc[w] = "fetch"
    /\ Goto(w, "sleep")
    /\ Forget(w)
    /\ UNCHANGED <<ledger, db>>

(* Mutant of TxnFails: the loop goes on with the next payment of the page. *)
TxnFailsGoesOn(w) ==
    /\ Fault
    /\ pc[w] = "commit"
    /\ page' = [page EXCEPT ![w] = @ \ {at[w]}]
    /\ Goto(w, "page")
    /\ UNCHANGED <<ledger, db, full, at, found>>

(* The transaction is rolled back; the rest of the page is dropped and the *)
(* cursor stays.  A failed lookup ends here too: it leaves order = nil,    *)
(* but Postgres refuses the INSERT of the aborted transaction.             *)
TxnFails(w) ==
    /\ Fault
    /\ pc[w] = "commit"
    /\ Goto(w, "sleep")
    /\ Forget(w)
    /\ UNCHANGED <<ledger, db>>

(* The transaction is committed and the answer to COMMIT is lost: the      *)
(* process sees an error.                                                  *)
CommitUnknown(w) ==
    /\ Fault
    /\ pc[w] = "commit"
    /\ CommitTxn(w)
    /\ Goto(w, "sleep")
    /\ Forget(w)
    /\ UNCHANGED ledger

(* The process dies anywhere and is started again.                         *)
Crash(w) ==
    /\ Fault
    /\ Goto(w, "poll")
    /\ Forget(w)
    /\ UNCHANGED <<ledger, db>>

-----------------------------------------------------------------------------
Step(w) == LoadCursor(w) \/ Fetch(w) \/ LookUp(w) \/ Commit(w) \/ EndPage(w) \/ Wake(w)

Failure(w) ==
    LoadCursorFails(w) \/ FetchFails(w) \/ TxnFails(w) \/ CommitUnknown(w) \/ Crash(w)

Next ==
    \/ \E o \in OrderIds, b \in Buyers, a \in Amounts : CreateOrder(o, b, a)
    \/ \E r \in Records : Pay(r)
    \/ \E w \in Watchers : Step(w) \/ Failure(w)

Spec == Init /\ [][Next]_vars

(* The loop never blocks for ever: the queries and the HTTP request return *)
(* (30 s timeout in horizon.go), and the sleep ends after the interval.    *)
FairSpec == Spec /\ \A w \in Watchers : WF_vars(Step(w))

-----------------------------------------------------------------------------
(* Properties.                                                             *)

Ops == 1..Len(ledger)

(* The payment at position i carries the id of order o as its memo.        *)
Carries(i, o) == IsPayment(ledger[i]) /\ Flatten(ledger[i]).memo = o

(* What Match says of payment i for order o as it was created.             *)
AsCreated(r) == [r EXCEPT !.status = AwaitingPayment]

FreshMatch(i, o) == Match(Flatten(ledger[i]), AsCreated(orders[o]))

OrderRows ==
    [destination : {Destination}, assetCode : {AssetCode},
     assetIssuer : {AssetIssuer}, amount : Amounts, buyer : Buyers,
     memo : OrderIds, status : {AwaitingPayment, Validated, Rejected},
     reason : AllRejectReasons \union {NoReason}]

Findings ==
    [order : OrderIds \union {NoId}, verdict : Verdicts,
     reason : AllRejectReasons \union {NoReason}]

(* Types of the tables and of the watchers' variables.  An order row that  *)
(* another transaction can see is never in payment_detected.               *)
TypeOK ==
    /\ ledger \in Seq(Records) /\ Len(ledger) <= MaxLedger
    /\ orders \in [OrderIds -> OrderRows \union {NoOrder}]
    /\ \A o \in OrderIds : Created(o) => orders[o].memo = o
    /\ \A e \in evidence :
          /\ e.op \in Ops /\ e.observed = Flatten(ledger[e.op])
          /\ [order |-> e.order, verdict |-> e.verdict, reason |-> e.reason] \in Findings
    /\ cursor \in 0..Len(ledger)
    /\ pc \in [Watchers -> {"poll", "fetch", "page", "commit", "sleep"}]
    /\ page \in [Watchers -> SUBSET Ops]
    /\ full \in [Watchers -> BOOLEAN]
    /\ at \in [Watchers -> 0..Len(ledger)]
    /\ found \in [Watchers -> Findings]
    /\ faults \in 0..MaxFaults

(* A payment is recorded once, however often its page is read again after  *)
(* a restart, a lost cursor or an error in the middle of a page.           *)
ReplaySafe ==
    \A e, f \in evidence : e.op = f.op => e = f

(* The stored cursor never passes a payment that has no evidence: such a   *)
(* payment would never be read again.                                      *)
CursorNeverSkips ==
    \A i \in Ops : i <= cursor /\ IsPayment(ledger[i]) => i \in Recorded

(* The outcome of an order is decided by the ledger alone: it is what Match *)
(* says of the first payment that carries its memo, whatever is replayed,  *)
(* retried, lost or processed by several watchers at once.                 *)
FirstPaymentDecides ==
    \A o \in OrderIds :
        OrderFinal(orders[o].status) =>
            \E i \in Ops :
                /\ Carries(i, o)
                /\ \A j \in Ops : Carries(j, o) => i <= j
                /\ orders[o].status = Terminal(FreshMatch(i, o).verdict)
                /\ orders[o].reason = FreshMatch(i, o).reason

(* A settled order can be audited, and only a settled one has evidence:    *)
(* a row names the order and carries the verdict and reason it has.        *)
EvidenceExplainsOrder ==
    \A o \in OrderIds :
        /\ OrderFinal(orders[o].status) =>
              \E e \in evidence :
                  /\ e.order = o
                  /\ e.verdict # VerdictDuplicate
                  /\ Terminal(e.verdict) = orders[o].status
                  /\ e.reason = orders[o].reason
        /\ (\E e \in evidence : e.order = o) => OrderFinal(orders[o].status)

(* Only the payment that settled an order has a verdict of its own; every  *)
(* other one is marked as a duplicate, also when two watchers run.         *)
OneVerdictPerOrder ==
    \A e, f \in evidence :
        /\ e.order = f.order /\ e.order # NoId
        /\ e.verdict # VerdictDuplicate /\ f.verdict # VerdictDuplicate
        => e = f

(* What a reviewer sees: the expected-versus-observed table of a matched   *)
(* payment has no mismatch, and the one of a rejected payment has a        *)
(* mismatch in a row that its reason is about.                             *)
RowsOf ==
    [reason \in AllRejectReasons |->
        CASE reason = Underpayment     -> {"amount"}
          [] reason = WrongAsset       -> {"asset_code", "asset_issuer"}
          [] reason = WrongDestination -> {"destination_account"}
          [] reason = WrongBuyerWallet -> {"buyer_wallet"}
          [] reason = InvalidMemo      -> {"memo"}]

TableExplainsVerdict ==
    \A e \in evidence : e.order # NoId /\ e.verdict # VerdictDuplicate =>
        LET row == Comparison(orders[e.order], e.observed)
            Mismatches == {f \in DOMAIN row : ~ row[f]}
        IN  IF e.verdict = VerdictMatched
              THEN Mismatches = {}
              ELSE Mismatches \intersect RowsOf[e.reason] # {}

(* The promise of OrderVerdict.  A decision is validated, or rejected with *)
(* a reason; the reason invalid_memo is for payments that name no order.   *)
Decision(s, r) == [status |-> s, reason |-> r]

OrderDecisions ==
    {Decision(Validated, NoReason)}
      \union {Decision(Rejected, r) : r \in AllRejectReasons \ {InvalidMemo}}

Promise ==
    INSTANCE OrderVerdict WITH
        Orders    <- OrderIds,
        Unknown   <- Decision("none", NoReason),
        Opened    <- Decision(AwaitingPayment, NoReason),
        Decisions <- OrderDecisions,
        verdict   <- [o \in OrderIds |->
                        IF Created(o)
                          THEN Decision(orders[o].status, orders[o].reason)
                          ELSE Decision("none", NoReason)]

DecidedOnce == Promise!Spec

(* No step takes back a verdict or a row of evidence.                      *)
VerdictStands ==
    [][/\ evidence \subseteq evidence'
       /\ \A o \in OrderIds :
             OrderFinal(orders[o].status) => orders'[o] = orders[o]]_vars

(* "Empty page means tip" (watcher.go:87-88), the way it can be true: what *)
(* a page without payments proves is about the whole ledger, not about the *)
(* records it was made of.  Whoever wrote the evidence, with whatever      *)
(* cursor the watcher read, there is none left to write.  It holds as long *)
(* as a page has room for a payment behind any run of other records.       *)
EmptyPageIsTip ==
    [][\A w \in Watchers :
          pc[w] = "fetch" /\ pc'[w] = "page" /\ page'[w] = {} =>
              \A i \in Ops : IsPayment(ledger[i]) => i \in Recorded]_vars

(* Every payment the account receives gets its evidence in the end.        *)
EveryPaymentRecorded ==
    \A i \in 1..MaxLedger :
        (i \in Ops /\ IsPayment(ledger[i])) ~> (i \in Recorded)

(* An order somebody paid for does not stay in awaiting_payment.           *)
PaidOrderSettles ==
    \A o \in OrderIds :
        (\E i \in Ops : Carries(i, o)) ~> OrderFinal(orders[o].status)
=============================================================================
