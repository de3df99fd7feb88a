--------------------------- MODULE Watcher_proofs ---------------------------
(***************************************************************************)
(* Proofs about Watcher: for every set of watchers, orders and records,    *)
(* every page size and every number of faults, the cursor never skips a    *)
(* payment, the first payment for an order decides its outcome, and an     *)
(* empty page means that nothing is left.                                  *)
(***************************************************************************)
EXTENDS Watcher, TLAPS

(* Payments come after the orders they name: the id is not known earlier.  *)
PaidAfterCreated ==
    \A i \in Ops, o \in OrderIds : Flatten(ledger[i]).memo = o => Created(o)

(* A recorded payment has settled its order: the transaction writes both.  *)
RecordedSettles ==
    \A i \in Ops, o \in OrderIds :
        i \in Recorded /\ Carries(i, o) => OrderFinal(orders[o].status)

(* What loadCursor has returned passes no payment without evidence.        *)
ReadNeverSkips(w) ==
    pc[w] = "fetch" =>
        \A i \in Ops : i <= at[w] /\ IsPayment(ledger[i]) => i \in Recorded

(* A page holds payments; a payment before one of them is in the page too, *)
(* or has its evidence.                                                    *)
PageClosed(w) ==
    \A j \in page[w] :
        /\ IsPayment(ledger[j])
        /\ \A i \in Ops : i < j /\ IsPayment(ledger[i]) => i \in page[w] \union Recorded

(* The loop of pollOnce takes the payments of a page in order.             *)
AtFirst(w) ==
    pc[w] = "commit" =>
        /\ at[w] \in page[w]
        /\ \A j \in page[w] : at[w] <= j

(* What a transaction has found is out of date in one way only: the order  *)
(* may have been settled meanwhile, and then the payment is not its first. *)
FoundFor(w) ==
    LET m == Flatten(ledger[at[w]]).memo
    IN  /\ found[w].order = IF m \in OrderIds THEN m ELSE NoId
        /\ m \in OrderIds =>
              \/ found[w].verdict = VerdictDuplicate /\ OrderFinal(orders[m].status)
              \/ /\ found[w].verdict # VerdictDuplicate
                 /\ found[w].verdict = FreshMatch(at[w], m).verdict
                 /\ found[w].reason = FreshMatch(at[w], m).reason

(* What holds of each watcher's own variables.                             *)
WatcherInv(w) ==
    /\ ReadNeverSkips(w)
    /\ PageClosed(w)
    /\ AtFirst(w)
    /\ pc[w] = "commit" => FoundFor(w)

(* Order o has the outcome of payment i, the first one that names it.      *)
DecidedBy(i, o) ==
    /\ Carries(i, o)
    /\ \A j \in Ops : Carries(j, o) => i <= j
    /\ orders[o].status = Terminal(FreshMatch(i, o).verdict)
    /\ orders[o].reason = FreshMatch(i, o).reason

(* The inductive invariant: the properties and what they rest on in the    *)
(* tables and in the variables of each watcher.                            *)
IInv ==
    /\ TypeOK
    /\ PaidAfterCreated
    /\ RecordedSettles
    /\ CursorNeverSkips
    /\ FirstPaymentDecides
    /\ \A w \in Watchers : WatcherInv(w)

-----------------------------------------------------------------------------
(* The matcher.                                                            *)

(* Match answers with a verdict and a reason of the closed enumerations.   *)
LEMMA MatchType ==
    ASSUME NEW p, NEW order
    PROVE  /\ Match(p, order).verdict \in Verdicts
           /\ Match(p, order).reason \in AllRejectReasons \union {NoReason}
BY DEF Match, Reject, Verdicts, AllRejectReasons, NoReason

(* An order that exists gets a duplicate exactly when it is settled.       *)
LEMMA DuplicateIffFinal ==
    ASSUME NEW p, NEW order, order.status # "none"
    PROVE  Match(p, order).verdict = VerdictDuplicate <=> OrderFinal(order.status)
BY DEF Match, Reject, VerdictDuplicate, VerdictMatched, VerdictRejected

(* Match does not look at the status of an order that is not settled.      *)
LEMMA FreshMatchIsMatch ==
    ASSUME NEW i, NEW o \in OrderIds, orders[o] \in OrderRows,
           ~ OrderFinal(orders[o].status)
    PROVE  FreshMatch(i, o) = Match(Flatten(ledger[i]), orders[o])
<1>1. orders[o].status = AwaitingPayment
  BY DEF OrderRows, OrderFinal
<1> DEFINE f == AsCreated(orders[o])
<1>2. /\ f.status = orders[o].status
      /\ f.destination = orders[o].destination
      /\ f.assetCode = orders[o].assetCode
      /\ f.assetIssuer = orders[o].assetIssuer
      /\ f.buyer = orders[o].buyer
      /\ f.amount = orders[o].amount
  BY <1>1 DEF OrderRows, AsCreated
<1> HIDE DEF f
<1>3. Match(Flatten(ledger[i]), f) = Match(Flatten(ledger[i]), orders[o])
  BY <1>2 DEF Match
<1> QED BY <1>3 DEF FreshMatch, f

-----------------------------------------------------------------------------
(* The tables.                                                             *)

(* The ledger only grows at its end.                                       *)
LEMMA PayAppends ==
    ASSUME TypeOK, NEW r \in Records, Pay(r)
    PROVE  /\ ledger' \in Seq(Records)
           /\ Len(ledger') = Len(ledger) + 1
           /\ Len(ledger') <= MaxLedger
           /\ ledger'[Len(ledger')] = r
           /\ \A i \in Ops : i \in Ops' /\ ledger'[i] = ledger[i]
BY BoundsAssumption DEF TypeOK, Pay, Ops

(* The evidence after the writes of a transaction.                         *)
LEMMA RecordedAfterCommit ==
    ASSUME NEW w \in Watchers, CommitTxn(w)
    PROVE  Recorded' = Recorded \union {at[w]}
<1>1. CASE at[w] \in Recorded
  BY <1>1 DEF CommitTxn, Recorded
<1>2. CASE at[w] \notin Recorded
  <2>1. evidence' = evidence \union {PaymentEvidence(at[w], found[w])}
    BY <1>2 DEF CommitTxn
  <2>2. PaymentEvidence(at[w], found[w]).op = at[w]
    BY DEF PaymentEvidence
  <2> QED BY <2>1, <2>2 DEF Recorded
<1> QED BY <1>1, <1>2

(* Effect of the writes of a transaction on the orders: one order at most  *)
(* changes, the one that was looked up, and it was awaiting payment.       *)
LEMMA SettleEffect ==
    ASSUME TypeOK, NEW w \in Watchers, CommitTxn(w)
    PROVE  /\ orders' \in [OrderIds -> OrderRows \union {NoOrder}]
           /\ \A o \in OrderIds :
                 \/ orders'[o] = orders[o]
                 \/ /\ Settles(w)
                    /\ o = found[w].order
                    /\ orders[o] \in OrderRows
                    /\ orders'[o] = SettledRow(orders[o], found[w])
           /\ Settles(w) => /\ found[w].order \in OrderIds
                            /\ orders'[found[w].order].status = Terminal(found[w].verdict)
                            /\ orders'[found[w].order].reason = found[w].reason
<1> DEFINE o == found[w].order
           new == SettledRow(orders[o], found[w])
<1>1. CASE ~ Settles(w)
  BY <1>1 DEF CommitTxn, Settle, TypeOK
<1>2. CASE Settles(w)
  <2>1. /\ o \in OrderIds
        /\ orders[o] \in OrderRows
    BY <1>2 DEF Settles, TypeOK, Findings, NoOrder, AwaitingPayment
  <2>2. orders' = [orders EXCEPT ![o] = new]
    BY <1>2 DEF CommitTxn, Settle
  <2>3. /\ new \in OrderRows
        /\ new.status = Terminal(found[w].verdict)
        /\ new.reason = found[w].reason
    <3>1. /\ Terminal(found[w].verdict) \in {AwaitingPayment, Validated, Rejected}
          /\ found[w].reason \in AllRejectReasons \union {NoReason}
      BY DEF Terminal, TypeOK, Findings
    <3> QED BY <3>1, <2>1 DEF OrderRows, SettledRow
  <2> HIDE DEF new
  <2>4. orders \in [OrderIds -> OrderRows \union {NoOrder}]
    BY DEF TypeOK
  <2>5. orders'[o] = new /\ \A p \in OrderIds : p # o => orders'[p] = orders[p]
    BY <2>1, <2>2, <2>4
  <2>6. orders' \in [OrderIds -> OrderRows \union {NoOrder}]
    BY <2>1, <2>2, <2>3, <2>4
  <2>7. orders'[o] = SettledRow(orders[o], found[w])
    BY <2>5 DEF new
  <2> QED BY <1>2, <2>1, <2>3, <2>5, <2>6, <2>7
<1> QED BY <1>1, <1>2

(* What Match says of an order as created does not change when the order   *)
(* is settled.                                                             *)
LEMMA FreshMatchSettled ==
    ASSUME NEW r \in OrderRows, NEW f, NEW p
    PROVE  Match(p, AsCreated(SettledRow(r, f))) = Match(p, AsCreated(r))
<1> DEFINE g == AsCreated(SettledRow(r, f))
           h == AsCreated(r)
<1>1. /\ g.status = h.status
      /\ g.destination = h.destination
      /\ g.assetCode = h.assetCode
      /\ g.assetIssuer = h.assetIssuer
      /\ g.buyer = h.buyer
      /\ g.amount = h.amount
  BY DEF OrderRows, AsCreated, SettledRow
<1> HIDE DEF g, h
<1>2. Match(p, g) = Match(p, h)
  BY <1>1 DEF Match
<1> QED BY <1>2 DEF g, h

-----------------------------------------------------------------------------
(* The steps of the environment.                                           *)

(* New and an empty database: nothing is read, recorded or settled yet.    *)
LEMMA InitIInv == Init => IInv
<1> SUFFICES ASSUME Init PROVE IInv
  OBVIOUS
<1>1. Ops = {}
  BY DEF Init, Ops
<1>2. TypeOK
  BY <1>1, BoundsAssumption DEF Init, TypeOK, Created, NoOrder, Nothing, Findings, Verdicts, Ops
<1>3. FirstPaymentDecides
  BY DEF Init, FirstPaymentDecides, OrderFinal, NoOrder, Validated, Rejected
<1> QED
  BY <1>1, <1>2, <1>3 DEF Init, IInv, PaidAfterCreated, RecordedSettles, CursorNeverSkips,
     WatcherInv, ReadNeverSkips, PageClosed, AtFirst

(* POST /orders adds a row that no payment names and no watcher holds.     *)
LEMMA CreateOrderIInv ==
    ASSUME IInv, NEW o \in OrderIds, NEW b \in Buyers, NEW a \in Amounts,
           CreateOrder(o, b, a)
    PROVE  IInv'
<1> USE DEF IInv
<1>1. /\ UNCHANGED <<ledger, evidence, cursor, pc, page, full, at, found, faults>>
      /\ Ops' = Ops /\ Recorded' = Recorded
      /\ orders[o].status = "none"
  BY DEF CreateOrder, local, Ops, Recorded, Created
<1>2. /\ orders' = [orders EXCEPT ![o] = OrderIntent(o, b, a)]
      /\ OrderIntent(o, b, a) \in OrderRows
      /\ OrderIntent(o, b, a).status = AwaitingPayment
      /\ OrderIntent(o, b, a).memo = o
  BY DEF CreateOrder, OrderIntent, OrderRows
<1>3. /\ orders' \in [OrderIds -> OrderRows \union {NoOrder}]
      /\ orders'[o] = OrderIntent(o, b, a)
      /\ \A p \in OrderIds : p # o => orders'[p] = orders[p]
  BY <1>2 DEF TypeOK
<1>4. /\ \A p \in OrderIds : Created(p)' <=> Created(p) \/ p = o
      /\ \A p \in OrderIds : OrderFinal(orders'[p].status) <=> OrderFinal(orders[p].status)
      /\ \A p \in OrderIds : OrderFinal(orders[p].status) => p # o
  BY <1>1, <1>2, <1>3 DEF Created, OrderFinal, AwaitingPayment, Validated, Rejected
<1>5. TypeOK'
  BY <1>1, <1>2, <1>3, <1>4 DEF TypeOK, Created, OrderIntent
<1>6. \A i, p : Carries(i, p)' <=> Carries(i, p)
  BY <1>1 DEF Carries
<1>8. PaidAfterCreated' /\ RecordedSettles' /\ CursorNeverSkips'
  BY <1>1, <1>4, <1>6 DEF PaidAfterCreated, RecordedSettles, CursorNeverSkips
<1>10. FirstPaymentDecides'
  <2> SUFFICES ASSUME NEW p \in OrderIds, OrderFinal(orders'[p].status)
               PROVE  \E i \in Ops' : DecidedBy(i, p)'
    BY DEF FirstPaymentDecides, DecidedBy
  <2>1. p # o /\ orders'[p] = orders[p]
    BY <1>3, <1>4
  <2>2. PICK i \in Ops : DecidedBy(i, p)
    BY <2>1 DEF FirstPaymentDecides, DecidedBy
  <2>3. FreshMatch(i, p)' = FreshMatch(i, p)
    BY <1>1, <2>1 DEF FreshMatch
  <2> QED BY <1>1, <1>6, <2>1, <2>2, <2>3 DEF DecidedBy
<1>11. ASSUME NEW w \in Watchers PROVE WatcherInv(w)'
  <2>1. WatcherInv(w)
    OBVIOUS
  <2>2. ReadNeverSkips(w)' /\ PageClosed(w)' /\ AtFirst(w)'
    BY <1>1, <2>1 DEF WatcherInv, ReadNeverSkips, PageClosed, AtFirst
  <2>3. ASSUME pc[w] = "commit" PROVE FoundFor(w)'
    <3> DEFINE m == Flatten(ledger[at[w]]).memo
    <3>1. FoundFor(w) /\ at[w] \in Ops
      BY <2>1, <2>3 DEF WatcherInv, AtFirst, TypeOK
    <3>2. m \in OrderIds => m # o
      BY <1>1, <3>1 DEF PaidAfterCreated, Created
    <3>3. m \in OrderIds => orders'[m] = orders[m] /\ FreshMatch(at[w], m)' = FreshMatch(at[w], m)
      BY <1>1, <1>3, <3>2 DEF FreshMatch
    <3> QED BY <1>1, <3>1, <3>3 DEF FoundFor
  <2> QED BY <1>1, <2>2, <2>3 DEF WatcherInv
<1> QED BY <1>5, <1>8, <1>10, <1>11

(* A new record comes after everything the cursor or a page covers.        *)
LEMMA PayIInv ==
    ASSUME IInv, NEW r \in Records, Pay(r)
    PROVE  IInv'
<1> USE DEF IInv
<1>1. /\ UNCHANGED <<orders, evidence, cursor, pc, page, full, at, found, faults>>
      /\ Recorded' = Recorded
  BY DEF Pay, db, local, Recorded
<1>2. /\ ledger' \in Seq(Records) /\ Len(ledger') <= MaxLedger
      /\ Len(ledger) \in Nat /\ Len(ledger') = Len(ledger) + 1
      /\ ledger'[Len(ledger')] = r
      /\ \A i \in Ops : i \in Ops' /\ ledger'[i] = ledger[i]
      /\ \A i \in Ops' : i \in Ops \/ i = Len(ledger')
      /\ \A i \in Ops : i < Len(ledger')
  BY PayAppends DEF Ops, TypeOK
<1>3. \A e \in evidence : e.op \in Ops
  BY DEF TypeOK
<1>4. Len(ledger') \notin Recorded
  BY <1>2, <1>3 DEF Recorded
<1>5. TypeOK'
  <2>1. \A e \in evidence :
          /\ e.op \in Ops' /\ e.observed = Flatten(ledger'[e.op])
          /\ [order |-> e.order, verdict |-> e.verdict, reason |-> e.reason] \in Findings
    BY <1>2 DEF TypeOK
  <2>2. page \in [Watchers -> SUBSET Ops']
    BY <1>2 DEF TypeOK
  <2>3. cursor \in 0..Len(ledger') /\ at \in [Watchers -> 0..Len(ledger')]
    BY <1>2 DEF TypeOK
  <2>4. TypeOK
    OBVIOUS
  <2> HIDE DEF IInv
  <2> QED BY <1>1, <1>2, <2>1, <2>2, <2>3, <2>4 DEF TypeOK, Created
<1>6. PaidAfterCreated'
  <2>1. Flatten(r).memo \in OrderIds => Created(Flatten(r).memo)
    BY DEF Pay
  <2> QED BY <1>1, <1>2, <2>1 DEF PaidAfterCreated, Created
<1>7. RecordedSettles'
  BY <1>1, <1>2, <1>4 DEF RecordedSettles, Carries
<1>8. CursorNeverSkips'
  <2>1. cursor \in 0..Len(ledger)
    BY DEF TypeOK
  <2> QED BY <1>1, <1>2, <2>1 DEF CursorNeverSkips
<1>9. ASSUME NEW w \in Watchers PROVE WatcherInv(w)'
  <2>1. WatcherInv(w) /\ at[w] \in 0..Len(ledger) /\ page[w] \subseteq Ops
    BY DEF TypeOK
  <2>2. ReadNeverSkips(w)'
    BY <1>1, <1>2, <2>1 DEF WatcherInv, ReadNeverSkips
  <2>3. PageClosed(w)'
    <3> SUFFICES ASSUME NEW j \in page[w]
                 PROVE  /\ IsPayment(ledger'[j])
                        /\ \A i \in Ops' : i < j /\ IsPayment(ledger'[i])
                                              => i \in page[w] \union Recorded
      BY <1>1 DEF PageClosed
    <3>1. j \in Ops
      BY <2>1
    <3>2. \A i \in Ops' : i < j => i \in Ops
      BY <1>2, <3>1 DEF Ops
    <3> QED BY <1>2, <2>1, <3>1, <3>2 DEF WatcherInv, PageClosed
  <2>4. AtFirst(w)'
    BY <1>1, <2>1 DEF WatcherInv, AtFirst
  <2>5. ASSUME pc[w] = "commit" PROVE FoundFor(w)'
    <3>1. FoundFor(w) /\ at[w] \in Ops
      BY <2>1, <2>5 DEF WatcherInv, AtFirst
    <3> QED BY <1>1, <1>2, <3>1 DEF FoundFor, FreshMatch
  <2> QED BY <1>1, <2>2, <2>3, <2>4, <2>5 DEF WatcherInv
<1>13. FirstPaymentDecides'
  <2> SUFFICES ASSUME NEW o \in OrderIds, OrderFinal(orders[o].status)
               PROVE  \E i \in Ops' : DecidedBy(i, o)'
    BY <1>1 DEF FirstPaymentDecides, DecidedBy
  <2>1. PICK i \in Ops : DecidedBy(i, o)
    BY DEF FirstPaymentDecides, DecidedBy
  <2>2. Carries(i, o)' /\ FreshMatch(i, o)' = FreshMatch(i, o)
    BY <1>1, <1>2, <2>1 DEF DecidedBy, Carries, FreshMatch
  <2>3. \A j \in Ops' : Carries(j, o)' => i <= j
    BY <1>2, <2>1 DEF DecidedBy, Carries, Ops
  <2> QED BY <1>1, <1>2, <2>1, <2>2, <2>3 DEF DecidedBy
<1> QED BY <1>5, <1>6, <1>7, <1>8, <1>9, <1>13

-----------------------------------------------------------------------------
(* The steps of a watcher that leave the tables alone.                     *)

(* Nothing that the invariant says of watcher u changes when neither the   *)
(* tables nor the variables of u do.                                       *)
LEMMA WatcherFrame ==
    ASSUME NEW u \in Watchers, WatcherInv(u),
           UNCHANGED <<ledger, orders, evidence>>,
           pc'[u] = pc[u], page'[u] = page[u], at'[u] = at[u], found'[u] = found[u]
    PROVE  WatcherInv(u)'
<1>1. Ops' = Ops /\ Recorded' = Recorded
  BY DEF Ops, Recorded
<1>2. ReadNeverSkips(u)' /\ PageClosed(u)' /\ AtFirst(u)'
  BY <1>1 DEF WatcherInv, ReadNeverSkips, PageClosed, AtFirst
<1>3. pc[u] = "commit" => FoundFor(u)'
  BY <1>1 DEF WatcherInv, FoundFor, FreshMatch
<1> QED BY <1>2, <1>3 DEF WatcherInv

(* A step of one watcher that writes no table has to be right about its    *)
(* own variables only.                                                     *)
LEMMA LocalStep ==
    ASSUME IInv, NEW w \in Watchers,
           UNCHANGED <<ledger, db>>,
           pc' \in [Watchers -> {"poll", "fetch", "page", "commit", "sleep"}],
           page' \in [Watchers -> SUBSET Ops],
           full' \in [Watchers -> BOOLEAN],
           at' \in [Watchers -> 0..Len(ledger)],
           found' \in [Watchers -> Findings],
           faults' \in 0..MaxFaults,
           \A u \in Watchers : u # w => /\ pc'[u] = pc[u] /\ page'[u] = page[u]
                                       /\ at'[u] = at[u] /\ found'[u] = found[u],
           WatcherInv(w)'
    PROVE  IInv'
<1>1. UNCHANGED <<ledger, orders, evidence, cursor>> /\ Ops' = Ops /\ Recorded' = Recorded
  BY DEF db, Ops, Recorded
<1>2. TypeOK'
  BY <1>1 DEF IInv, TypeOK, Created
<1>3. PaidAfterCreated' /\ RecordedSettles' /\ CursorNeverSkips'
  BY <1>1 DEF IInv, PaidAfterCreated, RecordedSettles, CursorNeverSkips, Created, Carries
<1>4. FirstPaymentDecides'
  BY <1>1 DEF IInv, FirstPaymentDecides, Carries, FreshMatch
<1>5. \A u \in Watchers : WatcherInv(u)'
  BY <1>1, WatcherFrame DEF IInv
<1> QED BY <1>2, <1>3, <1>4, <1>5 DEF IInv

(* A watcher that has left its page holds nothing that could be wrong.     *)
LEMMA ForgetIInv ==
    ASSUME IInv, NEW w \in Watchers, NEW l \in {"poll", "sleep"},
           UNCHANGED <<ledger, db>>, Forget(w), Goto(w, l), faults' \in 0..MaxFaults
    PROVE  IInv'
<1>1. /\ pc' \in [Watchers -> {"poll", "fetch", "page", "commit", "sleep"}]
      /\ page' \in [Watchers -> SUBSET Ops]
      /\ full' \in [Watchers -> BOOLEAN]
      /\ at' \in [Watchers -> 0..Len(ledger)]
      /\ found' \in [Watchers -> Findings]
  <2>1. Nothing \in Findings /\ Len(ledger) \in Nat
    BY DEF IInv, TypeOK, Nothing, Findings, Verdicts
  <2> QED BY <2>1 DEF IInv, TypeOK, Forget, Goto
<1>2. \A u \in Watchers : u # w => /\ pc'[u] = pc[u] /\ page'[u] = page[u]
                                  /\ at'[u] = at[u] /\ found'[u] = found[u]
  BY DEF IInv, TypeOK, Forget, Goto
<1>3. pc'[w] = l /\ page'[w] = {}
  BY DEF IInv, TypeOK, Forget, Goto
<1>4. WatcherInv(w)'
  BY <1>3 DEF WatcherInv, ReadNeverSkips, PageClosed, AtFirst
<1> QED BY <1>1, <1>2, <1>4, LocalStep

(* pollOnce may start from the stored cursor: all before it is recorded.   *)
LEMMA LoadCursorIInv ==
    ASSUME IInv, NEW w \in Watchers, LoadCursor(w) \/ LoadCursorFails(w)
    PROVE  IInv'
<1> DEFINE c == at'[w]
<1>1. /\ pc[w] = "poll"
      /\ pc' = [pc EXCEPT ![w] = "fetch"]
      /\ at' = [at EXCEPT ![w] = cursor] \/ at' = [at EXCEPT ![w] = 0]
      /\ UNCHANGED <<ledger, db, page, full, found>>
      /\ faults' \in 0..MaxFaults
  BY BoundsAssumption DEF LoadCursor, LoadCursorFails, Goto, Fault, IInv, TypeOK
<1>2. c \in 0..Len(ledger) /\ (c = cursor \/ c = 0) /\ at' = [at EXCEPT ![w] = c]
  BY <1>1 DEF IInv, TypeOK
<1>3. UNCHANGED <<orders, evidence>> /\ Ops' = Ops /\ Recorded' = Recorded
  BY <1>1 DEF db, Ops, Recorded
<1>4. pc'[w] = "fetch" /\ page'[w] = page[w]
  BY <1>1 DEF IInv, TypeOK
<1>5. ReadNeverSkips(w)'
  BY <1>1, <1>2, <1>3 DEF IInv, CursorNeverSkips, ReadNeverSkips, Ops
<1>6. WatcherInv(w)'
  BY <1>1, <1>3, <1>4, <1>5 DEF IInv, WatcherInv, PageClosed, AtFirst
<1>7. /\ pc' \in [Watchers -> {"poll", "fetch", "page", "commit", "sleep"}]
      /\ at' \in [Watchers -> 0..Len(ledger)]
      /\ page' \in [Watchers -> SUBSET Ops]
      /\ full' \in [Watchers -> BOOLEAN]
      /\ found' \in [Watchers -> Findings]
  BY <1>1, <1>2 DEF IInv, TypeOK
<1>8. \A u \in Watchers : u # w => /\ pc'[u] = pc[u] /\ page'[u] = page[u]
                                  /\ at'[u] = at[u] /\ found'[u] = found[u]
  BY <1>1, <1>2 DEF IInv, TypeOK
<1> QED BY <1>1, <1>6, <1>7, <1>8, LocalStep

(* The new page holds every payment up to its last one that the cursor     *)
(* did not already cover.                                                  *)
LEMMA FetchIInv ==
    ASSUME IInv, NEW w \in Watchers, Fetch(w)
    PROVE  IInv'
<1> DEFINE P == FetchPayments(ledger, at[w], Limit)
<1>1. /\ pc[w] = "fetch"
      /\ pc' = [pc EXCEPT ![w] = "page"]
      /\ page' = [page EXCEPT ![w] = P]
      /\ \E b \in BOOLEAN : full' = [full EXCEPT ![w] = b]
      /\ UNCHANGED <<ledger, db, at, found, faults>>
  BY DEF Fetch, Goto
<1>2. P \subseteq Ops
  BY DEF FetchPayments, RawPage, Ops
<1>3. /\ pc' \in [Watchers -> {"poll", "fetch", "page", "commit", "sleep"}]
      /\ page' \in [Watchers -> SUBSET Ops]
      /\ full' \in [Watchers -> BOOLEAN]
      /\ at' \in [Watchers -> 0..Len(ledger)]
      /\ found' \in [Watchers -> Findings]
      /\ faults' \in 0..MaxFaults
      /\ pc'[w] = "page" /\ page'[w] = P
      /\ \A u \in Watchers : u # w => /\ pc'[u] = pc[u] /\ page'[u] = page[u]
                                      /\ at'[u] = at[u] /\ found'[u] = found[u]
  BY <1>1, <1>2 DEF IInv, TypeOK
<1>4. UNCHANGED <<orders, evidence>> /\ Ops' = Ops /\ Recorded' = Recorded
  BY <1>1 DEF db, Ops, Recorded
<1>5. PageClosed(w)'
  <2> SUFFICES ASSUME NEW j \in P
               PROVE  /\ IsPayment(ledger[j])
                      /\ \A i \in Ops : i < j /\ IsPayment(ledger[i]) => i \in P \union Recorded
    BY <1>1, <1>3, <1>4 DEF PageClosed
  <2>1. /\ j \in Ops /\ at[w] < j /\ j <= at[w] + Limit /\ IsPayment(ledger[j])
    BY DEF FetchPayments, RawPage, Ops
  <2>2. ASSUME NEW i \in Ops, i < j, IsPayment(ledger[i]) PROVE i \in P \union Recorded
    <3>1. CASE i <= at[w]
      BY <1>1, <2>2, <3>1 DEF IInv, WatcherInv, ReadNeverSkips
    <3>2. CASE at[w] < i
      <4>1. at[w] \in 0..Len(ledger) /\ Limit \in Nat
        BY LimitAssumption DEF IInv, TypeOK
      <4> QED BY <2>1, <2>2, <3>2, <4>1 DEF FetchPayments, RawPage, Ops
    <3>3. at[w] \in 0..Len(ledger)
      BY DEF IInv, TypeOK
    <3> QED BY <3>1, <3>2, <3>3 DEF Ops
  <2> QED BY <2>1, <2>2
<1>6. WatcherInv(w)'
  BY <1>3, <1>5 DEF WatcherInv, ReadNeverSkips, AtFirst
<1> QED BY <1>1, <1>3, <1>6, LocalStep

(* A transaction begins with the first payment of the page and with what   *)
(* Match says of it for the order as it is now.                            *)
LEMMA LookUpIInv ==
    ASSUME IInv, NEW w \in Watchers, LookUp(w)
    PROVE  IInv'
<1>1. PICK i \in page[w] :
        /\ \A j \in page[w] : i <= j
        /\ at' = [at EXCEPT ![w] = i]
        /\ LET p == Flatten(ledger[i])
               m == Match(p, OrderOf(p.memo))
           IN  found' = [found EXCEPT ![w] =
                  [order   |-> IF OrderOf(p.memo) = NoOrder THEN NoId ELSE p.memo,
                   verdict |-> m.verdict,
                   reason  |-> m.reason]]
  BY DEF LookUp, Looked
<1> DEFINE p == Flatten(ledger[i])
           m == Match(p, OrderOf(p.memo))
           f == [order   |-> IF OrderOf(p.memo) = NoOrder THEN NoId ELSE p.memo,
                 verdict |-> m.verdict,
                 reason  |-> m.reason]
<1>2. /\ pc' = [pc EXCEPT ![w] = "commit"]
      /\ UNCHANGED <<ledger, db, page, full, faults>>
  BY DEF LookUp, Looked, Goto
<1>3. i \in Ops /\ at' = [at EXCEPT ![w] = i] /\ found' = [found EXCEPT ![w] = f]
  BY <1>1 DEF IInv, TypeOK
<1>4. f \in Findings
  <2>1. p.memo \in OrderIds \/ OrderOf(p.memo) = NoOrder
    BY DEF OrderOf
  <2> QED BY <2>1, MatchType DEF Findings
<1> HIDE DEF f
<1>5. /\ pc' \in [Watchers -> {"poll", "fetch", "page", "commit", "sleep"}]
      /\ page' \in [Watchers -> SUBSET Ops]
      /\ full' \in [Watchers -> BOOLEAN]
      /\ at' \in [Watchers -> 0..Len(ledger)]
      /\ found' \in [Watchers -> Findings]
      /\ faults' \in 0..MaxFaults
      /\ pc'[w] = "commit" /\ page'[w] = page[w] /\ at'[w] = i /\ found'[w] = f
      /\ \A u \in Watchers : u # w => /\ pc'[u] = pc[u] /\ page'[u] = page[u]
                                      /\ at'[u] = at[u] /\ found'[u] = found[u]
  <2>1. i \in 0..Len(ledger)
    BY <1>3 DEF Ops
  <2> QED BY <1>2, <1>3, <1>4, <2>1 DEF IInv, TypeOK
<1>6. UNCHANGED <<orders, evidence>> /\ Ops' = Ops /\ Recorded' = Recorded
  BY <1>2 DEF db, Ops, Recorded
<1>7. PageClosed(w)' /\ AtFirst(w)' /\ ReadNeverSkips(w)'
  BY <1>1, <1>2, <1>5, <1>6 DEF IInv, WatcherInv, PageClosed, AtFirst, ReadNeverSkips
<1>8. FoundFor(w)'
  <2>1. CASE p.memo \notin OrderIds
    <3>1. f.order = NoId
      BY <2>1 DEF f, OrderOf
    <3> QED BY <1>2, <1>5, <2>1, <3>1 DEF FoundFor
  <2>2. CASE p.memo \in OrderIds
    <3> DEFINE o == p.memo
    <3>1. orders[o].status # "none" /\ orders[o] \in OrderRows /\ OrderOf(o) = orders[o]
      <4>1. orders[o].status # "none"
        BY <1>3, <2>2 DEF IInv, PaidAfterCreated, Created
      <4>2. orders[o] \in OrderRows \union {NoOrder}
        BY <2>2 DEF IInv, TypeOK
      <4> QED BY <2>2, <4>1, <4>2 DEF OrderOf, NoOrder
    <3>2. orders[o] # NoOrder
      BY <3>1 DEF NoOrder
    <3>3. f.order = o /\ f.verdict = Match(p, orders[o]).verdict
                     /\ f.reason = Match(p, orders[o]).reason
      BY <3>1, <3>2 DEF f
    <3>4. CASE OrderFinal(orders[o].status)
      <4>1. f.verdict = VerdictDuplicate
        BY <3>1, <3>3, <3>4, DuplicateIffFinal
      <4> QED BY <1>2, <1>5, <1>6, <2>2, <3>3, <3>4, <4>1 DEF FoundFor
    <3>5. CASE ~ OrderFinal(orders[o].status)
      <4>1. f.verdict # VerdictDuplicate
        BY <3>1, <3>3, <3>5, DuplicateIffFinal
      <4>2. FreshMatch(i, o) = Match(p, orders[o])
        BY <2>2, <3>1, <3>5, FreshMatchIsMatch
      <4>3. FreshMatch(i, o)' = FreshMatch(i, o)
        BY <1>2, <1>6 DEF FreshMatch
      <4> QED BY <1>2, <1>5, <1>6, <2>2, <3>3, <4>1, <4>2, <4>3 DEF FoundFor
    <3> QED BY <3>4, <3>5
  <2> QED BY <2>1, <2>2
<1>9. WatcherInv(w)'
  BY <1>7, <1>8 DEF WatcherInv
<1> QED BY <1>2, <1>5, <1>9, LocalStep

-----------------------------------------------------------------------------
(* The transaction.                                                        *)

(* No write of a transaction changes what Match would have said of an      *)
(* order as created, and none changes an order that is settled.            *)
LEMMA CommitKeepsVerdicts ==
    ASSUME IInv, NEW w \in Watchers, CommitTxn(w), UNCHANGED ledger,
           NEW o \in OrderIds
    PROVE  /\ \A i : FreshMatch(i, o)' = FreshMatch(i, o)
           /\ OrderFinal(orders[o].status) => orders'[o] = orders[o]
           /\ Created(o)' <=> Created(o)
           /\ Created(o) => orders'[o].memo = orders[o].memo
<1>1. TypeOK
  BY DEF IInv
<1>2. CASE orders'[o] = orders[o]
  BY <1>2 DEF FreshMatch, Created
<1>3. CASE orders'[o] # orders[o]
  <2>1. /\ Settles(w) /\ o = found[w].order
        /\ orders[o] \in OrderRows
        /\ orders'[o] = SettledRow(orders[o], found[w])
    BY <1>1, <1>3, SettleEffect
  <2>2. orders[o].status = AwaitingPayment /\ ~ OrderFinal(orders[o].status)
    BY <2>1 DEF Settles, OrderFinal, AwaitingPayment, Validated, Rejected
  <2>3. orders'[o].status # "none" /\ orders'[o].memo = orders[o].memo
    BY <2>1 DEF OrderRows, SettledRow, Terminal, Validated, Rejected
  <2>4. orders[o].status # "none"
    BY <2>2 DEF AwaitingPayment
  <2>5. \A i : FreshMatch(i, o)' = FreshMatch(i, o)
    BY <2>1, FreshMatchSettled DEF FreshMatch
  <2> QED BY <2>2, <2>3, <2>4, <2>5 DEF Created
<1> QED BY <1>2, <1>3

(* The payment being processed comes before every payment without evidence.*)
LEMMA EarlierRecorded ==
    ASSUME IInv, NEW w \in Watchers, pc[w] = "commit",
           NEW i \in Ops, i < at[w], IsPayment(ledger[i])
    PROVE  i \in Recorded
<1>1. at[w] \in Ops /\ at[w] \in page[w] /\ i \in page[w] \union Recorded
  BY DEF IInv, TypeOK, WatcherInv, AtFirst, PageClosed
<1>2. ~ (i \in page[w])
  BY <1>1 DEF IInv, WatcherInv, AtFirst, Ops
<1> QED BY <1>1, <1>2

(* Committing leaves an order settled that the payment names.              *)
LEMMA CommitSettles ==
    ASSUME IInv, NEW w \in Watchers, pc[w] = "commit", CommitTxn(w), UNCHANGED ledger,
           NEW o \in OrderIds, Carries(at[w], o)
    PROVE  OrderFinal(orders'[o].status)
<1>1. at[w] \in Ops /\ FoundFor(w) /\ Flatten(ledger[at[w]]).memo = o /\ TypeOK
  BY DEF IInv, TypeOK, WatcherInv, AtFirst, Carries
<1>2. found[w].order = o /\ o # NoId
  BY <1>1, NoIdAssumption DEF FoundFor
<1>3. CASE OrderFinal(orders[o].status)
  BY <1>3, CommitKeepsVerdicts
<1>4. CASE ~ OrderFinal(orders[o].status)
  <2>1. orders[o].status = AwaitingPayment
    <3>1. orders[o].status # "none"
      BY <1>1 DEF IInv, PaidAfterCreated, Created
    <3>2. orders[o] \in OrderRows
      BY <1>1, <3>1 DEF TypeOK, NoOrder
    <3> QED BY <1>4, <3>2 DEF OrderRows, OrderFinal
  <2>2. at[w] \notin Recorded
    BY <1>1, <1>4 DEF IInv, RecordedSettles
  <2>3. found[w].verdict # VerdictDuplicate
    BY <1>1, <1>4 DEF FoundFor
  <2>4. Settles(w)
    BY <1>2, <2>1, <2>2, <2>3 DEF Settles
  <2>5. orders'[o].status = Terminal(found[w].verdict)
    BY <1>1, <1>2, <2>4, SettleEffect
  <2> QED BY <2>5 DEF Terminal, OrderFinal
<1> QED BY <1>3, <1>4

(* What the invariant says of the tables holds after the transaction.      *)
LEMMA CommitTables ==
    ASSUME IInv, NEW w \in Watchers, pc[w] = "commit", CommitTxn(w), UNCHANGED ledger
    PROVE  /\ PaidAfterCreated'
           /\ RecordedSettles'
           /\ CursorNeverSkips'
           /\ FirstPaymentDecides'
<1>1. /\ at[w] \in Ops /\ IsPayment(ledger[at[w]]) /\ FoundFor(w) /\ TypeOK
      /\ Ops' = Ops /\ cursor' = at[w]
      /\ Recorded' = Recorded \union {at[w]}
  BY RecordedAfterCommit DEF IInv, TypeOK, WatcherInv, AtFirst, PageClosed, Ops, CommitTxn
<1>2. \A i, o : Carries(i, o)' <=> Carries(i, o)
  BY DEF Carries
<1>3. PaidAfterCreated'
  BY <1>1, CommitKeepsVerdicts DEF IInv, PaidAfterCreated
<1>4. RecordedSettles'
  <2> SUFFICES ASSUME NEW i \in Ops, NEW o \in OrderIds, i \in Recorded', Carries(i, o)
               PROVE  OrderFinal(orders'[o].status)
    BY <1>1, <1>2 DEF RecordedSettles
  <2>1. CASE i \in Recorded
    <3>1. OrderFinal(orders[o].status)
      BY <2>1 DEF IInv, RecordedSettles
    <3> QED BY <3>1, CommitKeepsVerdicts
  <2>2. CASE i = at[w]
    BY <2>2, CommitSettles
  <2> QED BY <1>1, <2>1, <2>2
<1>5. CursorNeverSkips'
  <2> SUFFICES ASSUME NEW i \in Ops, i <= at[w], IsPayment(ledger[i])
               PROVE  i \in Recorded'
    BY <1>1 DEF CursorNeverSkips
  <2>1. i < at[w] \/ i = at[w]
    BY <1>1 DEF Ops
  <2>2. i < at[w] => i \in Recorded
    BY EarlierRecorded
  <2> QED BY <1>1, <2>1, <2>2
<1>6. FirstPaymentDecides'
  <2> SUFFICES ASSUME NEW o \in OrderIds, OrderFinal(orders'[o].status)
               PROVE  \E i \in Ops' : DecidedBy(i, o)'
    BY DEF FirstPaymentDecides, DecidedBy
  <2>1. CASE OrderFinal(orders[o].status)
    <3>1. PICK i \in Ops : DecidedBy(i, o)
      BY <2>1 DEF IInv, FirstPaymentDecides, DecidedBy
    <3>2. orders'[o] = orders[o] /\ FreshMatch(i, o)' = FreshMatch(i, o)
      BY <2>1, CommitKeepsVerdicts
    <3> QED BY <1>1, <1>2, <3>1, <3>2 DEF DecidedBy
  <2>2. CASE ~ OrderFinal(orders[o].status)
    <3>1. /\ Settles(w) /\ o = found[w].order
          /\ orders'[o].status = Terminal(found[w].verdict)
          /\ orders'[o].reason = found[w].reason
      BY <1>1, <2>2, SettleEffect
    <3>2. PICK i \in Ops : i = at[w]
      BY <1>1
    <3>3. Carries(i, o)
      BY <1>1, <3>1, <3>2 DEF FoundFor, Settles, Carries
    <3>4. /\ found[w].verdict = FreshMatch(i, o).verdict
          /\ found[w].reason = FreshMatch(i, o).reason
      BY <1>1, <3>1, <3>2, <3>3 DEF FoundFor, Settles, Carries
    <3>5. FreshMatch(i, o)' = FreshMatch(i, o)
      BY CommitKeepsVerdicts
    <3>6. \A j \in Ops : Carries(j, o) => i <= j
      <4> SUFFICES ASSUME NEW j \in Ops, Carries(j, o), j < at[w] PROVE FALSE
        BY <3>2 DEF Ops
      <4>1. j \in Recorded
        BY EarlierRecorded DEF Carries
      <4> QED BY <2>2, <4>1 DEF IInv, RecordedSettles
    <3>7. DecidedBy(i, o)'
      BY <1>1, <1>2, <3>1, <3>3, <3>4, <3>5, <3>6 DEF DecidedBy
    <3> QED BY <1>1, <3>7
  <2> QED BY <2>1, <2>2
<1> QED BY <1>3, <1>4, <1>5, <1>6

(* What another watcher has read is still right after the transaction.     *)
LEMMA CommitOthers ==
    ASSUME IInv, NEW w \in Watchers, pc[w] = "commit", CommitTxn(w), UNCHANGED ledger,
           NEW u \in Watchers, pc'[u] = pc[u], page'[u] = page[u],
           at'[u] = at[u], found'[u] = found[u]
    PROVE  WatcherInv(u)'
<1>1. Ops' = Ops /\ Recorded' = Recorded \union {at[w]} /\ WatcherInv(u)
  BY RecordedAfterCommit DEF Ops, IInv
<1>2. ReadNeverSkips(u)' /\ PageClosed(u)' /\ AtFirst(u)'
  BY <1>1 DEF WatcherInv, ReadNeverSkips, PageClosed, AtFirst
<1>3. ASSUME pc[u] = "commit" PROVE FoundFor(u)'
  <2> DEFINE m == Flatten(ledger[at[u]]).memo
  <2>1. FoundFor(u)
    BY <1>1, <1>3 DEF WatcherInv
  <2>2. PICK i : i = at[u]
    OBVIOUS
  <2>3. m \in OrderIds => /\ FreshMatch(i, m)' = FreshMatch(i, m)
                          /\ OrderFinal(orders[m].status) => OrderFinal(orders'[m].status)
    <3> SUFFICES ASSUME NEW o \in OrderIds
                 PROVE  /\ FreshMatch(i, o)' = FreshMatch(i, o)
                        /\ OrderFinal(orders[o].status) => OrderFinal(orders'[o].status)
      BY DEF FreshMatch
    <3> QED BY CommitKeepsVerdicts
  <2> QED BY <2>1, <2>2, <2>3 DEF FoundFor
<1> QED BY <1>2, <1>3 DEF WatcherInv

(* The transaction of process writes rows of the right shape.              *)
LEMMA CommitType ==
    ASSUME IInv, NEW w \in Watchers, pc[w] = "commit", CommitTxn(w), UNCHANGED ledger,
           pc' \in [Watchers -> {"poll", "fetch", "page", "commit", "sleep"}],
           page' \in [Watchers -> SUBSET Ops],
           full' \in [Watchers -> BOOLEAN],
           at' \in [Watchers -> 0..Len(ledger)],
           found' \in [Watchers -> Findings],
           faults' \in 0..MaxFaults
    PROVE  TypeOK'
<1>1. TypeOK /\ Ops' = Ops /\ at[w] \in Ops
  BY DEF IInv, TypeOK, WatcherInv, AtFirst, Ops
<1>2. orders' \in [OrderIds -> OrderRows \union {NoOrder}]
  BY <1>1, SettleEffect
<1>3. \A o \in OrderIds : Created(o)' => orders'[o].memo = o
  BY <1>1, CommitKeepsVerdicts DEF TypeOK
<1>4. cursor' \in 0..Len(ledger)
  BY <1>1 DEF CommitTxn, Ops
<1>5. \A e \in evidence' :
        /\ e.op \in Ops /\ e.observed = Flatten(ledger[e.op])
        /\ [order |-> e.order, verdict |-> e.verdict, reason |-> e.reason] \in Findings
  <2> SUFFICES ASSUME NEW e, e = PaymentEvidence(at[w], found[w])
               PROVE  /\ e.op \in Ops /\ e.observed = Flatten(ledger[e.op])
                      /\ [order |-> e.order, verdict |-> e.verdict, reason |-> e.reason] \in Findings
    BY <1>1 DEF CommitTxn, TypeOK
  <2>1. found[w] \in Findings
    BY <1>1 DEF TypeOK
  <2> QED BY <1>1, <2>1 DEF PaymentEvidence, Findings
<1> QED BY <1>1, <1>2, <1>3, <1>4, <1>5 DEF TypeOK

(* The transaction of process keeps the invariant, whether the answer to   *)
(* its COMMIT arrives or is lost.                                          *)
LEMMA CommitIInv ==
    ASSUME IInv, NEW w \in Watchers, Commit(w) \/ CommitUnknown(w)
    PROVE  IInv'
<1>1. pc[w] = "commit" /\ CommitTxn(w) /\ UNCHANGED ledger
  BY DEF Commit, CommitUnknown
<1>2. /\ pc' \in [Watchers -> {"poll", "fetch", "page", "commit", "sleep"}]
      /\ page' \in [Watchers -> SUBSET Ops]
      /\ full' \in [Watchers -> BOOLEAN]
      /\ at' \in [Watchers -> 0..Len(ledger)]
      /\ found' \in [Watchers -> Findings]
      /\ faults' \in 0..MaxFaults
      /\ \A u \in Watchers : u # w => /\ pc'[u] = pc[u] /\ page'[u] = page[u]
                                      /\ at'[u] = at[u] /\ found'[u] = found[u]
      /\ pc'[w] \in {"page", "sleep"} /\ page'[w] \in {page[w] \ {at[w]}, {}}
  <2>1. TypeOK /\ Nothing \in Findings /\ Len(ledger) \in Nat
    BY DEF IInv, TypeOK, Nothing, Findings, Verdicts
  <2>2. CASE Commit(w)
    BY <2>1, <2>2 DEF TypeOK, Commit, Goto
  <2>3. CASE CommitUnknown(w)
    BY <2>1, <2>3, BoundsAssumption DEF TypeOK, CommitUnknown, Goto, Forget, Fault
  <2> QED BY <2>2, <2>3
<1>3. TypeOK'
  BY <1>1, <1>2, CommitType
<1>4. PaidAfterCreated' /\ RecordedSettles' /\ CursorNeverSkips' /\ FirstPaymentDecides'
  BY <1>1, CommitTables
<1>5. ASSUME NEW u \in Watchers PROVE WatcherInv(u)'
  <2>1. CASE u # w
    BY <1>1, <1>2, <2>1, CommitOthers
  <2>2. CASE u = w
    <3>1. PageClosed(w)'
      <4>1. Ops' = Ops /\ Recorded' = Recorded \union {at[w]} /\ PageClosed(w)
        BY <1>1, RecordedAfterCommit DEF Ops, IInv, WatcherInv
      <4> QED BY <1>1, <1>2, <4>1 DEF PageClosed
    <3> QED BY <1>2, <2>2, <3>1 DEF WatcherInv, ReadNeverSkips, AtFirst
  <2> QED BY <2>1, <2>2
<1> QED BY <1>3, <1>4, <1>5 DEF IInv

-----------------------------------------------------------------------------
(* The theorems.                                                           *)

(* Every step of the API, the ledger and the watchers keeps the invariant. *)
LEMMA NextIInv == IInv /\ [Next]_vars => IInv'
<1> SUFFICES ASSUME IInv, [Next]_vars PROVE IInv'
  OBVIOUS
<1>1. ASSUME NEW o \in OrderIds, NEW b \in Buyers, NEW a \in Amounts, CreateOrder(o, b, a)
      PROVE  IInv'
  BY <1>1, CreateOrderIInv
<1>2. ASSUME NEW r \in Records, Pay(r) PROVE IInv'
  BY <1>2, PayIInv
<1>3. ASSUME NEW w \in Watchers, Step(w) \/ Failure(w) PROVE IInv'
  <2>0. faults' = faults \/ Fault => faults' \in 0..MaxFaults
    BY BoundsAssumption DEF IInv, TypeOK, Fault
  <2>1. CASE LoadCursor(w) \/ LoadCursorFails(w)
    BY <2>1, LoadCursorIInv
  <2>2. CASE Fetch(w)
    BY <2>2, FetchIInv
  <2>3. CASE LookUp(w)
    BY <2>3, LookUpIInv
  <2>4. CASE Commit(w) \/ CommitUnknown(w)
    BY <2>4, CommitIInv
  <2>5. CASE EndPage(w)
    <3>1. \E l \in {"poll", "sleep"} : Goto(w, l)
      BY <2>5 DEF EndPage
    <3> QED BY <2>0, <2>5, <3>1, ForgetIInv DEF EndPage
  <2>6. CASE Wake(w)
    <3>1. /\ UNCHANGED <<ledger, db, page, full, at, found, faults>>
          /\ pc' = [pc EXCEPT ![w] = "poll"]
      BY <2>6 DEF Wake, Goto
    <3>2. /\ pc' \in [Watchers -> {"poll", "fetch", "page", "commit", "sleep"}]
          /\ \A u \in Watchers : u # w => pc'[u] = pc[u]
          /\ pc'[w] = "poll"
          /\ page \in [Watchers -> SUBSET Ops] /\ full \in [Watchers -> BOOLEAN]
          /\ at \in [Watchers -> 0..Len(ledger)] /\ found \in [Watchers -> Findings]
      BY <3>1 DEF IInv, TypeOK
    <3>3. Ops' = Ops /\ Recorded' = Recorded
      BY <3>1 DEF Ops, Recorded, db
    <3>4. WatcherInv(w)'
      BY <3>1, <3>2, <3>3 DEF IInv, WatcherInv, ReadNeverSkips, PageClosed, AtFirst
    <3> QED BY <2>0, <3>1, <3>2, <3>4, LocalStep
  <2>7. CASE FetchFails(w) \/ TxnFails(w)
    BY <2>0, <2>7, ForgetIInv DEF FetchFails, TxnFails
  <2>8. CASE Crash(w)
    BY <2>0, <2>8, ForgetIInv DEF Crash
  <2> QED
    BY <1>3, <2>1, <2>2, <2>3, <2>4, <2>5, <2>6, <2>7, <2>8 DEF Step, Failure
<1>4. CASE UNCHANGED vars
  <2>1. UNCHANGED <<ledger, orders, evidence, cursor, pc, page, full, at, found, faults>>
    BY <1>4 DEF vars, db, local
  <2>2. Ops' = Ops /\ Recorded' = Recorded
    BY <2>1 DEF Ops, Recorded
  <2>3. TypeOK' /\ PaidAfterCreated' /\ RecordedSettles' /\ CursorNeverSkips'
    BY <2>1, <2>2 DEF IInv, TypeOK, PaidAfterCreated, RecordedSettles, CursorNeverSkips,
                      Created, Carries
  <2>4. FirstPaymentDecides'
    BY <2>1, <2>2 DEF IInv, FirstPaymentDecides, Carries, FreshMatch
  <2>5. \A u \in Watchers : WatcherInv(u)'
    BY <2>1, WatcherFrame DEF IInv
  <2> QED BY <2>3, <2>4, <2>5 DEF IInv
<1> QED BY <1>1, <1>2, <1>3, <1>4 DEF Next

(* The inductive invariant holds in every reachable state.                 *)
THEOREM Invariance == Spec => []IInv
<1> QED BY InitIInv, NextIInv, PTL DEF Spec

(* The tables and the watchers' variables keep their types.                *)
THEOREM TypeCorrect == Spec => []TypeOK
<1>1. IInv => TypeOK
  BY DEF IInv
<1> QED BY <1>1, Invariance, PTL

(* No payment up to the stored cursor is without evidence, whatever fails  *)
(* and however many watchers share the stream.                             *)
THEOREM NothingSkipped == Spec => []CursorNeverSkips
<1>1. IInv => CursorNeverSkips
  BY DEF IInv
<1> QED BY <1>1, Invariance, PTL

(* The status and the reason of a settled order are those Match gives for  *)
(* the first payment on the ledger that carries its memo.                  *)
THEOREM OutcomeIsDetermined == Spec => []FirstPaymentDecides
<1>1. IInv => FirstPaymentDecides
  BY DEF IInv
<1> QED BY <1>1, Invariance, PTL
(* What one step does to the evidence: nothing, or the writes of one       *)
(* transaction, which add a row for an operation that had none.            *)
LEMMA StepWrites ==
    ASSUME [Next]_vars
    PROVE  \/ UNCHANGED evidence /\ \/ UNCHANGED orders
                                    \/ \E o \in OrderIds, b \in Buyers, a \in Amounts :
                                          CreateOrder(o, b, a)
           \/ \E w \in Watchers : CommitTxn(w) /\ UNCHANGED ledger
<1>1. CASE \E o \in OrderIds, b \in Buyers, a \in Amounts : CreateOrder(o, b, a)
  BY <1>1 DEF CreateOrder
<1>2. CASE \E r \in Records : Pay(r)
  BY <1>2 DEF Pay, db
<1>3. CASE \E w \in Watchers : Step(w)
  BY <1>3 DEF Step, LoadCursor, Fetch, LookUp, Commit, EndPage, Wake, db
<1>4. CASE \E w \in Watchers : Failure(w)
  BY <1>4 DEF Failure, LoadCursorFails, FetchFails, TxnFails, CommitUnknown, Crash, db
<1>5. CASE UNCHANGED vars
  BY <1>5 DEF vars, db
<1> QED BY <1>1, <1>2, <1>3, <1>4, <1>5 DEF Next

(* No step removes a row of evidence or changes an order that is settled.  *)
LEMMA StepKeepsVerdicts ==
    ASSUME IInv, [Next]_vars
    PROVE  /\ evidence \subseteq evidence'
           /\ \A o \in OrderIds :
                 OrderFinal(orders[o].status) => orders'[o] = orders[o]
<1>1. CASE UNCHANGED evidence /\ UNCHANGED orders
  BY <1>1
<1>2. ASSUME NEW p \in OrderIds, NEW b \in Buyers, NEW a \in Amounts, CreateOrder(p, b, a)
      PROVE  /\ evidence \subseteq evidence'
             /\ \A o \in OrderIds :
                   OrderFinal(orders[o].status) => orders'[o] = orders[o]
  <2>1. ~ OrderFinal(orders[p].status)
    BY <1>2 DEF CreateOrder, Created, OrderFinal, Validated, Rejected
  <2>2. \A o \in OrderIds : o # p => orders'[o] = orders[o]
    BY <1>2 DEF CreateOrder, IInv, TypeOK
  <2> QED BY <1>2, <2>1, <2>2 DEF CreateOrder
<1>3. ASSUME NEW w \in Watchers, CommitTxn(w), UNCHANGED ledger
      PROVE  /\ evidence \subseteq evidence'
             /\ \A o \in OrderIds :
                   OrderFinal(orders[o].status) => orders'[o] = orders[o]
  <2>1. evidence \subseteq evidence'
    BY <1>3 DEF CommitTxn
  <2> QED BY <1>3, <2>1, CommitKeepsVerdicts
<1> QED BY <1>1, <1>2, <1>3, StepWrites

(* Verdicts and evidence are never taken back.                             *)
THEOREM VerdictsStand == Spec => VerdictStands
<1>1. IInv /\ [Next]_vars =>
        [/\ evidence \subseteq evidence'
         /\ \A o \in OrderIds :
               OrderFinal(orders[o].status) => orders'[o] = orders[o]]_vars
  BY StepKeepsVerdicts
<1> QED BY <1>1, Invariance, PTL DEF Spec, VerdictStands

(* Two rows of evidence are never about the same operation.                *)
THEOREM RecordedOnce == Spec => []ReplaySafe
<1>1. Init => ReplaySafe
  BY DEF Init, ReplaySafe
<1>2. ReplaySafe /\ [Next]_vars => ReplaySafe'
  <2> SUFFICES ASSUME ReplaySafe, [Next]_vars PROVE ReplaySafe'
    OBVIOUS
  <2>1. CASE UNCHANGED evidence
    BY <2>1 DEF ReplaySafe
  <2>2. ASSUME NEW w \in Watchers, CommitTxn(w) PROVE ReplaySafe'
    <3>1. PaymentEvidence(at[w], found[w]).op = at[w]
      BY DEF PaymentEvidence
    <3>2. CASE at[w] \in Recorded
      BY <2>2, <3>2 DEF CommitTxn, ReplaySafe
    <3>3. CASE at[w] \notin Recorded
      <4>1. \A e \in evidence : e.op # at[w]
        BY <3>3 DEF Recorded
      <4>2. evidence' = evidence \union {PaymentEvidence(at[w], found[w])}
        BY <2>2, <3>3 DEF CommitTxn
      <4> QED BY <3>1, <4>1, <4>2 DEF ReplaySafe
    <3> QED BY <3>2, <3>3
  <2> QED BY <2>1, <2>2, StepWrites
<1> QED BY <1>1, <1>2, PTL DEF Spec
-----------------------------------------------------------------------------
(* Watcher implements OrderVerdict.                                        *)

(* An order that is not settled has no reason yet.                         *)
OpenHasNoReason ==
    \A o \in OrderIds : orders[o].status = AwaitingPayment => orders[o].reason = NoReason

(* No order exists, so none is open with a reason.                         *)
LEMMA OpenInit == Init => OpenHasNoReason
BY DEF Init, OpenHasNoReason, NoOrder, AwaitingPayment

(* CreateOrder opens an order without a reason, and only the transaction   *)
(* of process sets one, together with the final status.                    *)
LEMMA OpenStep == IInv /\ OpenHasNoReason /\ [Next]_vars => OpenHasNoReason'
<1> SUFFICES ASSUME IInv, OpenHasNoReason, [Next]_vars, NEW o \in OrderIds,
                    orders'[o].status = AwaitingPayment
             PROVE  orders'[o].reason = NoReason
  BY DEF OpenHasNoReason
<1>1. CASE orders'[o] = orders[o]
  BY <1>1 DEF OpenHasNoReason
<1>2. ASSUME NEW p \in OrderIds, NEW b \in Buyers, NEW a \in Amounts, CreateOrder(p, b, a)
      PROVE  orders'[o].reason = NoReason
  <2>1. orders' = [orders EXCEPT ![p] = OrderIntent(p, b, a)]
    BY <1>2 DEF CreateOrder
  <2>2. OrderIntent(p, b, a).reason = NoReason
    BY DEF OrderIntent
  <2> QED BY <2>1, <2>2, <1>1 DEF IInv, TypeOK
<1>3. ASSUME NEW w \in Watchers, CommitTxn(w)
      PROVE  orders'[o] = orders[o]
  <2>1. SUFFICES ASSUME orders'[o] # orders[o] PROVE FALSE
    OBVIOUS
  <2>2. orders[o] \in OrderRows /\ orders'[o] = SettledRow(orders[o], found[w])
    BY <1>3, <2>1, SettleEffect DEF IInv
  <2>3. orders'[o].status = Terminal(found[w].verdict)
    BY <2>2 DEF SettledRow, OrderRows
  <2> QED BY <2>3 DEF Terminal, AwaitingPayment, Validated, Rejected
<1> QED BY <1>1, <1>2, <1>3, StepWrites

(* Match never rejects with invalid_memo a payment for an order that       *)
(* exists, and gives a reason exactly when it rejects.                     *)
LEMMA FreshDecision ==
    ASSUME NEW p, NEW row \in OrderRows
    PROVE  Decision(Terminal(Match(p, AsCreated(row)).verdict),
                    Match(p, AsCreated(row)).reason) \in OrderDecisions
<1>1. AsCreated(row).status = AwaitingPayment
  BY DEF AsCreated, OrderRows
<1>2. Match(p, AsCreated(row)) \in {[verdict |-> VerdictMatched, reason |-> NoReason],
         Reject(WrongDestination), Reject(WrongAsset), Reject(WrongBuyerWallet),
         Reject(Underpayment)}
  BY <1>1 DEF Match, OrderFinal, AwaitingPayment, Validated, Rejected
<1> QED BY <1>2 DEF Reject, Terminal, OrderDecisions, Decision, VerdictMatched,
     VerdictRejected, AllRejectReasons, WrongDestination, WrongAsset,
     WrongBuyerWallet, Underpayment, InvalidMemo

(* An order as OrderVerdict sees it.                                       *)
View(o) ==
    IF Created(o) THEN Decision(orders[o].status, orders[o].reason)
                  ELSE Decision("none", NoReason)

Views == [o \in OrderIds |-> View(o)]

(* A step of Watcher opens an order, decides one, or is not seen by        *)
(* OrderVerdict.                                                           *)
LEMMA StepView ==
    ASSUME IInv, IInv', OpenHasNoReason, [Next]_vars
    PROVE  \/ Views' = Views
           \/ \E o \in OrderIds :
                 /\ View(o) = Decision("none", NoReason)
                 /\ Views' = [Views EXCEPT ![o] = Decision(AwaitingPayment, NoReason)]
           \/ \E o \in OrderIds, d \in OrderDecisions :
                 /\ View(o) = Decision(AwaitingPayment, NoReason)
                 /\ Views' = [Views EXCEPT ![o] = d]
<1>1. CASE UNCHANGED orders
  BY <1>1 DEF Views, View, Created
<1>2. ASSUME NEW o \in OrderIds, NEW b \in Buyers, NEW a \in Amounts, CreateOrder(o, b, a)
      PROVE  /\ View(o) = Decision("none", NoReason)
             /\ Views' = [Views EXCEPT ![o] = Decision(AwaitingPayment, NoReason)]
  <2>1. orders' = [orders EXCEPT ![o] = OrderIntent(o, b, a)] /\ ~ Created(o)
    BY <1>2 DEF CreateOrder
  <2>2. View(o)' = Decision(AwaitingPayment, NoReason)
    BY <2>1 DEF View, Created, OrderIntent, IInv, TypeOK, AwaitingPayment
  <2>3. \A p \in OrderIds : p # o => View(p)' = View(p)
    BY <2>1 DEF View, Created, IInv, TypeOK
  <2> QED BY <2>1, <2>2, <2>3 DEF Views, View
<1>3. ASSUME NEW w \in Watchers, CommitTxn(w), orders' # orders
      PROVE  \E o \in OrderIds, d \in OrderDecisions :
                /\ View(o) = Decision(AwaitingPayment, NoReason)
                /\ Views' = [Views EXCEPT ![o] = d]
  <2>1. Settles(w)
    BY <1>3 DEF CommitTxn, Settle
  <2>2. PICK o \in OrderIds :
            /\ o = found[w].order
            /\ \A p \in OrderIds : p # o => orders'[p] = orders[p]
    BY <1>3, <2>1, SettleEffect DEF IInv
  <2>3. orders[o].status = AwaitingPayment
    BY <2>1, <2>2 DEF Settles
  <2>4. View(o) = Decision(AwaitingPayment, NoReason)
    BY <2>2, <2>3 DEF View, Created, OpenHasNoReason, AwaitingPayment
  <2>5. orders'[o].status = Terminal(found[w].verdict)
    BY <1>3, <2>1, <2>2, SettleEffect DEF IInv
  <2>6. OrderFinal(orders'[o].status)
    BY <2>5 DEF Terminal, OrderFinal
  <2>7. orders'[o] \in OrderRows
    BY <2>2, <2>6 DEF IInv, TypeOK, NoOrder, OrderFinal, Validated, Rejected
  <2>8. Decision(orders'[o].status, orders'[o].reason) \in OrderDecisions
    <3>1. \E i : /\ orders'[o].status = Terminal(FreshMatch(i, o)'.verdict)
                 /\ orders'[o].reason = FreshMatch(i, o)'.reason
      BY <2>2, <2>6 DEF IInv, FirstPaymentDecides
    <3>2. \A i : Decision(Terminal(FreshMatch(i, o)'.verdict), FreshMatch(i, o)'.reason)
                    \in OrderDecisions
      BY <2>2, <2>7, FreshDecision DEF FreshMatch
    <3> QED BY <3>1, <3>2
  <2>9. View(o)' = Decision(orders'[o].status, orders'[o].reason)
    BY <2>6 DEF View, Created, OrderFinal, Validated, Rejected
  <2>10. \A p \in OrderIds : p # o => View(p)' = View(p)
    BY <2>2 DEF View, Created
  <2>11. Views' = [Views EXCEPT ![o] = View(o)']
    BY <2>2, <2>10 DEF Views
  <2> QED BY <2>2, <2>4, <2>8, <2>9, <2>11
<1> QED BY <1>1, <1>2, <1>3, StepWrites

(* The tables keep the promise of OrderVerdict.                            *)
THEOREM DecidesOnce == Spec => DecidedOnce
<1>1. Init => Promise!Init
  BY DEF Init, Promise!Init, Created, NoOrder
<1>2. IInv /\ IInv' /\ OpenHasNoReason /\ [Next]_vars =>
        [Promise!Next]_([o \in OrderIds |->
                           IF Created(o)
                             THEN Decision(orders[o].status, orders[o].reason)
                             ELSE Decision("none", NoReason)])
  <2> SUFFICES ASSUME IInv, IInv', OpenHasNoReason, [Next]_vars, Views' # Views
               PROVE  Promise!Next
    BY DEF Views, View
  <2>1. CASE \E o \in OrderIds :
                 /\ View(o) = Decision("none", NoReason)
                 /\ Views' = [Views EXCEPT ![o] = Decision(AwaitingPayment, NoReason)]
    BY <2>1 DEF Views, View, Promise!Next, Promise!Open
  <2>2. CASE \E o \in OrderIds, d \in OrderDecisions :
                 /\ View(o) = Decision(AwaitingPayment, NoReason)
                 /\ Views' = [Views EXCEPT ![o] = d]
    BY <2>2 DEF Views, View, Promise!Next, Promise!Decide
  <2> QED BY <2>1, <2>2, StepView
<1>3. Spec => []OpenHasNoReason
  <2>1. Spec => [](OpenHasNoReason /\ IInv)
    BY OpenInit, OpenStep, InitIInv, NextIInv, PTL DEF Spec
  <2> QED BY <2>1, PTL
<1> QED BY <1>1, <1>2, <1>3, Invariance, PTL DEF Spec, DecidedOnce, Promise!Spec

-----------------------------------------------------------------------------
(* Among MaxOtherRun + 1 records in a row there is a payment.              *)
ShortRuns ==
    \A i \in 1..(Len(ledger) - MaxOtherRun) :
        \E j \in i..(i + MaxOtherRun) : IsPayment(ledger[j])

(* The history of the account keeps its runs short.                        *)
LEMMA ShortRunsKept == IInv /\ ShortRuns /\ [Next]_vars => ShortRuns'
<1> SUFFICES ASSUME IInv, ShortRuns, [Next]_vars PROVE ShortRuns'
    OBVIOUS
<1>1. CASE ledger' = ledger
    BY <1>1 DEF ShortRuns
<1>2. ASSUME NEW r \in Records, Pay(r) PROVE ShortRuns'
  <2>1. PICK n \in Nat, m \in Nat : n = Len(ledger) /\ m = MaxOtherRun
    BY BoundsAssumption DEF IInv, TypeOK
  <2>2. /\ Len(ledger') = n + 1
        /\ \A i \in 1..n : ledger'[i] = ledger[i]
    BY <1>2, <2>1, PayAppends DEF IInv, Ops
  <2>3. ASSUME NEW i \in 1..(n + 1 - m)
        PROVE  \E j \in i..(i + m) : IsPayment(ledger'[j])
    <3>1. CASE i \in 1..(n - m)
      <4>1. PICK j \in i..(i + m) : IsPayment(ledger[j])
        BY <2>1, <3>1 DEF ShortRuns
      <4>2. j \in 1..n
        BY <3>1
      <4> QED BY <2>2, <4>1, <4>2
    <3>2. CASE i = n + 1 - m
      <4>1. ~ OtherRun(ledger')
        BY <1>2 DEF Pay
      <4>2. m < n + 1 /\ i + m = n + 1
        BY <3>2
      <4>3. ~ \A j \in (n + 1 - m)..(n + 1) : ~ IsPayment(ledger'[j])
        BY <2>1, <2>2, <4>1, <4>2 DEF OtherRun
      <4> QED BY <3>2, <4>2, <4>3
    <3> QED BY <3>1, <3>2
  <2>4. MaxOtherRun = m /\ Len(ledger') = n + 1
    BY <2>1, <2>2
  <2>5. 1..(Len(ledger') - MaxOtherRun) = 1..(n + 1 - m)
        /\ \A i \in 1..(n + 1 - m) : i..(i + MaxOtherRun) = i..(i + m)
    BY <2>4
  <2>6. \A i \in 1..(Len(ledger') - MaxOtherRun) :
            \E j \in i..(i + MaxOtherRun) : IsPayment(ledger'[j])
    BY <2>3, <2>5, Zenon
  <2> QED BY <2>6 DEF ShortRuns
<1>3. ledger' = ledger \/ \E r \in Records : Pay(r)
  <2>1. CASE \E o \in OrderIds, b \in Buyers, a \in Amounts : CreateOrder(o, b, a)
    BY <2>1 DEF CreateOrder
  <2>2. CASE \E w \in Watchers : Step(w)
    BY <2>2 DEF Step, LoadCursor, Fetch, LookUp, Commit, EndPage, Wake
  <2>3. CASE \E w \in Watchers : Failure(w)
    BY <2>3 DEF Failure, LoadCursorFails, FetchFails, TxnFails, CommitUnknown, Crash
  <2>4. CASE UNCHANGED vars
    BY <2>4 DEF vars
  <2> QED BY <2>1, <2>2, <2>3, <2>4 DEF Next
<1> QED BY <1>1, <1>2, <1>3

(* Only Fetch goes from the fetch to the page.                             *)
LEMMA FetchOnly ==
    ASSUME IInv, [Next]_vars, NEW w \in Watchers, pc[w] = "fetch", pc'[w] = "page"
    PROVE  Fetch(w)
<1> USE DEF IInv, TypeOK
<1>1. pc' # pc
    OBVIOUS
<1>2. PICK v \in Watchers : Step(v) \/ Failure(v)
    BY <1>1 DEF Next, vars, local, CreateOrder, Pay
<1>3. v = w
    BY <1>2 DEF Step, LoadCursor, Fetch, LookUp, Commit, EndPage, Wake, Goto,
       Failure, LoadCursorFails, FetchFails, TxnFails, CommitUnknown, Crash
<1> QED BY <1>2, <1>3 DEF Step, LoadCursor, LookUp, Commit, EndPage, Wake, Goto,
       Failure, LoadCursorFails, FetchFails, TxnFails, CommitUnknown, Crash

(* A page that holds no payment means that every payment has its evidence, *)
(* when no run of other records fills a page.  (Without that, the run      *)
(* watcher_stuck shows what happens.)                                      *)
THEOREM EmptyPageMeansTip ==
    ASSUME MaxOtherRun < Limit
    PROVE  Spec => EmptyPageIsTip
<1>1. Init => ShortRuns
    BY BoundsAssumption DEF Init, ShortRuns
<1>2. ASSUME IInv, ShortRuns, NEW w \in Watchers, Fetch(w), page'[w] = {},
             NEW i \in Ops, IsPayment(ledger[i])
      PROVE  i \in Recorded
  <2>0. Len(ledger) \in Nat /\ MaxOtherRun \in Nat /\ at[w] \in Nat /\ Limit \in Nat
    <3>1. Len(ledger) \in Nat /\ at[w] \in 0..Len(ledger)
      BY <1>2 DEF IInv, TypeOK
    <3> QED BY <3>1, BoundsAssumption, LimitAssumption
  <2>1. PICK n, m, a, k \in Nat :
            n = Len(ledger) /\ m = MaxOtherRun /\ a = at[w] /\ k = Limit
    BY <2>0
  <2>2. page'[w] = FetchPayments(ledger, a, k)
    BY <1>2, <2>1 DEF Fetch, IInv, TypeOK
  <2>3. \A j \in 1..n : a < j /\ j <= a + k => ~ IsPayment(ledger[j])
    BY <1>2, <2>1, <2>2 DEF FetchPayments, RawPage
  <2>4. CASE i <= a
    BY <1>2, <2>1, <2>4 DEF Fetch, IInv, WatcherInv, ReadNeverSkips
  <2>5. CASE a + k < i
    <3>1. i \in 1..n /\ m < k
      BY <2>1 DEF Ops
    <3>2. a + 1 \in 1..(n - m)
      BY <2>5, <3>1
    <3>3. PICK j \in (a + 1)..(a + 1 + m) : IsPayment(ledger[j])
      BY <1>2, <2>1, <3>2 DEF ShortRuns
    <3>4. j \in 1..n /\ a < j /\ j <= a + k
      BY <2>5, <3>1
    <3> QED BY <2>3, <3>3, <3>4
  <2>6. CASE a < i /\ i <= a + k
    BY <1>2, <2>1, <2>3, <2>6 DEF Ops
  <2> QED BY <2>1, <2>4, <2>5, <2>6 DEF Ops
<1>3. IInv /\ ShortRuns /\ [Next]_vars =>
        [\A w \in Watchers :
            pc[w] = "fetch" /\ pc'[w] = "page" /\ page'[w] = {} =>
                \A i \in Ops : IsPayment(ledger[i]) => i \in Recorded]_vars
    BY <1>2, FetchOnly
<1> QED BY <1>1, <1>3, ShortRunsKept, Invariance, PTL DEF Spec, EmptyPageIsTip

-----------------------------------------------------------------------------
(* The rows of payment_evidence: every settled order has the one row that  *)
(* explains it, and the comparison a reviewer sees agrees with the verdict.*)

MemoAt(i) == Flatten(ledger[i]).memo

(* No payment for order o comes before payment i.                          *)
IsFirst(i, o) == \A j \in Ops : Carries(j, o) => i <= j

(* A row is about a payment and names the order of its memo; unless it is  *)
(* a duplicate, that payment is the order's first, and the row says what   *)
(* Match says of it.                                                       *)
RowRight(e) ==
    /\ IsPayment(ledger[e.op])
    /\ e.order = IF MemoAt(e.op) \in OrderIds THEN MemoAt(e.op) ELSE NoId
    /\ e.order # NoId /\ e.verdict # VerdictDuplicate =>
          /\ IsFirst(e.op, e.order)
          /\ e.verdict = FreshMatch(e.op, e.order).verdict
          /\ e.reason = FreshMatch(e.op, e.order).reason

EvidenceRight == \A e \in evidence : RowRight(e)

(* A settled order has the row of the payment that settled it.             *)
HasDeciding ==
    \A o \in OrderIds :
        OrderFinal(orders[o].status) =>
            \E e \in evidence : e.order = o /\ e.verdict # VerdictDuplicate

(* A transaction that has found an open order holds its first payment,     *)
(* even if another watcher has settled the order meanwhile.                *)
FoundFirst(w) ==
    pc[w] = "commit" /\ MemoAt(at[w]) \in OrderIds /\ found[w].verdict # VerdictDuplicate
        => IsFirst(at[w], MemoAt(at[w]))

(* What has to be known of the evidence, besides IInv.                     *)
EvInv ==
    /\ EvidenceRight
    /\ HasDeciding
    /\ \A w \in Watchers : FoundFirst(w)

-----------------------------------------------------------------------------
(* New tables are empty.                                                   *)
LEMMA InitEvInv == Init => EvInv
BY DEF Init, EvInv, EvidenceRight, HasDeciding, FoundFirst, NoOrder, OrderFinal,
       Validated, Rejected

(* What is recorded about an order stands while the ledger grows.          *)
LEMMA LedgerGrows ==
    ASSUME TypeOK, Len(ledger') \in Nat, Len(ledger) <= Len(ledger'),
           \A i \in Ops : i \in Ops' /\ ledger'[i] = ledger[i],
           NEW i \in Ops, NEW o \in OrderIds
    PROVE  /\ MemoAt(i)' = MemoAt(i)
           /\ IsPayment(ledger'[i]) = IsPayment(ledger[i])
           /\ IsFirst(i, o) => IsFirst(i, o)'
<1>1. MemoAt(i)' = MemoAt(i) /\ IsPayment(ledger'[i]) = IsPayment(ledger[i])
  BY DEF MemoAt
<1>2. ASSUME IsFirst(i, o), NEW j \in Ops', Carries(j, o)' PROVE i <= j
  <2>1. CASE j \in Ops
    BY <1>2, <2>1 DEF IsFirst, Carries
  <2>2. CASE j \notin Ops
    BY <1>2, <2>2 DEF Ops, TypeOK
  <2> QED BY <2>1, <2>2
<1> QED BY <1>1, <1>2 DEF IsFirst

(* A row keeps being right as long as its payment, the payments before it  *)
(* and its order as created do not change.                                 *)
LEMMA RowFrame ==
    ASSUME TypeOK, Len(ledger') \in Nat, Len(ledger) <= Len(ledger'),
           \A i \in Ops : i \in Ops' /\ ledger'[i] = ledger[i],
           NEW e \in evidence, RowRight(e),
           e.order # NoId => FreshMatch(e.op, e.order)' = FreshMatch(e.op, e.order)
    PROVE  RowRight(e)'
<1>1. e.op \in Ops /\ e.order \in OrderIds \union {NoId}
  BY DEF TypeOK, Findings
<1>2. /\ MemoAt(e.op)' = MemoAt(e.op)
      /\ ledger'[e.op] = ledger[e.op]
  BY <1>1 DEF MemoAt
<1>3. e.order # NoId => (IsFirst(e.op, e.order) => IsFirst(e.op, e.order)')
  BY <1>1, LedgerGrows
<1> QED BY <1>2, <1>3 DEF RowRight

(* The same for a watcher in the middle of a transaction.                  *)
LEMMA FoundFrame ==
    ASSUME TypeOK, Len(ledger') \in Nat, Len(ledger) <= Len(ledger'),
           \A i \in Ops : i \in Ops' /\ ledger'[i] = ledger[i],
           NEW u \in Watchers, FoundFirst(u), pc[u] = "commit" => at[u] \in Ops,
           pc'[u] = pc[u], at'[u] = at[u], found'[u] = found[u]
    PROVE  FoundFirst(u)'
<1> SUFFICES ASSUME pc[u] = "commit", MemoAt(at[u])' \in OrderIds,
                    found[u].verdict # VerdictDuplicate
             PROVE  IsFirst(at[u], MemoAt(at[u]))'
  BY DEF FoundFirst, MemoAt
<1>1. at[u] \in Ops /\ MemoAt(at[u])' = MemoAt(at[u])
  BY DEF MemoAt
<1>2. IsFirst(at[u], MemoAt(at[u]))
  BY <1>1 DEF FoundFirst
<1> QED BY <1>1, <1>2, LedgerGrows DEF IsFirst, Carries, MemoAt

-----------------------------------------------------------------------------
(* The row of a new commit says what was found, and is the deciding one if *)
(* the order was open.                                                     *)
LEMMA CommitEvidence ==
    ASSUME IInv, EvInv, NEW w \in Watchers, pc[w] = "commit", CommitTxn(w), UNCHANGED ledger
    PROVE  EvidenceRight' /\ HasDeciding'
<1>1. /\ TypeOK /\ at[w] \in Ops /\ IsPayment(ledger[at[w]]) /\ FoundFor(w) /\ FoundFirst(w)
      /\ \A o \in OrderIds : \A i : FreshMatch(i, o)' = FreshMatch(i, o)
  BY CommitKeepsVerdicts DEF IInv, EvInv, TypeOK, WatcherInv, AtFirst, PageClosed
<1>2. /\ Ops' = Ops /\ Len(ledger) \in Nat
      /\ \A i \in Ops : i \in Ops' /\ ledger'[i] = ledger[i]
  BY <1>1 DEF Ops, TypeOK
<1>0. PICK new : new = PaymentEvidence(at[w], found[w])
  OBVIOUS
<1>3. /\ new.op = at[w] /\ new.order = found[w].order
      /\ new.verdict = found[w].verdict /\ new.reason = found[w].reason
  BY <1>0 DEF PaymentEvidence
<1>4. evidence' = evidence \/ evidence' = evidence \union {new}
  BY <1>0 DEF CommitTxn
<1>5. ASSUME NEW e \in evidence PROVE RowRight(e)'
  <2>1. RowRight(e) /\ e.order \in OrderIds \union {NoId}
    BY <1>1 DEF EvInv, EvidenceRight, TypeOK, Findings
  <2>2. e.order # NoId => FreshMatch(e.op, e.order)' = FreshMatch(e.op, e.order)
    BY <1>1, <2>1
  <2> QED BY <1>1, <1>2, <2>1, <2>2, RowFrame
<1>6. RowRight(new)
  <2>1. new.order = IF MemoAt(new.op) \in OrderIds THEN MemoAt(new.op) ELSE NoId
    BY <1>1, <1>3 DEF FoundFor, MemoAt
  <2>2. ASSUME new.order # NoId, new.verdict # VerdictDuplicate
        PROVE  /\ IsFirst(new.op, new.order)
               /\ new.verdict = FreshMatch(new.op, new.order).verdict
               /\ new.reason = FreshMatch(new.op, new.order).reason
    <3>1. MemoAt(at[w]) \in OrderIds /\ new.order = MemoAt(at[w])
      BY <1>3, <2>1, <2>2
    <3> QED BY <1>1, <1>3, <2>2, <3>1 DEF FoundFor, FoundFirst, MemoAt
  <2> QED BY <1>1, <1>3, <2>1, <2>2 DEF RowRight
<1>7. RowRight(new)'
  <2>1. MemoAt(new.op)' = MemoAt(new.op) /\ ledger'[new.op] = ledger[new.op]
    BY DEF MemoAt
  <2>2. \A i, o : IsFirst(i, o)' = IsFirst(i, o)
    BY <1>2 DEF IsFirst, Carries
  <2>3. new.order # NoId => FreshMatch(new.op, new.order)' = FreshMatch(new.op, new.order)
    BY <1>1, <1>6 DEF RowRight
  <2> QED BY <1>6, <2>1, <2>2, <2>3 DEF RowRight
<1>8. EvidenceRight'
  BY <1>4, <1>5, <1>7 DEF EvidenceRight
<1>9. HasDeciding'
  <2> SUFFICES ASSUME NEW o \in OrderIds, OrderFinal(orders'[o].status)
               PROVE  \E e \in evidence' : e.order = o /\ e.verdict # VerdictDuplicate
    BY DEF HasDeciding
  <2>1. CASE orders'[o] = orders[o]
    BY <1>4, <2>1 DEF EvInv, HasDeciding
  <2>2. CASE orders'[o] # orders[o]
    <3>1. Settles(w) /\ o = found[w].order
      BY <1>1, <2>2, SettleEffect
    <3>2. evidence' = evidence \union {new} /\ found[w].verdict # VerdictDuplicate
      BY <1>0, <3>1 DEF Settles, CommitTxn
    <3> QED BY <1>3, <3>1, <3>2
  <2> QED BY <2>1, <2>2
<1> QED BY <1>8, <1>9

(* A transaction begins with the first payment of a page; if its order is  *)
(* still open, no payment for it is recorded, and none comes before.       *)
LEMMA LookUpFirst ==
    ASSUME IInv, NEW w \in Watchers, LookUp(w)
    PROVE  FoundFirst(w)'
<1>1. PICK i \in page[w] :
        /\ \A j \in page[w] : i <= j
        /\ at' = [at EXCEPT ![w] = i]
        /\ found' = [found EXCEPT ![w] = Looked(i)]
  BY DEF LookUp
<1>2. /\ at'[w] = i /\ found'[w] = Looked(i) /\ i \in Ops /\ UNCHANGED ledger
      /\ PageClosed(w) /\ RecordedSettles /\ PaidAfterCreated /\ TypeOK
  BY <1>1 DEF LookUp, IInv, TypeOK, WatcherInv
<1> SUFFICES ASSUME MemoAt(i) \in OrderIds, Looked(i).verdict # VerdictDuplicate,
                    NEW j \in Ops, Carries(j, MemoAt(i)), j < i
             PROVE  FALSE
  BY <1>2 DEF FoundFirst, IsFirst, MemoAt, Carries, Ops
<1> DEFINE o == MemoAt(i)
<1>3. Created(o) /\ OrderOf(o) = orders[o]
  BY <1>2 DEF PaidAfterCreated, MemoAt, OrderOf
<1>4. ~ OrderFinal(orders[o].status)
  <2>1. Looked(i).verdict = Match(Flatten(ledger[i]), orders[o]).verdict
    BY <1>3 DEF Looked, MemoAt
  <2> QED BY <1>3, <2>1, DuplicateIffFinal DEF Created
<1>5. j \notin Recorded
  BY <1>2, <1>4 DEF RecordedSettles
<1>6. j \in page[w]
  BY <1>1, <1>2, <1>5 DEF PageClosed, Carries
<1> QED BY <1>1, <1>2, <1>6 DEF Ops

(* Every step keeps what is known of the evidence.                         *)
LEMMA NextEvInv == IInv /\ EvInv /\ [Next]_vars => EvInv'
<1> SUFFICES ASSUME IInv, EvInv, [Next]_vars PROVE EvInv'
  OBVIOUS
<1>1. /\ TypeOK /\ Len(ledger) \in Nat
      /\ \A u \in Watchers : pc[u] = "commit" => at[u] \in Ops
      /\ \A u \in Watchers : FoundFirst(u)
  BY DEF IInv, EvInv, TypeOK, WatcherInv, AtFirst
<1>2. ASSUME NEW o \in OrderIds, NEW b \in Buyers, NEW a \in Amounts, CreateOrder(o, b, a)
      PROVE  EvInv'
  <2>1. /\ UNCHANGED <<ledger, evidence, pc, at, found>> /\ Ops' = Ops
        /\ orders' = [orders EXCEPT ![o] = OrderIntent(o, b, a)]
        /\ ~ OrderFinal(orders[o].status)
        /\ OrderIntent(o, b, a).status = AwaitingPayment
    BY <1>2 DEF CreateOrder, local, Ops, Created, OrderFinal, Validated, Rejected, OrderIntent
  <2>2. /\ \A p \in OrderIds : p # o => orders'[p] = orders[p]
        /\ ~ OrderFinal(orders'[o].status)
    BY <1>1, <2>1 DEF TypeOK, OrderFinal, AwaitingPayment, Validated, Rejected
  <2>3. ASSUME NEW e \in evidence PROVE RowRight(e)'
    <3>1. RowRight(e) /\ e.op \in Recorded /\ e.op \in Ops /\ e.order \in OrderIds \union {NoId}
      BY <1>1 DEF EvInv, EvidenceRight, TypeOK, Findings, Recorded
    <3>2. e.order # NoId => Carries(e.op, e.order)
      BY <3>1 DEF RowRight, Carries, MemoAt
    <3>3. e.order # o
      BY <2>1, <3>1, <3>2, NoIdAssumption DEF IInv, RecordedSettles
    <3>4. e.order # NoId => FreshMatch(e.op, e.order)' = FreshMatch(e.op, e.order)
      BY <2>1, <2>2, <3>1, <3>3 DEF FreshMatch
    <3> QED BY <1>1, <2>1, <3>1, <3>4, RowFrame
  <2>4. HasDeciding'
    BY <2>1, <2>2 DEF EvInv, HasDeciding
  <2>5. \A u \in Watchers : FoundFirst(u)'
    BY <1>1, <2>1, FoundFrame
  <2> QED BY <2>1, <2>3, <2>4, <2>5 DEF EvInv, EvidenceRight
<1>3. ASSUME NEW r \in Records, Pay(r) PROVE EvInv'
  <2>1. /\ UNCHANGED <<orders, evidence, pc, at, found>>
        /\ Len(ledger') = Len(ledger) + 1
        /\ \A i \in Ops : i \in Ops' /\ ledger'[i] = ledger[i]
    <3>1. UNCHANGED <<orders, evidence, pc, at, found>>
      BY <1>3 DEF Pay, db, local
    <3> QED BY <1>1, <1>3, <3>1, PayAppends
  <2>2. Len(ledger') \in Nat /\ Len(ledger) <= Len(ledger')
    BY <1>1, <2>1
  <2>3. ASSUME NEW e \in evidence PROVE RowRight(e)'
    <3>1. RowRight(e) /\ e.op \in Ops
      BY <1>1 DEF EvInv, EvidenceRight, TypeOK
    <3>2. FreshMatch(e.op, e.order)' = FreshMatch(e.op, e.order)
      BY <2>1, <3>1 DEF FreshMatch
    <3> QED BY <1>1, <2>1, <2>2, <3>1, <3>2, RowFrame
  <2>4. HasDeciding'
    BY <2>1 DEF EvInv, HasDeciding
  <2>5. \A u \in Watchers : FoundFirst(u)'
    BY <1>1, <2>1, <2>2, FoundFrame
  <2> QED BY <2>1, <2>3, <2>4, <2>5 DEF EvInv, EvidenceRight
<1>4. ASSUME NEW w \in Watchers, Step(w) \/ Failure(w) PROVE EvInv'
  <2>1. /\ UNCHANGED ledger /\ Ops' = Ops
        /\ \A i \in Ops : i \in Ops' /\ ledger'[i] = ledger[i]
    BY <1>4 DEF Step, Failure, LoadCursor, Fetch, LookUp, Commit, EndPage, Wake,
                LoadCursorFails, FetchFails, TxnFails, CommitUnknown, Crash, Ops
  <2>2. /\ \A u \in Watchers : u # w => pc'[u] = pc[u] /\ at'[u] = at[u] /\ found'[u] = found[u]
        /\ LookUp(w) \/ pc'[w] # "commit"
    BY <1>1, <1>4 DEF TypeOK, Step, Failure, LoadCursor, Fetch, LookUp, Commit, EndPage, Wake,
                LoadCursorFails, FetchFails, TxnFails, CommitUnknown, Crash, Goto, Forget
  <2>3. \A u \in Watchers : FoundFirst(u)'
    <3>1. ASSUME NEW u \in Watchers, u # w PROVE FoundFirst(u)'
      BY <1>1, <2>1, <2>2, <3>1, FoundFrame
    <3>2. FoundFirst(w)'
      BY <2>2, LookUpFirst DEF FoundFirst
    <3> QED BY <3>1, <3>2
  <2>4. CASE Commit(w) \/ CommitUnknown(w)
    <3>1. pc[w] = "commit" /\ CommitTxn(w)
      BY <2>4 DEF Commit, CommitUnknown
    <3> QED BY <2>1, <2>3, <3>1, CommitEvidence DEF EvInv
  <2>5. CASE ~ (Commit(w) \/ CommitUnknown(w))
    <3>1. UNCHANGED <<orders, evidence>>
      BY <1>4, <2>5 DEF Step, Failure, LoadCursor, Fetch, LookUp, EndPage, Wake,
                LoadCursorFails, FetchFails, TxnFails, Crash, db
    <3>2. ASSUME NEW e \in evidence PROVE RowRight(e)'
      <4>1. RowRight(e) /\ FreshMatch(e.op, e.order)' = FreshMatch(e.op, e.order)
        BY <2>1, <3>1 DEF EvInv, EvidenceRight, FreshMatch
      <4> QED BY <1>1, <2>1, <4>1, RowFrame
    <3> QED BY <2>3, <3>1, <3>2 DEF EvInv, EvidenceRight, HasDeciding
  <2> QED BY <2>4, <2>5
<1>5. CASE UNCHANGED vars
  <2>1. UNCHANGED <<ledger, orders, evidence, pc, at, found>> /\ Ops' = Ops
    BY <1>5 DEF vars, db, local, Ops
  <2>2. ASSUME NEW e \in evidence PROVE RowRight(e)'
    <3>1. RowRight(e) /\ FreshMatch(e.op, e.order)' = FreshMatch(e.op, e.order)
      BY <2>1 DEF EvInv, EvidenceRight, FreshMatch
    <3> QED BY <1>1, <2>1, <3>1, RowFrame
  <2>3. \A u \in Watchers : FoundFirst(u)'
    BY <1>1, <2>1, FoundFrame
  <2> QED BY <2>1, <2>2, <2>3 DEF EvInv, EvidenceRight, HasDeciding
<1> QED BY <1>2, <1>3, <1>4, <1>5 DEF Next

-----------------------------------------------------------------------------
(* The theorems.                                                           *)

(* What is known of the evidence holds in every reachable state.           *)
THEOREM EvidenceInvariance == Spec => [](IInv /\ EvInv)
<1> QED BY InitIInv, InitEvInv, NextIInv, NextEvInv, PTL DEF Spec

(* Of the payments for one order, one row of evidence at most has a        *)
(* verdict of its own; the others are duplicates.                          *)
THEOREM OneVerdict == Spec => []OneVerdictPerOrder
<1>1. IInv /\ EvInv /\ ReplaySafe => OneVerdictPerOrder
  <2> SUFFICES ASSUME IInv, EvInv, ReplaySafe, NEW e \in evidence, NEW f \in evidence,
                      e.order = f.order, e.order # NoId,
                      e.verdict # VerdictDuplicate, f.verdict # VerdictDuplicate
               PROVE  e = f
    BY DEF OneVerdictPerOrder
  <2>1. RowRight(e) /\ RowRight(f) /\ e.op \in Ops /\ f.op \in Ops
    BY DEF IInv, EvInv, EvidenceRight, TypeOK
  <2>2. Carries(e.op, e.order) /\ Carries(f.op, e.order)
    BY <2>1 DEF RowRight, Carries, MemoAt
  <2>3. e.op <= f.op /\ f.op <= e.op
    BY <2>1, <2>2 DEF RowRight, IsFirst
  <2>4. e.op = f.op
    BY <2>1, <2>3 DEF Ops
  <2> QED BY <2>4 DEF ReplaySafe
<1> QED BY <1>1, EvidenceInvariance, RecordedOnce, PTL

(* A settled order has a row with its verdict and its reason, and an order *)
(* that is not settled has none.                                           *)
THEOREM EvidenceExplains == Spec => []EvidenceExplainsOrder
<1>1. IInv /\ EvInv => EvidenceExplainsOrder
  <2> SUFFICES ASSUME IInv, EvInv, NEW o \in OrderIds
               PROVE  /\ OrderFinal(orders[o].status) =>
                            \E e \in evidence :
                               /\ e.order = o
                               /\ e.verdict # VerdictDuplicate
                               /\ Terminal(e.verdict) = orders[o].status
                               /\ e.reason = orders[o].reason
                      /\ (\E e \in evidence : e.order = o) => OrderFinal(orders[o].status)
    BY DEF EvidenceExplainsOrder
  <2>1. \A e \in evidence : RowRight(e) /\ e.op \in Ops /\ e.op \in Recorded
    BY DEF IInv, EvInv, EvidenceRight, TypeOK, Recorded
  <2>2. \A e \in evidence : e.order = o => Carries(e.op, o)
    BY <2>1, NoIdAssumption DEF RowRight, Carries, MemoAt
  <2>3. ASSUME NEW e \in evidence, e.order = o PROVE OrderFinal(orders[o].status)
    BY <2>1, <2>2, <2>3 DEF IInv, RecordedSettles
  <2>4. ASSUME OrderFinal(orders[o].status)
        PROVE  \E e \in evidence :
                  /\ e.order = o
                  /\ e.verdict # VerdictDuplicate
                  /\ Terminal(e.verdict) = orders[o].status
                  /\ e.reason = orders[o].reason
    <3>1. PICK e \in evidence : e.order = o /\ e.verdict # VerdictDuplicate
      BY <2>4 DEF EvInv, HasDeciding
    <3>2. PICK i \in Ops : DecidedBy(i, o)
      BY <2>4 DEF IInv, FirstPaymentDecides, DecidedBy
    <3>3. /\ IsFirst(e.op, o)
          /\ e.verdict = FreshMatch(e.op, o).verdict
          /\ e.reason = FreshMatch(e.op, o).reason
      BY <2>1, <3>1, NoIdAssumption DEF RowRight
    <3>4. e.op <= i /\ i <= e.op
      BY <2>1, <2>2, <3>1, <3>2, <3>3 DEF IsFirst, DecidedBy
    <3>5. e.op = i
      BY <2>1, <3>4 DEF Ops
    <3> QED BY <3>1, <3>2, <3>3, <3>5 DEF DecidedBy
  <2> QED BY <2>3, <2>4
<1> QED BY <1>1, EvidenceInvariance, PTL

(* The two ways to compare a payment with an order agree: the table has no *)
(* mismatch when Match accepts, and one the reason is about when it does   *)
(* not.                                                                    *)
LEMMA TableAgrees ==
    ASSUME NEW row \in OrderRows, NEW p, p.amount \in Int, p.memo = row.memo,
           NEW m, m = Match(p, AsCreated(row))
    PROVE  LET t == Comparison(row, p)
               Mismatches == {f \in DOMAIN t : ~ t[f]}
           IN  IF m.verdict = VerdictMatched
                 THEN Mismatches = {}
                 ELSE Mismatches \intersect RowsOf[m.reason] # {}
<1> DEFINE t == Comparison(row, p)
           Fields == {"amount", "asset_code", "asset_issuer", "destination_account",
                      "buyer_wallet", "memo"}
<1>1. row.amount \in Int
  BY AmountsAssumption DEF OrderRows
<1>2. /\ DOMAIN t = Fields
      /\ t["amount"] = (p.amount = row.amount \/ p.amount > row.amount)
      /\ t["asset_code"] = (p.assetCode = row.assetCode)
      /\ t["asset_issuer"] = (p.assetIssuer = row.assetIssuer)
      /\ t["destination_account"] = (p.destination = row.destination)
      /\ t["buyer_wallet"] = (p.source = row.buyer)
      /\ t["memo"] = (p.memo = row.memo)
  BY Zenon DEF Comparison
<1>3. (p.amount = row.amount \/ p.amount > row.amount) <=> ~ (p.amount < row.amount)
  BY <1>1
<1>4. /\ RowsOf[Underpayment] = {"amount"}
      /\ RowsOf[WrongAsset] = {"asset_code", "asset_issuer"}
      /\ RowsOf[WrongDestination] = {"destination_account"}
      /\ RowsOf[WrongBuyerWallet] = {"buyer_wallet"}
  BY DEF RowsOf, AllRejectReasons, Underpayment, WrongAsset, WrongDestination,
         WrongBuyerWallet, InvalidMemo
<1>5. /\ AsCreated(row).status = AwaitingPayment
      /\ AsCreated(row).amount = row.amount
      /\ AsCreated(row).assetCode = row.assetCode
      /\ AsCreated(row).assetIssuer = row.assetIssuer
      /\ AsCreated(row).destination = row.destination
      /\ AsCreated(row).buyer = row.buyer
  BY DEF AsCreated, OrderRows
<1> HIDE DEF t
<1>6. \/ m = Reject(WrongDestination) /\ p.destination # row.destination
      \/ /\ m = Reject(WrongAsset)
         /\ p.assetCode # row.assetCode \/ p.assetIssuer # row.assetIssuer
      \/ m = Reject(WrongBuyerWallet) /\ p.source # row.buyer
      \/ m = Reject(Underpayment) /\ p.amount < row.amount
      \/ /\ m = [verdict |-> VerdictMatched, reason |-> NoReason]
         /\ p.destination = row.destination /\ p.assetCode = row.assetCode
         /\ p.assetIssuer = row.assetIssuer /\ p.source = row.buyer
         /\ ~ (p.amount < row.amount)
  BY <1>5 DEF Match, OrderFinal, AwaitingPayment, Validated, Rejected
<1>7. ASSUME m.verdict = VerdictMatched PROVE {f \in DOMAIN t : ~ t[f]} = {}
  <2>1. /\ p.destination = row.destination /\ p.assetCode = row.assetCode
        /\ p.assetIssuer = row.assetIssuer /\ p.source = row.buyer
        /\ ~ (p.amount < row.amount)
    BY <1>6, <1>7 DEF Reject, VerdictMatched, VerdictRejected
  <2>2. /\ t["amount"] /\ t["asset_code"] /\ t["asset_issuer"]
        /\ t["destination_account"] /\ t["buyer_wallet"] /\ t["memo"]
    BY <1>2, <1>3, <2>1, Zenon
  <2>3. \A f \in Fields : t[f]
    BY <2>2, Zenon
  <2> QED BY <1>2, <2>3, Zenon
<1>8. ASSUME m.verdict # VerdictMatched
      PROVE  {f \in DOMAIN t : ~ t[f]} \intersect RowsOf[m.reason] # {}
  <2>1. /\ m = Reject(WrongDestination) => ~ t["destination_account"]
        /\ m = Reject(WrongAsset) => ~ t["asset_code"] \/ ~ t["asset_issuer"]
        /\ m = Reject(WrongBuyerWallet) => ~ t["buyer_wallet"]
        /\ m = Reject(Underpayment) => ~ t["amount"]
    <3>1. /\ m = Reject(WrongDestination) => p.destination # row.destination
          /\ m = Reject(WrongAsset) => p.assetCode # row.assetCode \/ p.assetIssuer # row.assetIssuer
          /\ m = Reject(WrongBuyerWallet) => p.source # row.buyer
          /\ m = Reject(Underpayment) => p.amount < row.amount
      BY <1>6 DEF Reject, WrongDestination, WrongAsset, WrongBuyerWallet, Underpayment,
                  VerdictMatched, VerdictRejected
    <3> QED BY <1>2, <1>3, <3>1, Zenon
  <2>2. \E r \in {WrongDestination, WrongAsset, WrongBuyerWallet, Underpayment} :
            m = Reject(r) /\ m.reason = r
    BY <1>6, <1>8 DEF Reject
  <2>3. CASE m = Reject(WrongDestination) /\ m.reason = WrongDestination
    BY <1>2, <1>4, <2>1, <2>3, Zenon
  <2>4. CASE m = Reject(WrongAsset) /\ m.reason = WrongAsset
    BY <1>2, <1>4, <2>1, <2>4, Zenon
  <2>5. CASE m = Reject(WrongBuyerWallet) /\ m.reason = WrongBuyerWallet
    BY <1>2, <1>4, <2>1, <2>5, Zenon
  <2>6. CASE m = Reject(Underpayment) /\ m.reason = Underpayment
    BY <1>2, <1>4, <2>1, <2>6, Zenon
  <2> QED BY <2>2, <2>3, <2>4, <2>5, <2>6, Zenon
<1> QED BY <1>7, <1>8 DEF t

(* What a reviewer sees agrees with the verdict of every row that settled  *)
(* an order, also long after the order has been settled.                   *)
THEOREM TableExplains == Spec => []TableExplainsVerdict
<1>1. IInv /\ EvInv => TableExplainsVerdict
  <2> SUFFICES ASSUME IInv, EvInv, NEW e \in evidence,
                      e.order # NoId, e.verdict # VerdictDuplicate
               PROVE  LET t == Comparison(orders[e.order], e.observed)
                          Mismatches == {f \in DOMAIN t : ~ t[f]}
                      IN  IF e.verdict = VerdictMatched
                            THEN Mismatches = {}
                            ELSE Mismatches \intersect RowsOf[e.reason] # {}
    BY DEF TableExplainsVerdict
  <2> DEFINE o == e.order
             p == Flatten(ledger[e.op])
             row == orders[o]
  <2>1. /\ RowRight(e) /\ e.op \in Ops /\ e.observed = p /\ o \in OrderIds
        /\ ledger[e.op] \in Records
    BY DEF IInv, EvInv, EvidenceRight, TypeOK, Findings, Ops
  <2>2. p.memo = o /\ Created(o)
    BY <2>1 DEF RowRight, MemoAt, IInv, PaidAfterCreated
  <2>3. row \in OrderRows /\ row.memo = o
    BY <2>1, <2>2 DEF IInv, TypeOK, Created, NoOrder
  <2>4. p.amount \in Int
    BY <2>1, RecordsAssumption
  <2> DEFINE m == Match(p, AsCreated(row))
  <2>5. e.verdict = m.verdict /\ e.reason = m.reason
    BY <2>1 DEF RowRight, FreshMatch
  <2> HIDE DEF m, p, row
  <2>6. LET t == Comparison(row, p)
            Mismatches == {f \in DOMAIN t : ~ t[f]}
        IN  IF m.verdict = VerdictMatched
              THEN Mismatches = {}
              ELSE Mismatches \intersect RowsOf[m.reason] # {}
    BY <2>2, <2>3, <2>4, TableAgrees DEF m
  <2> QED BY <2>1, <2>5, <2>6 DEF p, row
<1> QED BY <1>1, EvidenceInvariance, PTL
=============================================================================
