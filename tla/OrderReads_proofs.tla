------------------------- MODULE OrderReads_proofs -------------------------
(***************************************************************************)
(* Proofs about the reads that take two queries: what they answer agrees   *)
(* with itself, whatever the watchers commit between the queries.          *)
(***************************************************************************)
EXTENDS OrderReads, Watcher_proofs, FiniteSetTheorems, FunctionTheorems

(* What the reads need of one step of the watchers: a verdict and a row of *)
(* evidence stand.                                                         *)
Stands ==
    /\ evidence \subseteq evidence'
    /\ \A o \in OrderIds :
          OrderFinal(orders[o].status) => orders'[o] = orders[o]

(* The orders of the first query are rows of the table; those that were    *)
(* settled then have not changed, and the others have no reason.           *)
ReadInv ==
    /\ \E query \in {"none", "evidence", "report"}, ids \in SUBSET OrderIds : \E rows :
          /\ read = [query |-> query, ids |-> ids, orders |-> rows, evidence |-> {}]
          /\ DOMAIN rows = ids
    /\ \A o \in DOMAIN read.orders :
          /\ read.orders[o] \in OrderRows
          /\ OrderFinal(read.orders[o].status) => orders[o] = read.orders[o]
          /\ OrderFinal(read.orders[o].status) \/ read.orders[o].reason = NoReason

(* The reader changes no table: without it, the system is Watcher.         *)
LEMMA ReadsAreStutters == ReadSpec => Spec
<1>1. ReadInit => Init
  BY DEF ReadInit
<1>2. [ReadNext]_readVars => [Next]_vars
  BY DEF ReadNext, readVars, GetOrderEvidence, Report, Begin, Respond
<1> QED BY <1>1, <1>2, PTL DEF ReadSpec, Spec

(* A read that has not begun shows nothing.                                *)
LEMMA NoReadInv == read = NoRead => ReadInv
<1> SUFFICES ASSUME read = NoRead PROVE ReadInv
  OBVIOUS
<1>1. read = [query |-> "none", ids |-> {}, orders |-> <<>>, evidence |-> {}]
  BY DEF NoRead, Request
<1>2. DOMAIN <<>> = {}
  OBVIOUS
<1>3. read.orders = <<>>
  BY <1>1
<1> QED BY <1>1, <1>2, <1>3 DEF ReadInv

(* The first query shows existing orders as they are.                      *)
LEMMA BeginInv ==
    ASSUME TypeOK, OpenHasNoReason, NEW query \in {"evidence", "report"}, NEW ids \in SUBSET OrderIds,
           \A o \in ids : Created(o),
           Begin(Request(query, ids))
    PROVE  ReadInv'
<1> DEFINE rows == [o \in ids |-> orders[o]]
<1>1. read' = [query |-> query, ids |-> ids, orders |-> rows, evidence |-> {}]
  BY DEF Begin, Queried, OrderRowsOf, Request
<1>2. read'.orders = rows /\ orders' = orders
  BY <1>1 DEF Begin, vars, db
<1>3. \A o \in ids : orders[o] \in OrderRows
  BY DEF TypeOK, Created, NoOrder
<1>4. \A o \in ids : OrderFinal(orders[o].status) \/ orders[o].reason = NoReason
  BY <1>3 DEF OpenHasNoReason, OrderRows, OrderFinal
<1> QED BY <1>1, <1>2, <1>3, <1>4 DEF ReadInv

(* Steps of the watchers leave the settled orders of the read alone.       *)
LEMMA ReadStep ==
    TypeOK /\ OpenHasNoReason /\ ReadInv /\ [ReadNext]_readVars /\ [Stands]_vars => ReadInv'
<1> SUFFICES ASSUME TypeOK, OpenHasNoReason, ReadInv, [ReadNext]_readVars, [Stands]_vars
             PROVE  ReadInv'
  OBVIOUS
<1>1. ASSUME UNCHANGED read PROVE ReadInv'
  <2>1. \A o \in OrderIds : OrderFinal(orders[o].status) => orders'[o] = orders[o]
    BY DEF Stands, vars, db
  <2>2. DOMAIN read.orders \subseteq OrderIds
    BY DEF ReadInv
  <2>3. \A o \in DOMAIN read.orders :
            OrderFinal(read.orders[o].status) => orders'[o] = read.orders[o]
    BY <2>1, <2>2 DEF ReadInv
  <2> QED BY <1>1, <2>3 DEF ReadInv
<1>2. ASSUME NEW o \in OrderIds, GetOrderEvidence(o) PROVE ReadInv'
  BY <1>2, BeginInv DEF GetOrderEvidence
<1>3. ASSUME NEW wallet, Report(wallet) PROVE ReadInv'
  <2> DEFINE ids == {o \in OrderIds : Created(o) /\ (wallet = "" \/ orders[o].buyer = wallet)}
  <2>1. ids \in SUBSET OrderIds /\ \A o \in ids : Created(o)
    OBVIOUS
  <2>2. Begin(Request("report", ids))
    BY <1>3 DEF Report
  <2> QED BY <2>1, <2>2, BeginInv
<1>4. ASSUME Respond PROVE ReadInv'
  <2>1. (read = NoRead)'
    BY <1>4 DEF Respond, NoRead, Request
  <2> QED BY <2>1, NoReadInv, PTL
<1> QED BY <1>1, <1>2, <1>3, <1>4 DEF ReadNext, readVars

(* An order that is not settled has no reason.                             *)
LEMMA OpenInvariance == Spec => []OpenHasNoReason
<1> QED BY OpenInit, OpenStep, Invariance, PTL DEF Spec

(* The invariant of the read, with what the watchers guarantee.            *)
LEMMA ReadInvariance ==
    ReadSpec => [](ReadInv /\ TypeOK /\ ReplaySafe /\ EvidenceExplainsOrder)
<1>1. ReadInit => ReadInv
  BY NoReadInv DEF ReadInit
<1>2. VerdictStands <=> [][Stands]_vars
  BY PTL DEF VerdictStands, Stands
<1> QED BY <1>1, <1>2, ReadStep, ReadsAreStutters, TypeCorrect, EvidenceExplains,
           RecordedOnce, OpenInvariance, VerdictsStand, PTL DEF ReadSpec

-----------------------------------------------------------------------------
(* The row that explains a settled order of the answer.                    *)
Explaining(o) ==
    {e \in Answer.evidence :
        /\ e.order = o
        /\ e.verdict # VerdictDuplicate
        /\ Terminal(e.verdict) = Answer.orders[o].status
        /\ e.reason = Answer.orders[o].reason}

(* The second query finds it.                                              *)
LEMMA AnswerHasRow ==
    ASSUME ReadInv, TypeOK, EvidenceExplainsOrder,
           NEW o \in DOMAIN Answer.orders, OrderFinal(Answer.orders[o].status)
    PROVE  Explaining(o) # {}
<1>1. PICK query \in {"none", "evidence", "report"}, ids \in SUBSET OrderIds :
        \E rows :
          /\ read = [query |-> query, ids |-> ids, orders |-> rows, evidence |-> {}]
          /\ DOMAIN rows = ids
  BY DEF ReadInv
<1>2. PICK rows :
          /\ read = [query |-> query, ids |-> ids, orders |-> rows, evidence |-> {}]
          /\ DOMAIN rows = ids
  BY <1>1
<1>3. Answer.evidence = {e \in evidence : query = "report" \/ e.order \in ids}
  BY <1>2 DEF Answer, Queried, EvidenceRowsOf
<1>4. Answer.orders = rows /\ read.orders = rows /\ o \in ids
  BY <1>2 DEF Answer, Queried, EvidenceRowsOf
<1>5. orders[o] = Answer.orders[o]
  BY <1>4 DEF ReadInv
<1>6. PICK e \in evidence :
          /\ e.order = o
          /\ e.verdict # VerdictDuplicate
          /\ Terminal(e.verdict) = orders[o].status
          /\ e.reason = orders[o].reason
  BY <1>4, <1>5 DEF EvidenceExplainsOrder
<1>7. e \in Answer.evidence
  BY <1>3, <1>4, <1>6
<1> QED BY <1>5, <1>6, <1>7 DEF Explaining

(* An answer explains every order that it shows as settled.                *)
THEOREM AnswersExplain == ReadSpec => []AnswerExplainsOrder
<1>1. ReadInv /\ TypeOK /\ EvidenceExplainsOrder => AnswerExplainsOrder
  BY AnswerHasRow DEF AnswerExplainsOrder, Explaining
<1> QED BY <1>1, ReadInvariance, PTL

-----------------------------------------------------------------------------
(* Payments have one row each, so there are finitely many rows.            *)
LEMMA FiniteEvidence ==
    ASSUME TypeOK, ReplaySafe
    PROVE  IsFiniteSet(evidence)
<1> DEFINE op == [e \in evidence |-> e.op]
<1>1. op \in [evidence -> Ops]
  BY DEF TypeOK
<1>2. \A e, f \in evidence : op[e] = op[f] => e = f
  BY DEF ReplaySafe
<1>3. op \in Injection(evidence, Ops)
  BY ONLY <1>1, <1>2, Fun_IsInj
<1>4. IsFiniteSet(Ops)
  BY FS_Interval DEF Ops, TypeOK
<1> QED BY ONLY <1>3, <1>4, FS_Injection

(* A set of answered orders is no larger than a set of rows that has a row *)
(* for each of them.                                                       *)
LEMMA RowForEach ==
    ASSUME NEW S, NEW R, IsFiniteSet(R), \A o \in S : \E e \in R : e.order = o
    PROVE  Cardinality(S) <= Cardinality(R)
<1> DEFINE row == [o \in S |-> CHOOSE e \in R : e.order = o]
<1>1. \A o \in S : row[o] \in R /\ row[o].order = o
  OBVIOUS
<1>2. row \in Injection(S, R)
  <2>1. row \in [S -> R]
    BY <1>1
  <2>2. \A a, b \in S : row[a] = row[b] => a = b
    BY <1>1
  <2> HIDE DEF row
  <2> QED BY <2>1, <2>2, Fun_IsInj
<1> HIDE DEF row
<1> QED BY <1>2, FS_Injection

(* A report agrees with itself: the reasons and the numbers of its summary *)
(* cover the orders in its table.                                          *)
THEOREM ReportsAgree == ReadSpec => []ReportAgrees
<1>1. ASSUME ReadInv, TypeOK, ReplaySafe, EvidenceExplainsOrder
      PROVE  ReportAgrees
  <2> DEFINE rows == Answer.orders
             ev   == Answer.evidence
             Shown(v) == {o \in DOMAIN rows :
                             OrderFinal(rows[o].status) /\ rows[o].status = Terminal(v)}
             Counted(v) == {e \in ev : e.verdict = v}
             seen == {e.reason : e \in ev} \intersect AllRejectReasons
  <2>1. rows = read.orders /\ ev \subseteq evidence
    BY <1>1 DEF ReadInv, Answer, Queried, EvidenceRowsOf
  <2>2. \A o \in DOMAIN rows : OrderFinal(rows[o].status) =>
            \E e \in ev : /\ e.order = o
                          /\ e.verdict # VerdictDuplicate
                          /\ Terminal(e.verdict) = rows[o].status
                          /\ e.reason = rows[o].reason
    BY <1>1, AnswerHasRow DEF Explaining
  <2>3. \A o \in DOMAIN rows : rows[o].reason \notin AllRejectReasons \ seen
    <3>1. \A o \in DOMAIN rows : OrderFinal(rows[o].status) \/ rows[o].reason = NoReason
      BY <1>1, <2>1 DEF ReadInv
    <3>2. NoReason \notin AllRejectReasons
      BY DEF NoReason, AllRejectReasons, Underpayment, WrongAsset, WrongDestination,
             WrongBuyerWallet, InvalidMemo
    <3> QED BY <2>2, <3>1, <3>2
  <2>4. ASSUME NEW v \in {VerdictMatched, VerdictRejected}
        PROVE  Cardinality(Shown(v)) <= Cardinality(Counted(v))
    <3>1. IsFiniteSet(Counted(v))
      BY <1>1, <2>1, FiniteEvidence, FS_Subset
    <3>2. \A e \in ev : e.verdict \in Verdicts
      BY <1>1, <2>1 DEF TypeOK, Findings
    <3>3. ASSUME NEW o \in Shown(v) PROVE \E e \in Counted(v) : e.order = o
      <4>1. PICK e \in ev : /\ e.order = o
                            /\ e.verdict # VerdictDuplicate
                            /\ Terminal(e.verdict) = rows[o].status
        BY <2>2
      <4>2. Terminal(e.verdict) = Terminal(v)
        BY <4>1
      <4>3. e.verdict = v
        BY <3>2, <4>1, <4>2 DEF Terminal, Verdicts, Validated, Rejected,
           VerdictMatched, VerdictRejected, VerdictDuplicate
      <4> QED BY <4>1, <4>3
    <3> HIDE DEF Shown, Counted
    <3> QED BY <3>1, <3>3, RowForEach
  <2>5. \A v \in Verdicts :
            Summarize(rows, ev).verdicts[v] = Cardinality(Counted(v))
    BY DEF Summarize
  <2>6. Summarize(rows, ev).reasonsMissing = AllRejectReasons \ seen
    BY DEF Summarize
  <2>7. {VerdictMatched, VerdictRejected} \subseteq Verdicts
    BY DEF Verdicts
  <2> HIDE DEF Counted, seen
  <2> QED BY <2>3, <2>4, <2>5, <2>6, <2>7 DEF ReportAgrees
<1> QED BY <1>1, ReadInvariance, PTL
=============================================================================
