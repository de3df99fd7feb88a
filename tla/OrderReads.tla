----------------------------- MODULE OrderReads -----------------------------
(***************************************************************************)
(* Reads that take two queries.  GET /orders/{id}/evidence reads the order *)
(* and then its evidence (api/v1/evidence_api.go); the command report      *)
(* reads all orders and then all evidence (cmd/report.go).  Neither uses a *)
(* transaction, so a watcher may commit between the two queries and the    *)
(* answer is of no single state of the tables.                             *)
(*                                                                         *)
(* GetOrder and ListOrders are one query each and have no steps here.      *)
(***************************************************************************)
EXTENDS Watcher, FiniteSets

VARIABLE read   \* the read that has made its first query, if there is one

readVars == <<vars, read>>

(* What is asked for: which query it is, and about which orders.           *)
Request(query, ids) ==
    [query |-> query, ids |-> ids, orders |-> <<>>, evidence |-> {}]

NoRead == Request("none", {})

ReadInit == Init /\ read = NoRead

OrderRowsOf(r) == [r EXCEPT !.orders = [o \in r.ids |-> orders[o]]]

(* The report takes all the evidence, also with --buyer-wallet.            *)
EvidenceRowsOf(r) ==
    [r EXCEPT !.evidence =
        {e \in evidence : r.query = "report" \/ e.order \in r.ids}]

(* Mutant of Queried: evidence first, then the orders it is about.         *)
QueriedEvidenceFirst(n, r) == IF n = 1 THEN EvidenceRowsOf(r) ELSE OrderRowsOf(r)

(* What is known after the n-th query.                                     *)
Queried(n, r) == IF n = 1 THEN OrderRowsOf(r) ELSE EvidenceRowsOf(r)

Begin(r) ==
    /\ read = NoRead
    /\ read' = Queried(1, r)
    /\ UNCHANGED vars

(* An id that is not there is answered with 404 at once.                   *)
GetOrderEvidence(o) == Created(o) /\ Begin(Request("evidence", {o}))

Report(wallet) ==
    Begin(Request("report",
        {o \in OrderIds : Created(o) /\ (wallet = "" \/ orders[o].buyer = wallet)}))

Answer == Queried(2, read)

(* The second query, and the answer.                                       *)
Respond ==
    /\ read # NoRead
    /\ read' = NoRead
    /\ UNCHANGED vars

ReadNext ==
    \/ Next /\ UNCHANGED read
    \/ \E o \in OrderIds : GetOrderEvidence(o)
    \/ \E wallet \in Buyers \union {""} : Report(wallet)
    \/ Respond

ReadSpec == ReadInit /\ [][ReadNext]_readVars

-----------------------------------------------------------------------------
(* Coverage of the report.  OnChainMissing is the subject of ChainWriter:  *)
(* the hash of an order is not among the columns of Watcher.               *)
Summarize(rows, found_) ==
    LET seen == {e.reason : e \in found_} \intersect AllRejectReasons
    IN  [orders         |-> Cardinality(DOMAIN rows),
         wallets        |-> Cardinality({rows[o].buyer : o \in DOMAIN rows}),
         evidence       |-> Cardinality(found_),
         verdicts       |-> [v \in Verdicts |-> Cardinality({e \in found_ : e.verdict = v})],
         reasonsSeen    |-> seen,
         reasonsMissing |-> AllRejectReasons \ seen]

-----------------------------------------------------------------------------
(* Whenever the second query runs, an order that the answer shows as       *)
(* settled comes with the evidence that settled it: a commit between the   *)
(* queries may add evidence to an order shown as awaiting, and never takes *)
(* away the explanation of a verdict.                                      *)
AnswerExplainsOrder ==
    \A o \in DOMAIN Answer.orders :
        OrderFinal(Answer.orders[o].status) =>
            \E e \in Answer.evidence :
                /\ e.order = o
                /\ e.verdict # VerdictDuplicate
                /\ Terminal(e.verdict) = Answer.orders[o].status
                /\ e.reason = Answer.orders[o].reason

(* The coverage of a report agrees with its own table of orders: it never  *)
(* calls the reason of a rejected order missing, and never counts fewer    *)
(* verdicts than it shows orders with that verdict.                        *)
ReportAgrees ==
    read.query = "report" =>
        LET rows     == Answer.orders
            coverage == Summarize(rows, Answer.evidence)
            Shown(v) == {o \in DOMAIN rows :
                            OrderFinal(rows[o].status) /\ rows[o].status = Terminal(v)}
        IN  /\ \A o \in DOMAIN rows : rows[o].reason \notin coverage.reasonsMissing
            /\ \A v \in {VerdictMatched, VerdictRejected} :
                  Cardinality(Shown(v)) <= coverage.verdicts[v]
=============================================================================
