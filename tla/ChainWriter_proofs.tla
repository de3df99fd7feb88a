------------------------- MODULE ChainWriter_proofs -------------------------
(***************************************************************************)
(* Proofs about writing verdicts to the contract, for any orders, faults,  *)
(* archivals and transactions of the operator: types, no call taking       *)
(* effect twice, simulations that hold, hashes that are proof, decisions   *)
(* published as they were taken, and when the sync query sees enough.      *)
(***************************************************************************)
EXTENDS ChainWriter, WellFoundedInduction, FiniteSetTheorems, TLAPS

(* Transactions signed so far, and what a writeChain that runs is.         *)
Signed == [id : 1..built, seq : 1..(seq + 1), call : Calls]

Jobs ==
    {j \in [order : settled, to : Statuses, stage : {"create", "detect", "terminal"},
            source : {"process", "sync"}, expired : BOOLEAN] : j.to = VerdictOf[j.order]}

(* The rows of settled orders: they hold the verdicts.                     *)
RowsOf(S) == {[order |-> o, to |-> VerdictOf[o]] : o \in S}

AtRest == {"loop", "sync"}
InTx   == {"simulate", "send", "wait", "save"}

LoopType ==
    /\ settled \subseteq Orders
    /\ pc \in AtRest \union {"load"} \union InTx
    /\ pc \in AtRest => job = NoJob
    /\ pc \notin AtRest => job \in Jobs
    /\ rows \subseteq RowsOf(settled) /\ done \in 0..SyncBatch
    /\ chainFailed \in [Orders -> 0..MaxAttempts]
    /\ pc \notin AtRest /\ job.source = "sync" => chainFailed[job.order] < MaxAttempts

TxType ==
    /\ built \in Nat /\ seq \in Nat /\ outages \in Nat
    /\ hash \in [Orders -> Txs]
    /\ tx \in Txs
    /\ flight \subseteq Signed
    /\ landed \subseteq [tx : Signed, ok : BOOLEAN]
    /\ storage \in [Orders -> Statuses \union {Absent}]

(* The running invocation is that of the job; a hash is stored only for    *)
(* the verdict's transaction, after it has succeeded.                      *)
Running ==
    /\ pc \in InTx => tx \in Signed /\ tx.call = CallOf(job)
    /\ pc = "save" => job.stage = "terminal" /\ [tx |-> tx, ok |-> TRUE] \in landed

(* A transaction that can be next was simulated on the storage as it is.   *)
Fresh ==
    /\ \A t \in flight : t.seq = seq + 1 => Answer(storage, t.call) = "Ok"
    /\ pc = "send" /\ tx.seq = seq + 1 => Answer(storage, tx.call) = "Ok"
    /\ outages = 0 => ~ archived

(* The storage st shows that call c has taken effect, and will not again.  *)
Kept(st, c) ==
    /\ st[c.order] # Absent
    /\ c.to.status = PaymentDetected =>
           st[c.order].status \in {PaymentDetected, Validated, Rejected}
    /\ c.to.status \in {Validated, Rejected} => st[c.order] = c.to

Taken == \A r \in landed : r.ok => Kept(storage, r.tx.call)

ChainInv ==
    /\ LoopType /\ TxType /\ Running /\ Fresh /\ Taken
    /\ TakesEffectOnce /\ SimulationHolds /\ HashIsProof

-----------------------------------------------------------------------------
(* Among orders there is an oldest.                                        *)
LEMMA OldestIsOne ==
    ASSUME NEW S \in SUBSET Orders, S # {}
    PROVE  \E x \in S : \A y \in S : x <= y
<1> DEFINE R == OpToRel(<, Nat)
<1>1. S \subseteq Nat
    BY OrdersAssumption
<1>2. IsWellFoundedOn(R, Nat)
    BY NatLessThanWellFounded, Zenon
<1>3. \A x, y \in Nat : <<x, y>> \in R <=> x < y
    BY DEF OpToRel
<1> HIDE DEF R
<1>4. PICK x \in S : \A y \in S : ~ (<<y, x>> \in R)
    BY <1>1, <1>2, WFMin
<1>5. ASSUME NEW y \in S PROVE x <= y
  <2>1. x \in Nat /\ y \in Nat /\ ~ (<<y, x>> \in R)
    BY <1>1, <1>4
  <2>2. ~ (y < x)
    BY <1>3, <2>1
  <2> QED BY <2>1, <2>2
<1> QED BY <1>5

(* The rows of a sync query have a first one.                              *)
LEMMA FirstIsOne ==
    ASSUME NEW S \in SUBSET RowsOf(Orders), S # {}
    PROVE  First(S) \in S
<1> DEFINE T == {r.order : r \in S}
<1>1. T \in SUBSET Orders /\ T # {}
    BY DEF RowsOf
<1>2. PICK x \in T : \A y \in T : x <= y
    BY <1>1, OldestIsOne
<1>3. PICK r \in S : r.order = x
    BY <1>2
<1>4. \A q \in S : r.order <= q.order
    BY <1>2, <1>3
<1> QED BY <1>4 DEF First

(* What the calls are made of.                                             *)
LEMMA CallFacts ==
    ASSUME NEW c \in Calls
    PROVE  /\ c.order \in Orders /\ c.to \in Statuses
           /\ c.fn = "create_order" => c.to.status = AwaitingPayment
           /\ c.fn \in {"create_order", "set_status"}
<1>1. PICK o \in Orders : c = CreateCall(o) \/ \E s \in Statuses : c = SetCall(o, s)
    BY DEF Calls
<1>2. Status(AwaitingPayment, NoReason) \in Statuses
    BY DEF Statuses
<1> QED BY <1>1, <1>2 DEF CreateCall, SetCall, Status

LEMMA StatusFacts ==
    ASSUME NEW s \in Statuses
    PROVE  /\ s # Absent
           /\ s.status \in {AwaitingPayment, PaymentDetected, Validated, Rejected}
BY DEF Statuses, Status, Absent, AwaitingPayment, PaymentDetected, Validated, Rejected

(* A call that has taken effect is refused from then on,                   *)
LEMMA KeptIsRefused ==
    ASSUME NEW st \in [Orders -> Statuses \union {Absent}], NEW c \in Calls, Kept(st, c)
    PROVE  Answer(st, c) # "Ok"
<1>1. c.order \in Orders /\ c.to \in Statuses
    BY CallFacts
<1>2. CASE c.fn = "create_order"
    BY <1>2 DEF Answer, Kept
<1>3. CASE c.fn # "create_order"
  <2>1. ~ can_transition(st[c.order], c.to)
    BY <1>1, StatusFacts DEF Kept, can_transition, AwaitingPayment, PaymentDetected,
       Validated, Rejected
  <2> QED BY <1>3, <2>1 DEF Answer
<1> QED BY <1>2, <1>3

(* whatever else is called,                                                *)
LEMMA KeptStays ==
    ASSUME NEW st \in [Orders -> Statuses \union {Absent}], NEW c \in Calls, Kept(st, c),
           NEW d \in Calls, Answer(st, d) = "Ok"
    PROVE  Kept(After(st, d), c)
<1>1. /\ c.order \in Orders /\ d.order \in Orders
      /\ d.to \in Statuses /\ c.to \in Statuses
    BY CallFacts
<1>2. After(st, d) = [st EXCEPT ![d.order] = d.to]
    BY DEF After
<1>3. CASE d.order # c.order
  <2>1. After(st, d)[c.order] = st[c.order]
    BY <1>1, <1>2, <1>3
  <2> QED BY <2>1 DEF Kept
<1>4. CASE d.order = c.order
  <2>1. After(st, d)[c.order] = d.to /\ d.to # Absent
    BY <1>1, <1>2, <1>4, StatusFacts
  <2>2. d.fn # "create_order"
    BY <1>4 DEF Answer, Kept
  <2>3. can_transition(st[c.order], d.to)
    BY <1>4, <2>2 DEF Answer
  <2>4. c.to.status = PaymentDetected => d.to.status \in {PaymentDetected, Validated, Rejected}
    BY <2>3 DEF Kept, can_transition
  <2>5. c.to.status \notin {Validated, Rejected}
    BY <2>3 DEF Kept, can_transition, AwaitingPayment, PaymentDetected, Validated, Rejected
  <2> QED BY <2>1, <2>4, <2>5 DEF Kept
<1> QED BY <1>3, <1>4

(* once it was accepted.                                                   *)
LEMMA OkIsKept ==
    ASSUME NEW st \in [Orders -> Statuses \union {Absent}], NEW c \in Calls,
           Answer(st, c) = "Ok"
    PROVE  /\ Kept(After(st, c), c)
           /\ After(st, c) \in [Orders -> Statuses \union {Absent}]
<1>1. c.order \in Orders /\ c.to \in Statuses /\ c.to # Absent
    BY CallFacts, StatusFacts
<1>2. After(st, c) = [st EXCEPT ![c.order] = c.to]
    BY DEF After
<1>3. After(st, c)[c.order] = c.to
    BY <1>1, <1>2
<1> QED BY <1>1, <1>2, <1>3 DEF Kept

(* The call of a job is one of the contract.                               *)
LEMMA JobCalls ==
    ASSUME LoopType, job \in Jobs
    PROVE  /\ CallOf(job) \in Calls /\ job.order \in Orders
           /\ job.stage = "terminal" => CallOf(job) = SetCall(job.order, VerdictOf[job.order])
<1>1. job.order \in Orders /\ job.stage \in {"create", "detect", "terminal"}
    BY DEF LoopType, Jobs
<1>2. /\ Status(PaymentDetected, NoReason) \in Statuses
      /\ job.to = VerdictOf[job.order] /\ job.to \in Statuses
    BY DEF Statuses, Jobs
<1>3. CASE job.stage = "create"
    BY <1>1, <1>3 DEF CallOf, Calls
<1>4. CASE job.stage = "detect"
    BY <1>1, <1>2, <1>4 DEF CallOf, Calls
<1>5. CASE job.stage = "terminal"
    BY <1>1, <1>2, <1>5 DEF CallOf, Calls
<1> QED BY <1>1, <1>3, <1>4, <1>5

(* Transactions stay what they are.                                        *)
LEMMA TxsGrow ==
    ASSUME TxType, built' \in Nat, seq' \in Nat, built <= built', seq <= seq'
    PROVE  Signed \subseteq Signed' /\ Txs \subseteq Txs'
<1>0. built \in Nat /\ seq \in Nat
    BY DEF TxType
<1>1. 1..built \subseteq 1..built'
  <2>1. PICK m, n \in Nat : m = built /\ n = built'
    BY <1>0
  <2>2. m <= n
    BY <2>1
  <2> QED BY <2>1, <2>2
<1>a. 1..(seq + 1) \subseteq 1..(seq' + 1)
  <2>1. PICK m, n \in Nat : m = seq /\ n = seq'
    BY <1>0
  <2>2. m <= n
    BY <2>1
  <2>3. 1..(m + 1) \subseteq 1..(n + 1)
    BY <2>2
  <2> QED BY <2>1, <2>3, Zenon
<1>2. Signed \subseteq Signed'
    BY <1>1, <1>a DEF Signed
<1>3. Txs = Signed \union {NoTx} /\ Txs' = Signed' \union {NoTx}
    BY DEF Txs, Signed
<1> QED BY <1>2, <1>3

(* The contract still holds the verdicts whose hashes are stored.          *)
LEMMA ProofHolds ==
    ASSUME TxType', Taken',
           \A o \in Orders : hash'[o] # NoTx =>
               /\ [tx |-> hash'[o], ok |-> TRUE] \in landed'
               /\ hash'[o].call = SetCall(o, VerdictOf[o])
    PROVE  HashIsProof'
<1> SUFFICES ASSUME NEW o \in Orders, hash'[o] # NoTx PROVE Written(o)'
    BY DEF HashIsProof
<1>1. Kept(storage', SetCall(o, VerdictOf[o]))
    BY DEF Taken
<1>2. VerdictOf[o].status \in {Validated, Rejected}
    BY VerdictsAssumption DEF OrderFinal
<1> QED BY <1>1, <1>2 DEF Kept, SetCall, Written

-----------------------------------------------------------------------------
(* Nothing has been signed or written in the beginning.                    *)
LEMMA ChainStarts == Init => ChainInv
<1> SUFFICES ASSUME Init PROVE ChainInv
    OBVIOUS
<1>1. LoopType
    BY SyncAssumption DEF Init, LoopType, AtRest, InTx
<1>2. TxType
    BY DEF Init, TxType, Txs
<1>3. Running /\ Taken /\ TakesEffectOnce /\ SimulationHolds
    BY DEF Init, Running, Taken, TakesEffectOnce, SimulationHolds, InTx
<1>4. HashIsProof
    BY DEF Init, HashIsProof
<1>5. ~ archived
    BY DEF Init
<1>6. Fresh
    BY <1>5 DEF Init, Fresh
<1> QED BY <1>1, <1>2, <1>3, <1>4, <1>6 DEF ChainInv

(* Steps of the loop that sign, send and store nothing.                    *)
LEMMA QuietKeeps ==
    ASSUME ChainInv, LoopType', UNCHANGED hash, UNCHANGED ledger, built' = built,
           outages' = outages, tx' \in {tx, NoTx}, pc' \in AtRest \union {"load"}
    PROVE  ChainInv'
<1> USE DEF ChainInv
<1>1. UNCHANGED <<hash, seq, flight, landed, storage, archived, built, outages>>
    BY DEF ledger
<1>2. Txs' = Txs /\ Signed' = Signed
    BY <1>1 DEF Txs, Signed
<1>3. TxType'
    BY <1>1, <1>2 DEF TxType, Txs
<1>4. pc' \notin InTx
    BY DEF AtRest, InTx
<1>5. Running' /\ Taken'
    BY <1>1, <1>4 DEF Running, Taken, InTx
<1>6. Fresh'
    BY <1>1, <1>4 DEF Fresh, InTx
<1>7. TakesEffectOnce' /\ SimulationHolds'
    BY <1>1 DEF TakesEffectOnce, SimulationHolds
<1>8. HashIsProof'
    BY <1>1 DEF HashIsProof, Written
<1> QED BY <1>3, <1>5, <1>6, <1>7, <1>8

(* The end of a writeChain; its round counts as one attempt.               *)
LEMMA ReturnIsQuiet ==
    ASSUME ChainInv, NEW ok \in BOOLEAN, Return(ok), pc \notin AtRest,
           UNCHANGED <<settled, rows, done>>
    PROVE  LoopType' /\ tx' = NoTx /\ pc' \in AtRest
<1>1. job \in Jobs /\ job.order \in Orders
    BY DEF ChainInv, LoopType, Jobs
<1>2. chainFailed' \in [Orders -> 0..MaxAttempts]
  <2>1. CASE job.source = "sync"
    <3>1. chainFailed[job.order] \in 0..MaxAttempts /\ chainFailed[job.order] < MaxAttempts
      BY <1>1, <2>1 DEF ChainInv, LoopType
    <3>2. chainFailed[job.order] + 1 \in 0..MaxAttempts /\ 0 \in 0..MaxAttempts
      BY <3>1, SyncAssumption
    <3>3. (IF ok THEN 0 ELSE chainFailed[job.order] + 1) \in 0..MaxAttempts
      BY <3>2
    <3> QED BY <1>1, <2>1, <3>3 DEF Return, ChainInv, LoopType
  <2>2. CASE job.source # "sync"
    BY <2>2 DEF Return, ChainInv, LoopType
  <2> QED BY <2>1, <2>2
<1>3. job' = NoJob /\ tx' = NoTx /\ pc' \in AtRest
    BY DEF Return, AtRest
<1> QED BY <1>2, <1>3 DEF ChainInv, LoopType

(* An invocation that fails.                                               *)
LEMMA FailedIsQuiet ==
    ASSUME ChainInv, NEW expired \in BOOLEAN, InvokeFailed(expired), pc \notin AtRest,
           UNCHANGED <<settled, rows, done>>
    PROVE  LoopType' /\ tx' = NoTx /\ pc' \in AtRest \union {"load"}
<1>1. CASE job.stage = "terminal"
    BY <1>1, ReturnIsQuiet DEF InvokeFailed
<1>2. CASE job.stage # "terminal"
  <2>1. NextStage(expired)
    BY <1>2 DEF InvokeFailed
  <2>2. job \in Jobs
    BY DEF ChainInv, LoopType
  <2>3. job' \in Jobs /\ job'.source = job.source /\ job'.order = job.order
    BY <2>1, <2>2 DEF NextStage, Jobs
  <2>4. Jobs' = Jobs
    BY DEF Jobs
  <2>5. pc' = "load" /\ tx' = NoTx /\ chainFailed' = chainFailed
    BY <2>1 DEF NextStage
  <2> QED BY <2>3, <2>4, <2>5 DEF ChainInv, LoopType, AtRest, InTx
<1> QED BY <1>1, <1>2

-----------------------------------------------------------------------------
(* Steps of the loop.                                                      *)
LEMMA LoopKeeps ==
    ASSUME ChainInv,
           \/ \E o \in Orders : Settle(o) \/ SettleOnly(o)
           \/ SyncChain \/ SyncSkip \/ SyncTry \/ SyncEnd
    PROVE  ChainInv'
<1> USE DEF ChainInv
<1>d. 0 \in 0..SyncBatch
    BY SyncAssumption
<1>1. ASSUME NEW o \in Orders, Settle(o) PROVE ChainInv'
  <2>1. /\ settled' = settled \union {o} /\ job' = Job(o, VerdictOf[o], "process")
        /\ pc' = "load"
        /\ UNCHANGED <<hash, tx, rows, done, chainFailed, built, outages>>
        /\ UNCHANGED ledger
    BY <1>1 DEF Settle, Start, sync, budgets
  <2>2. job' \in Jobs' /\ job'.source = "process"
    BY <2>1, VerdictsAssumption DEF Job, Jobs
  <2>3. LoopType'
    BY <2>1, <2>2 DEF LoopType, RowsOf, AtRest, InTx
  <2> QED BY <2>1, <2>3, QuietKeeps
<1>2. ASSUME NEW o \in Orders, SettleOnly(o) PROVE ChainInv'
  <2>1. /\ settled' = settled \union {o} /\ pc = "loop"
        /\ UNCHANGED <<hash, pc, job, tx, rows, done, chainFailed, built, outages>>
        /\ UNCHANGED ledger
    BY <1>2 DEF SettleOnly, Fault, sync
  <2>2. LoopType'
    BY <2>1 DEF LoopType, RowsOf, AtRest, InTx
  <2> QED BY <2>1, <2>2, QuietKeeps DEF AtRest
<1>3. CASE SyncChain
  <2>1. /\ pc = "loop" /\ pc' = "sync" /\ rows' = {Row(o) : o \in SyncRows}
        /\ done' = 0
        /\ UNCHANGED <<settled, hash, job, tx, chainFailed, built, outages>>
        /\ UNCHANGED ledger
    BY <1>3 DEF SyncChain, db, budgets
  <2>2. {Row(o) : o \in SyncRows} \subseteq RowsOf(settled)
    BY DEF SyncRows, Unwritten, Row, RowsOf
  <2>3. LoopType'
    BY <2>1, <2>2, <1>d DEF LoopType, AtRest, InTx
  <2> QED BY <2>1, <2>3, QuietKeeps DEF AtRest
<1>4. CASE SyncSkip
  <2>1. /\ pc = "sync" /\ rows' = rows \ {First(rows)}
        /\ UNCHANGED <<settled, hash, pc, job, tx, done, chainFailed, built, outages>>
        /\ UNCHANGED ledger
    BY <1>4 DEF SyncSkip, db, budgets
  <2>2. LoopType'
    BY <2>1 DEF LoopType, AtRest, InTx
  <2> QED BY <2>1, <2>2, QuietKeeps DEF AtRest
<1>5. CASE SyncTry
  <2> DEFINE r == First(rows)
             o == r.order
  <2>1. o \in settled /\ o \in Orders /\ r.to = VerdictOf[o]
    <3>1. rows \in SUBSET RowsOf(Orders) /\ rows # {}
      BY <1>5 DEF SyncTry, LoopType, RowsOf
    <3>2. r \in rows
      BY <3>1, FirstIsOne
    <3> QED BY <3>2 DEF LoopType, RowsOf
  <2>2. /\ ~ Exhausted(o) /\ done < SyncBatch /\ done' = done + 1
        /\ rows' = rows \ {r} /\ job' = Job(o, r.to, "sync") /\ pc' = "load"
        /\ UNCHANGED <<settled, hash, tx, chainFailed, built, outages>>
        /\ UNCHANGED ledger
    BY <1>5 DEF SyncTry, Start, db, budgets
  <2> HIDE DEF o, r
  <2>3. job' \in Jobs' /\ job'.order = o
    BY <2>1, <2>2, VerdictsAssumption DEF Job, Jobs
  <2>4. chainFailed[o] < MaxAttempts
    BY <2>1, <2>2, SyncAssumption DEF Exhausted, LoopType
  <2>5. done' \in 0..SyncBatch
    BY <2>2, SyncAssumption DEF LoopType
  <2>6. LoopType'
    BY <2>2, <2>3, <2>4, <2>5 DEF LoopType, AtRest, InTx
  <2> QED BY <2>2, <2>6, QuietKeeps
<1>6. CASE SyncEnd
  <2>1. /\ pc = "sync" /\ pc' = "loop" /\ rows' = {} /\ done' = 0
        /\ UNCHANGED <<settled, hash, job, tx, chainFailed, built, outages>>
        /\ UNCHANGED ledger
    BY <1>6 DEF SyncEnd, db, budgets
  <2>2. LoopType'
    BY <2>1, <1>d DEF LoopType, AtRest, InTx
  <2> QED BY <2>1, <2>2, QuietKeeps DEF AtRest
<1> QED BY <1>1, <1>2, <1>3, <1>4, <1>5, <1>6

(* Invocations that fail, writeChains that end, and the end of the process.*)
LEMMA FailuresKeep ==
    ASSUME ChainInv,
           \/ GiveUp \/ AddressFails \/ Expired \/ RpcFails \/ SaveHashFails \/ Crash
    PROVE  ChainInv'
<1> USE DEF ChainInv
<1>1. pc \notin AtRest => job.expired \in BOOLEAN
    BY DEF LoopType, Jobs
<1>2. CASE GiveUp \/ AddressFails \/ Expired \/ RpcFails
  <2>1. /\ pc \notin AtRest /\ \E expired \in BOOLEAN : InvokeFailed(expired)
        /\ UNCHANGED <<settled, hash, rows, done, built, outages>> /\ UNCHANGED ledger
    BY <1>1, <1>2 DEF GiveUp, AddressFails, Expired, RpcFails, Fault, db, budgets, AtRest
  <2>2. LoopType' /\ tx' = NoTx /\ pc' \in AtRest \union {"load"}
    BY <2>1, FailedIsQuiet
  <2> QED BY <2>1, <2>2, QuietKeeps
<1>3. CASE SaveHashFails
  <2>1. /\ pc \notin AtRest /\ Return(TRUE)
        /\ UNCHANGED <<settled, hash, rows, done, built, outages>> /\ UNCHANGED ledger
    BY <1>3 DEF SaveHashFails, Fault, db, AtRest
  <2>2. LoopType' /\ tx' = NoTx /\ pc' \in AtRest
    BY <2>1, ReturnIsQuiet
  <2> QED BY <2>1, <2>2, QuietKeeps
<1>4. CASE Crash
  <2>1. /\ pc' = "loop" /\ job' = NoJob /\ tx' = NoTx /\ rows' = {} /\ done' = 0
        /\ chainFailed' = [o \in Orders |-> 0]
        /\ UNCHANGED <<settled, hash, built, outages>> /\ UNCHANGED ledger
    BY <1>4 DEF Crash, Fault, db
  <2>2. 0 \in 0..SyncBatch /\ 0 \in 0..MaxAttempts
    BY SyncAssumption
  <2>3. LoopType'
    BY <2>1, <2>2 DEF LoopType, AtRest, InTx
  <2> QED BY <2>1, <2>3, QuietKeeps DEF AtRest
<1> QED BY <1>2, <1>3, <1>4

(* SaveHash: the hash is that of the verdict's transaction, on the ledger. *)
LEMMA SaveHashKeeps == ASSUME ChainInv, SaveHash PROVE ChainInv'
<1> USE DEF ChainInv
<1>1. /\ pc = "save" /\ Return(TRUE) /\ hash' = [hash EXCEPT ![job.order] = tx]
      /\ UNCHANGED <<settled, rows, done, seq, flight, landed, storage, archived, built, outages>>
    BY DEF SaveHash, ledger, budgets
<1>2. LoopType' /\ tx' = NoTx /\ pc' \in AtRest
    BY <1>1, ReturnIsQuiet DEF AtRest
<1>3. job \in Jobs /\ job.stage = "terminal" /\ pc \in InTx
    BY <1>1 DEF LoopType, Running, AtRest, InTx
<1>4. /\ job.order \in Orders /\ tx.call = SetCall(job.order, VerdictOf[job.order])
      /\ [tx |-> tx, ok |-> TRUE] \in landed
    BY <1>1, <1>3, JobCalls DEF Running
<1>5. Txs' = Txs /\ Signed' = Signed
    BY <1>1 DEF Txs, Signed
<1>6. TxType'
    BY <1>1, <1>2, <1>4, <1>5 DEF TxType, Txs
<1>7. pc' \notin InTx
    BY <1>2 DEF AtRest, InTx
<1>8. Running' /\ Taken' /\ TakesEffectOnce' /\ SimulationHolds'
    BY <1>1, <1>7 DEF Running, Taken, TakesEffectOnce, SimulationHolds, InTx
<1>9. Fresh'
    BY <1>1, <1>7 DEF Fresh, InTx
<1>10. \A o \in Orders : hash'[o] # NoTx =>
           /\ [tx |-> hash'[o], ok |-> TRUE] \in landed'
           /\ hash'[o].call = SetCall(o, VerdictOf[o])
    BY <1>1, <1>4 DEF TxType, HashIsProof
<1>11. HashIsProof'
    BY <1>6, <1>8, <1>10, ProofHolds
<1> QED BY <1>2, <1>6, <1>8, <1>9, <1>11

(* Signing: the next transaction of the account, with the call of the job. *)
LEMMA LoadAccountKeeps == ASSUME ChainInv, LoadAccount PROVE ChainInv'
<1> USE DEF ChainInv
<1>1. /\ pc = "load" /\ pc' = "simulate" /\ built' = built + 1
      /\ tx' = [id |-> built + 1, seq |-> seq + 1, call |-> CallOf(job)]
      /\ UNCHANGED <<settled, hash, job, rows, done, chainFailed,
                     seq, flight, landed, storage, archived, outages>>
    BY DEF LoadAccount, db, sync, ledger, budgets
<1>2. job \in Jobs /\ CallOf(job) \in Calls
    BY <1>1, JobCalls DEF LoopType, AtRest
<1>3. Signed \subseteq Signed' /\ Txs \subseteq Txs'
    BY <1>1, TxsGrow DEF TxType
<1>4. LoopType'
    BY <1>1 DEF LoopType, AtRest, InTx, Jobs
<1>5. CallOf(job)' = CallOf(job) /\ tx'.call = CallOf(job)
    BY <1>1 DEF CallOf
<1>6. built + 1 \in 1..built' /\ seq + 1 \in 1..(seq' + 1)
    BY <1>1 DEF TxType
<1>7. tx' \in Signed' /\ tx' \in Txs'
    BY <1>1, <1>2, <1>6 DEF Signed, Txs
<1>8. landed \subseteq [tx : Signed', ok : BOOLEAN]
    BY <1>3 DEF TxType
<1>9. built' \in Nat
    BY <1>1 DEF TxType
<1>10. TxType'
    BY <1>1, <1>3, <1>7, <1>8, <1>9 DEF TxType
<1>11. Running' /\ Taken' /\ TakesEffectOnce' /\ SimulationHolds'
    BY <1>1, <1>5, <1>7 DEF Running, Taken, TakesEffectOnce, SimulationHolds, InTx
<1>12. Fresh'
    BY <1>1 DEF Fresh
<1>13. HashIsProof'
    BY <1>1 DEF HashIsProof, Written
<1> QED BY <1>4, <1>10, <1>11, <1>12, <1>13

(* The simulation passes only calls that the storage accepts as it is.     *)
LEMMA SimulateKeeps == ASSUME ChainInv, Simulate PROVE ChainInv'
<1> USE DEF ChainInv
<1>1. /\ pc = "simulate"
      /\ UNCHANGED <<settled, hash, rows, done, seq, flight, landed, storage, archived,
                     built, outages>>
    BY DEF Simulate, db, ledger, budgets
<1>2. CASE Answer(storage, tx.call) = "Ok"
  <2>1. pc' = "send" /\ UNCHANGED <<job, tx, chainFailed>>
    BY <1>2 DEF Simulate
  <2>2. LoopType'
    BY <1>1, <2>1 DEF LoopType, AtRest, InTx, Jobs
  <2>3. Txs' = Txs /\ Signed' = Signed /\ CallOf(job)' = CallOf(job)
    BY <1>1, <2>1 DEF Txs, Signed, CallOf
  <2>4. TxType'
    BY <1>1, <2>1, <2>3 DEF TxType
  <2>5. Running' /\ Taken' /\ TakesEffectOnce' /\ SimulationHolds'
    BY <1>1, <2>1, <2>3 DEF Running, Taken, TakesEffectOnce, SimulationHolds, InTx
  <2>6. Fresh'
    BY <1>1, <1>2, <2>1 DEF Fresh
  <2>7. HashIsProof'
    BY <1>1 DEF HashIsProof, Written
  <2> QED BY <2>2, <2>4, <2>5, <2>6, <2>7
<1>3. CASE Answer(storage, tx.call) # "Ok"
  <2>1. InvokeFailed(job.expired) /\ pc \notin AtRest /\ job.expired \in BOOLEAN
    BY <1>1, <1>3 DEF Simulate, AtRest, LoopType, Jobs
  <2>2. LoopType' /\ tx' = NoTx /\ pc' \in AtRest \union {"load"}
    BY <1>1, <2>1, FailedIsQuiet
  <2> QED BY <1>1, <2>2, QuietKeeps DEF ledger
<1> QED BY <1>2, <1>3

(* Sending: whatever of it gets through, what can be next was simulated.   *)
LEMMA SendingKeeps ==
    ASSUME ChainInv, LoopType', pc = "send", flight' \subseteq flight \union {tx},
           UNCHANGED <<hash, built, seq, landed, storage, archived, outages>>,
           \/ pc' = "wait" /\ UNCHANGED <<job, tx>>
           \/ pc' \in AtRest \union {"load"} /\ tx' = NoTx
    PROVE  ChainInv'
<1> USE DEF ChainInv
<1>1. Txs' = Txs /\ Signed' = Signed
    BY DEF Txs, Signed
<1>2. tx \in Signed /\ tx.call = CallOf(job)
    BY DEF Running, InTx
<1>3. TxType'
    BY <1>1, <1>2 DEF TxType, Txs
<1>4. pc' # "save" /\ pc' # "send"
    BY DEF AtRest
<1>5. UNCHANGED <<job, tx>> => CallOf(job)' = CallOf(job)
    BY DEF CallOf
<1>6. Running'
    BY <1>1, <1>2, <1>4, <1>5 DEF Running, AtRest, InTx
<1>7. Fresh'
    BY <1>4 DEF Fresh
<1>8. Taken' /\ TakesEffectOnce' /\ SimulationHolds'
    BY DEF Taken, TakesEffectOnce, SimulationHolds
<1>9. HashIsProof'
    BY DEF HashIsProof, Written
<1> QED BY <1>3, <1>6, <1>7, <1>8, <1>9

LEMMA SendKeeps == ASSUME ChainInv, Send \/ SendUnknown PROVE ChainInv'
<1> USE DEF ChainInv
<1>1. /\ pc = "send" /\ flight' \subseteq flight \union {tx}
      /\ UNCHANGED <<settled, hash, rows, done, seq, landed, storage, archived,
                     built, outages>>
    BY DEF Send, SendUnknown, Fault, db, budgets
<1>2. job.expired \in BOOLEAN /\ pc \notin AtRest
    BY <1>1 DEF LoopType, Jobs, AtRest
<1>3. \/ pc' = "wait" /\ UNCHANGED <<job, tx, chainFailed>>
      \/ InvokeFailed(job.expired)
    BY DEF Send, SendUnknown
<1>4. CASE pc' = "wait" /\ UNCHANGED <<job, tx, chainFailed>>
  <2>1. LoopType'
    BY <1>1, <1>4 DEF LoopType, AtRest, InTx, Jobs
  <2> QED BY <1>1, <1>4, <2>1, SendingKeeps
<1>5. CASE InvokeFailed(job.expired)
  <2>1. LoopType' /\ tx' = NoTx /\ pc' \in AtRest \union {"load"}
    BY <1>1, <1>2, <1>5, FailedIsQuiet
  <2> QED BY <1>1, <2>1, SendingKeeps
<1> QED BY <1>3, <1>4, <1>5

(* The answer of the node is that of the transaction that was asked for.   *)
LEMMA ConfirmKeeps == ASSUME ChainInv, Confirm PROVE ChainInv'
<1> USE DEF ChainInv
<1>1. /\ pc = "wait" /\ pc \notin AtRest
      /\ UNCHANGED <<settled, hash, rows, done, built, outages>> /\ UNCHANGED ledger
    BY DEF Confirm, db, budgets, AtRest
<1>2. PICK r \in landed :
          /\ r.tx = tx
          /\ IF r.ok THEN InvokeSucceeded ELSE InvokeFailed(job.expired)
    BY DEF Confirm
<1>3. job.expired \in BOOLEAN
    BY <1>1 DEF LoopType, Jobs
<1>4. CASE InvokeFailed(job.expired)
  <2>1. LoopType' /\ tx' = NoTx /\ pc' \in AtRest \union {"load"}
    BY <1>1, <1>3, <1>4, FailedIsQuiet
  <2> QED BY <1>1, <2>1, QuietKeeps
<1>5. CASE r.ok /\ job.stage = "terminal"
  <2>1. pc' = "save" /\ UNCHANGED <<job, tx, chainFailed>>
    BY <1>2, <1>5 DEF InvokeSucceeded
  <2>2. UNCHANGED <<seq, flight, landed, storage, archived>>
    BY <1>1 DEF ledger
  <2>3. r.ok \in BOOLEAN /\ r = [tx |-> r.tx, ok |-> r.ok]
    BY DEF TxType
  <2>4. r.ok = TRUE
    BY <1>5, <2>3
  <2>5. [tx |-> tx, ok |-> TRUE] \in landed
    BY <1>2, <2>3, <2>4
  <2>6. Txs' = Txs /\ Signed' = Signed /\ CallOf(job)' = CallOf(job)
    BY <1>1, <2>1, <2>2 DEF Txs, Signed, CallOf
  <2>7. LoopType'
    BY <1>1, <2>1 DEF LoopType, AtRest, InTx, Jobs
  <2>8. TxType'
    BY <1>1, <2>1, <2>2, <2>6 DEF TxType
  <2>9. Running'
    BY <1>1, <1>5, <2>1, <2>2, <2>5, <2>6 DEF Running, InTx
  <2>10. Fresh'
    BY <1>1, <2>1, <2>2 DEF Fresh
  <2>11. Taken' /\ TakesEffectOnce' /\ SimulationHolds'
    BY <1>1, <2>2 DEF Taken, TakesEffectOnce, SimulationHolds
  <2>12. HashIsProof'
    BY <1>1, <2>2 DEF HashIsProof, Written
  <2> QED BY <2>7, <2>8, <2>9, <2>10, <2>11, <2>12
<1>6. CASE r.ok /\ job.stage # "terminal"
  <2>1. InvokeFailed(job.expired)
    BY <1>2, <1>6 DEF InvokeSucceeded, InvokeFailed
  <2> QED BY <1>4, <2>1
<1> QED BY <1>2, <1>4, <1>5, <1>6

-----------------------------------------------------------------------------
(* The network.                                                            *)

(* When the sequence number moves on, nothing that is left can be next.    *)
LEMMA CloseIsEmpty ==
    ASSUME TxType
    PROVE  Close(seq + 1) = {} /\ \A t \in Signed : t.seq # seq + 2
<1>1. seq \in Nat /\ flight \subseteq Signed
    BY DEF TxType
<1>2. \A t \in Signed : t.seq \in 1..(seq + 1)
    BY DEF Signed
<1>3. \A t \in Signed : ~ (t.seq > seq + 1) /\ t.seq # seq + 2
    BY <1>1, <1>2
<1> QED BY <1>1, <1>3 DEF Close

LEMMA LandKeeps == ASSUME ChainInv, NEW t \in flight, Land(t) PROVE ChainInv'
<1> USE DEF ChainInv
<1> DEFINE ok == ~ archived /\ Answer(storage, t.call) = "Ok"
           r == [tx |-> t, ok |-> ok]
<1>1. /\ t.seq = seq + 1 /\ seq' = seq + 1 /\ flight' = Close(seq + 1)
      /\ landed' = landed \union {r}
      /\ storage' = (IF ok THEN After(storage, t.call) ELSE storage)
      /\ UNCHANGED <<settled, hash, pc, job, tx, rows, done, chainFailed,
                     archived, built, outages>>
    BY DEF Land, db, sync, budgets
<1>2. t \in Signed /\ t.call \in Calls /\ seq \in Nat
    BY DEF TxType, Signed
<1>3. r \in [tx : Signed, ok : BOOLEAN] /\ r.tx = t /\ (r.ok <=> ok)
    BY <1>2
<1>4. ok => Answer(storage, t.call) = "Ok"
    OBVIOUS
<1>5. outages = 0 => ok
    BY <1>1 DEF Fresh
<1> HIDE DEF ok, r
<1>6. flight' = {} /\ \A u \in Signed : u.seq # seq + 2
    BY <1>1, CloseIsEmpty
<1>7. Signed \subseteq Signed' /\ Txs \subseteq Txs'
    BY <1>1, <1>2, TxsGrow DEF TxType
<1>8. ok => /\ Kept(storage', t.call)
            /\ storage' \in [Orders -> Statuses \union {Absent}]
    BY <1>1, <1>2, <1>4, OkIsKept DEF TxType
<1>9. storage' \in [Orders -> Statuses \union {Absent}]
    BY <1>1, <1>8 DEF TxType
<1>10. landed \subseteq [tx : Signed', ok : BOOLEAN] /\ r \in [tx : Signed', ok : BOOLEAN]
    BY <1>3, <1>7 DEF TxType
<1>11. TxType'
    BY <1>1, <1>2, <1>6, <1>7, <1>9, <1>10 DEF TxType
<1>12. LoopType'
    BY <1>1 DEF LoopType, Jobs
<1>13. CallOf(job)' = CallOf(job)
    BY <1>1 DEF CallOf
<1>14. Running'
    BY <1>1, <1>7, <1>13 DEF Running
<1>15. Fresh'
  <2>1. pc' = "send" => tx' \in Signed
    BY <1>1 DEF Running, InTx
  <2>2. seq' + 1 = seq + 2
    BY <1>1, <1>2
  <2> QED BY <1>1, <1>6, <2>1, <2>2 DEF Fresh
<1>16. \A q \in landed : q.tx \in Signed /\ q.tx.call \in Calls
    BY DEF TxType, Signed
<1>17. \A q \in landed : q.ok => Kept(storage', q.tx.call)
    BY <1>1, <1>2, <1>4, <1>16, KeptStays DEF Taken, TxType
<1>18. Taken'
    BY <1>1, <1>3, <1>8, <1>17 DEF Taken
<1>19. ok => \A q \in landed : q.ok => q.tx.call # t.call
    BY <1>4, <1>16, KeptIsRefused DEF Taken, TxType
<1>20. TakesEffectOnce'
    BY <1>1, <1>3, <1>19 DEF TakesEffectOnce
<1>21. SimulationHolds'
    BY <1>1, <1>3, <1>5 DEF SimulationHolds
<1>22. HashIsProof'
    BY <1>1, <1>11, <1>18, ProofHolds DEF HashIsProof
<1> QED BY <1>11, <1>12, <1>14, <1>15, <1>18, <1>20, <1>21, <1>22

(* Transactions that pass their time bounds, transactions of the operator, *)
(* and archival.                                                           *)
LEMMA NetworkKeeps ==
    ASSUME ChainInv, (\E t \in flight : Drop(t)) \/ Foreign \/ Archive
    PROVE  ChainInv'
<1> USE DEF ChainInv
<1>1. /\ seq \in Nat /\ outages \in Nat
    BY DEF TxType
<1>2. /\ seq' \in {seq, seq + 1} /\ flight' \subseteq flight
      /\ seq' = seq + 1 => flight' = {}
      /\ UNCHANGED <<settled, hash, pc, job, tx, rows, done, chainFailed,
                     landed, storage, built>>
    BY <1>1, CloseIsEmpty DEF Drop, Foreign, Archive, db, sync
<1>3. outages' \in {outages, outages + 1}
    BY DEF Drop, Foreign, Archive, budgets
<1>4. outages' = 0 => outages = 0 /\ ~ archived'
  <2>1. CASE \E t \in flight : Drop(t)
    <3>1. UNCHANGED <<archived, outages>>
      BY <2>1 DEF Drop, budgets
    <3> QED BY <3>1 DEF Fresh
  <2>2. CASE Foreign
    <3>1. archived' = FALSE /\ outages' = outages
      BY <2>2 DEF Foreign
    <3>2. ~ archived'
      BY <3>1
    <3> QED BY <3>1, <3>2
  <2>3. CASE Archive
    <3>1. outages' = outages + 1
      BY <2>3 DEF Archive
    <3> QED BY <1>1, <3>1
  <2> QED BY <2>1, <2>2, <2>3
<1>5. Signed \subseteq Signed' /\ Txs \subseteq Txs'
    BY <1>1, <1>2, TxsGrow DEF TxType
<1>6. landed \subseteq [tx : Signed', ok : BOOLEAN]
    BY <1>5 DEF TxType
<1>7. seq' \in Nat /\ outages' \in Nat
    BY <1>1, <1>2, <1>3
<1>8. TxType'
    BY <1>2, <1>5, <1>6, <1>7 DEF TxType
<1>9. LoopType'
    BY <1>2 DEF LoopType, Jobs
<1>10. CallOf(job)' = CallOf(job)
    BY <1>2 DEF CallOf
<1>11. Running'
    BY <1>2, <1>5, <1>10 DEF Running
<1>12. \A t \in flight' : t.seq = seq' + 1 => Answer(storage', t.call) = "Ok"
    BY <1>2 DEF Fresh
<1>13. pc' = "send" /\ tx'.seq = seq' + 1 => Answer(storage', tx'.call) = "Ok"
  <2>1. CASE seq' = seq
    BY <1>2, <2>1 DEF Fresh
  <2>2. CASE seq' = seq + 1
    <3>1. pc' = "send" => tx \in Signed /\ tx' = tx
      BY <1>2 DEF Running, InTx
    <3>2. seq' + 1 = seq + 2
      BY <1>1, <2>2
    <3> QED BY <3>1, <3>2, CloseIsEmpty
  <2> QED BY <1>2, <2>1, <2>2
<1>14. Fresh'
    BY <1>4, <1>12, <1>13 DEF Fresh
<1>15. Taken' /\ TakesEffectOnce'
    BY <1>2 DEF Taken, TakesEffectOnce
<1>16. SimulationHolds'
    BY <1>2, <1>4 DEF SimulationHolds
<1>17. HashIsProof'
    BY <1>2 DEF HashIsProof, Written
<1> QED BY <1>8, <1>9, <1>11, <1>14, <1>15, <1>16, <1>17

(* Every step keeps the invariant.                                         *)
LEMMA ChainKeeps == ChainInv /\ [Next]_vars => ChainInv'
<1> SUFFICES ASSUME ChainInv, [Next]_vars PROVE ChainInv'
    OBVIOUS
<1>1. CASE UNCHANGED vars
  <2>1. UNCHANGED <<settled, hash, pc, job, tx, rows, done, chainFailed, seq, flight,
                    landed, storage, archived, built, outages>>
    BY <1>1 DEF vars, db, sync, ledger, budgets
  <2> QED BY <2>1 DEF ChainInv, LoopType, TxType, Running, Fresh, Taken, TakesEffectOnce,
            SimulationHolds, HashIsProof, Written, Jobs, Signed, Txs, CallOf
<1>2. CASE \/ \E o \in Orders : Settle(o) \/ SettleOnly(o)
           \/ SyncChain \/ SyncSkip \/ SyncTry \/ SyncEnd
    BY <1>2, LoopKeeps
<1>3. CASE GiveUp \/ AddressFails \/ Expired \/ RpcFails \/ SaveHashFails \/ Crash
    BY <1>3, FailuresKeep
<1>4. CASE LoadAccount \/ Simulate \/ Send \/ SendUnknown \/ Confirm \/ SaveHash
    BY <1>4, LoadAccountKeeps, SimulateKeeps, SendKeeps, ConfirmKeeps, SaveHashKeeps
<1>5. ASSUME NEW t \in flight, Land(t) PROVE ChainInv'
    BY <1>5, LandKeeps
<1>6. CASE (\E t \in flight : Drop(t)) \/ Foreign \/ Archive
    BY <1>6, NetworkKeeps
<1> QED BY <1>1, <1>2, <1>3, <1>4, <1>5, <1>6 DEF Next, Watch, Failure

LEMMA ChainInvariance == Spec => []ChainInv
BY ChainStarts, ChainKeeps, PTL DEF Spec

-----------------------------------------------------------------------------
(* The columns, the watcher's variables and the ledger are well typed; no  *)
(* order gets more than MaxAttempts rounds of syncChain.                   *)
THEOREM TypeCorrect == Spec => []TypeOK
<1>1. ChainInv => TypeOK
  <2> SUFFICES ASSUME ChainInv PROVE TypeOK
    OBVIOUS
  <2>1. Signed \subseteq Txs
    BY DEF Signed, Txs
  <2>2. NoJob \notin Jobs
    BY OrdersAssumption DEF ChainInv, LoopType, Jobs, NoJob
  <2>3. job \in Jobs => job.order \in settled /\ job.to \in Statuses
    BY DEF Jobs
  <2>4. {r.tx : r \in landed} \subseteq Txs
    BY <2>1 DEF ChainInv, TxType
  <2>5. /\ pc \in {"loop", "sync", "load", "simulate", "send", "wait", "save"}
        /\ pc \in {"loop", "sync"} <=> job = NoJob
        /\ job = NoJob \/ (job.order \in settled /\ job.to \in Statuses)
    BY <2>2, <2>3 DEF ChainInv, LoopType, AtRest, InTx
  <2>6. rows \subseteq [order : settled, to : Statuses]
    BY VerdictsAssumption DEF ChainInv, LoopType, RowsOf
  <2> QED BY <2>1, <2>4, <2>5, <2>6 DEF ChainInv, LoopType, TxType, TypeOK
<1> QED BY <1>1, ChainInvariance, PTL

(* However often writeChain repeats a call, after timeouts, lost answers   *)
(* and restarts, the contract accepts it once.                             *)
THEOREM CallsTakeEffectOnce == Spec => []TakesEffectOnce
<1>1. ChainInv => TakesEffectOnce
    BY DEF ChainInv
<1> QED BY <1>1, ChainInvariance, PTL

(* While nothing is archived, what passed its simulation does not fail on  *)
(* the ledger.                                                             *)
THEOREM SimulationsHold == Spec => []SimulationHolds
<1>1. ChainInv => SimulationHolds
    BY DEF ChainInv
<1> QED BY <1>1, ChainInvariance, PTL

(* A stored hash proves the verdict that the contract holds.               *)
THEOREM HashesAreProof == Spec => []HashIsProof
<1>1. ChainInv => HashIsProof
    BY DEF ChainInv
<1> QED BY <1>1, ChainInvariance, PTL
-----------------------------------------------------------------------------
(* The refinement of Publication.                                          *)

(* What a transaction tells the contract has been committed to Postgres.   *)
Meant(c) ==
    /\ c.order \in settled
    /\ OrderFinal(c.to.status) => c.to = VerdictOf[c.order]

(* What is signed was decided; what is being written, or waits for it in   *)
(* this round, has no hash yet; what has one is settled.                   *)
PublishInv ==
    /\ \A t \in flight : Meant(t.call)
    /\ \A r \in rows : hash[r.order] = NoTx
    /\ pc \notin AtRest =>
           hash[job.order] = NoTx /\ \A r \in rows : r.order # job.order
    /\ \A o \in Orders : hash[o] # NoTx => o \in settled

(* The state of Publication, from the three that hold it.                  *)
DecidedIn(s) == [o \in Orders |-> IF o \in s THEN VerdictOf[o] ELSE Absent]
PublishedIn(st) == [o \in Orders |-> IF OrderFinal(st[o].status) THEN st[o] ELSE Absent]
AnnouncedIn(st) == {o \in Orders : st[o] # Absent}
ReceiptsIn(h) == {o \in Orders : h[o] # NoTx}

(* What a step of the storage can be for Publication.                      *)
Announces(o) ==
    /\ PublishedIn(storage') = PublishedIn(storage)
    /\ AnnouncedIn(storage') = AnnouncedIn(storage) \union {o}

Publishes(o) ==
    /\ o \in AnnouncedIn(storage) /\ PublishedIn(storage)[o] = Absent
    /\ PublishedIn(storage') = [PublishedIn(storage) EXCEPT ![o] = VerdictOf[o]]
    /\ AnnouncedIn(storage') = AnnouncedIn(storage)

(* Verdicts are decisions.                                                 *)
LEMMA VerdictFacts ==
    ASSUME NEW o \in Orders
    PROVE  VerdictOf[o] \in {s \in Statuses : OrderFinal(s.status)} /\ VerdictOf[o] # Absent
BY VerdictsAssumption, StatusFacts

(* The calls of a job are meant.                                           *)
LEMMA JobMeans ==
    ASSUME LoopType, job \in Jobs
    PROVE  Meant(CallOf(job))
<1>1. /\ job.order \in settled /\ job.to = VerdictOf[job.order]
      /\ job.stage \in {"create", "detect", "terminal"}
    BY DEF Jobs
<1>2. CASE job.stage = "terminal"
    BY <1>1, <1>2 DEF Meant, CallOf, SetCall
<1>3. CASE job.stage = "create"
    BY <1>1, <1>3 DEF Meant, CallOf, CreateCall, Status, OrderFinal,
       AwaitingPayment, Validated, Rejected
<1>4. CASE job.stage = "detect"
    BY <1>1, <1>4 DEF Meant, CallOf, SetCall, Status, OrderFinal,
       PaymentDetected, Validated, Rejected
<1> QED BY <1>1, <1>2, <1>3, <1>4

(* Steps that decide, publish and file nothing.                            *)
LEMMA CalmKeeps ==
    ASSUME ChainInv, PublishInv, UNCHANGED <<settled, hash, storage>>,
           rows' \subseteq rows,
           flight' \subseteq flight \union (IF pc \in InTx THEN {tx} ELSE {}),
           pc' \notin AtRest => pc \notin AtRest /\ job'.order = job.order
    PROVE  PublishInv'
<1>1. pc \in InTx => Meant(tx.call)
    BY JobMeans DEF ChainInv, Running, LoopType, AtRest, InTx
<1>2. \A c : Meant(c)' <=> Meant(c)
    BY DEF Meant
<1>3. \A t \in flight' : Meant(t.call)
    BY <1>1 DEF PublishInv
<1>4. (\A t \in flight : Meant(t.call))'
    BY <1>3 DEF Meant
<1> QED BY <1>4 DEF PublishInv

(* What a failed or a successful invocation does to the job.               *)
LEMMA SameOrder ==
    ASSUME ChainInv, pc \notin AtRest,
           \/ \E ok \in BOOLEAN : Return(ok)
           \/ \E expired \in BOOLEAN : InvokeFailed(expired)
           \/ InvokeSucceeded
    PROVE  pc' \notin AtRest => job'.order = job.order
<1>1. job \in Jobs
    BY DEF ChainInv, LoopType
<1>2. ASSUME NEW expired, NextStage(expired) PROVE job'.order = job.order
    BY <1>1, <1>2 DEF NextStage, Jobs
<1>3. ASSUME NEW ok, Return(ok) PROVE pc' \in AtRest
    BY <1>3 DEF Return, AtRest
<1> QED BY <1>2, <1>3 DEF InvokeFailed, InvokeSucceeded

LEMMA CalmSteps ==
    ASSUME ChainInv, PublishInv,
           \/ SyncSkip \/ SyncEnd \/ LoadAccount \/ Simulate \/ Send \/ SendUnknown
           \/ Confirm \/ GiveUp \/ AddressFails \/ Expired \/ RpcFails \/ SaveHashFails \/ Crash
           \/ Foreign \/ Archive \/ (\E t \in flight : Drop(t)) \/ UNCHANGED vars
    PROVE  PublishInv' /\ UNCHANGED <<settled, hash, storage>>
<1>e. pc \notin AtRest => job.expired \in BOOLEAN
    BY DEF ChainInv, LoopType, Jobs
<1>1. CASE SyncSkip \/ SyncEnd \/ Crash
  <2>1. /\ UNCHANGED <<settled, hash, storage, flight>> /\ rows' \subseteq rows
        /\ pc' \in AtRest
    BY <1>1 DEF SyncSkip, SyncEnd, Crash, db, ledger, AtRest
  <2> QED BY <2>1, CalmKeeps
<1>2. CASE LoadAccount
  <2>1. /\ UNCHANGED <<settled, hash, storage, flight, rows, job>> /\ pc \notin AtRest
    BY <1>2 DEF LoadAccount, db, ledger, sync, AtRest
  <2> QED BY <2>1, CalmKeeps
<1>3. CASE Simulate \/ Confirm \/ GiveUp \/ AddressFails \/ Expired \/ RpcFails \/ SaveHashFails
  <2>1. /\ UNCHANGED <<settled, hash, storage, flight, rows>> /\ pc \notin AtRest
        /\ \/ \E ok \in BOOLEAN : Return(ok)
           \/ \E expired \in BOOLEAN : InvokeFailed(expired)
           \/ InvokeSucceeded
           \/ job' = job
    BY <1>3, <1>e DEF Simulate, Confirm, GiveUp, AddressFails, Expired, RpcFails, SaveHashFails,
       db, ledger, AtRest
  <2>2. pc' \notin AtRest => job'.order = job.order
    BY <2>1, SameOrder
  <2> QED BY <2>1, <2>2, CalmKeeps
<1>4. CASE Send \/ SendUnknown
  <2>1. /\ UNCHANGED <<settled, hash, storage, rows>> /\ pc = "send"
        /\ flight' \subseteq flight \union {tx}
        /\ InvokeFailed(job.expired) \/ job' = job
    BY <1>4 DEF Send, SendUnknown, db
  <2>2. pc \notin AtRest /\ pc \in InTx
    BY <2>1 DEF AtRest, InTx
  <2>3. pc' \notin AtRest => job'.order = job.order
    BY <1>e, <2>1, <2>2, SameOrder
  <2> QED BY <2>1, <2>2, <2>3, CalmKeeps
<1>5. CASE Foreign \/ Archive \/ (\E t \in flight : Drop(t)) \/ UNCHANGED vars
  <2>1. /\ UNCHANGED <<settled, hash, storage, rows, pc, job>> /\ flight' \subseteq flight
    BY <1>5 DEF Foreign, Archive, Drop, Close, vars, db, ledger, sync
  <2> QED BY <2>1, CalmKeeps
<1> QED BY <1>1, <1>2, <1>3, <1>4, <1>5

(* syncChain takes up rows without a hash.                                 *)
LEMMA SyncIsCalm ==
    ASSUME ChainInv, PublishInv, SyncChain \/ SyncTry
    PROVE  PublishInv' /\ UNCHANGED <<settled, hash, storage>>
<1>1. CASE SyncChain
  <2>1. /\ UNCHANGED <<settled, hash, storage, flight>> /\ pc' \in AtRest
        /\ rows' = {Row(o) : o \in SyncRows}
    BY <1>1 DEF SyncChain, db, ledger, AtRest
  <2>2. ASSUME NEW r \in rows' PROVE hash[r.order] = NoTx
    <3>1. PICK o \in SyncRows : r = Row(o)
      BY <2>1
    <3>2. r.order = o
      BY <3>1 DEF Row
    <3> QED BY <3>2 DEF SyncRows, Unwritten
  <2> QED BY <2>1, <2>2 DEF PublishInv, Meant
<1>2. CASE SyncTry
  <2> DEFINE r == First(rows)
  <2>1. r \in rows /\ \A q \in rows : q # r => q.order # r.order
    <3>1. rows \in SUBSET RowsOf(Orders) /\ rows # {}
      BY <1>2 DEF SyncTry, ChainInv, LoopType, RowsOf
    <3>2. r \in rows
      BY <3>1, FirstIsOne
    <3> QED BY <3>1, <3>2 DEF RowsOf
  <2>2. /\ UNCHANGED <<settled, hash, storage, flight>> /\ rows' = rows \ {r}
        /\ job' = Job(r.order, r.to, "sync")
    BY <1>2 DEF SyncTry, Start, db, ledger
  <2> HIDE DEF r
  <2>3. hash[job'.order] = NoTx /\ \A q \in rows' : q.order # job'.order
    BY <2>1, <2>2 DEF PublishInv, Job
  <2> QED BY <2>2, <2>3 DEF PublishInv, Meant
<1> QED BY <1>1, <1>2

(* An order is decided.                                                    *)
LEMMA SettleDecides ==
    ASSUME ChainInv, PublishInv, NEW o \in Orders, Settle(o) \/ SettleOnly(o)
    PROVE  /\ PublishInv' /\ UNCHANGED <<hash, storage>>
           /\ DecidedIn(settled)[o] = Absent
           /\ DecidedIn(settled') = [DecidedIn(settled) EXCEPT ![o] = VerdictOf[o]]
<1>1. /\ pc = "loop" /\ o \notin settled /\ settled' = settled \union {o}
      /\ UNCHANGED <<hash, rows, flight, storage>>
      /\ pc' = "loop" \/ job' = Job(o, VerdictOf[o], "process")
    BY DEF Settle, SettleOnly, Start, sync, ledger
<1>2. hash[o] = NoTx /\ \A r \in rows : r.order # o
    BY <1>1 DEF PublishInv, ChainInv, LoopType, RowsOf
<1>3. pc' \notin AtRest => hash[job'.order] = NoTx /\ \A r \in rows : r.order # job'.order
    BY <1>1, <1>2 DEF Job, AtRest
<1>4. PublishInv'
    BY <1>1, <1>3 DEF PublishInv, Meant
<1> QED BY <1>1, <1>4 DEF DecidedIn

(* A transaction that lands announces an order that was decided, publishes *)
(* what was decided, or does nothing.                                      *)
LEMMA LandPublishes ==
    ASSUME ChainInv, PublishInv, NEW t \in flight, Land(t)
    PROVE  /\ PublishInv' /\ UNCHANGED <<settled, hash>>
           /\ \/ UNCHANGED storage
              \/ \E o \in Orders : o \in settled /\ Announces(o)
              \/ \E o \in Orders : o \in settled /\ Publishes(o)
<1>1. /\ UNCHANGED <<settled, hash, rows, pc, job>> /\ flight' \subseteq flight
    BY DEF Land, Close, db, sync
<1>2. PublishInv'
    BY <1>1 DEF PublishInv, Meant
<1>3. Meant(t.call) /\ t.call \in Calls
    BY DEF PublishInv, ChainInv, TxType, Signed
<1> DEFINE c == t.call
<1>4. /\ c.order \in Orders /\ c.to \in Statuses /\ c.to # Absent
      /\ c.fn = "create_order" => ~ OrderFinal(c.to.status)
    BY <1>3, CallFacts, StatusFacts DEF OrderFinal, AwaitingPayment, Validated, Rejected
<1>5. storage' = storage \/ (Answer(storage, c) = "Ok" /\ storage' = [storage EXCEPT ![c.order] = c.to])
    BY DEF Land, After
<1> HIDE DEF c
<1>6. ASSUME Answer(storage, c) = "Ok", storage' = [storage EXCEPT ![c.order] = c.to]
      PROVE  c.order \in settled /\ (Announces(c.order) \/ Publishes(c.order))
  <2>1. ~ OrderFinal(storage[c.order].status)
    <3>1. CASE c.fn = "create_order"
      <4>1. storage[c.order] = Absent
        BY <1>6, <3>1 DEF Answer
      <4> QED BY <4>1 DEF OrderFinal, Absent, Status, Validated, Rejected
    <3>2. CASE c.fn # "create_order"
      <4>1. can_transition(storage[c.order], c.to)
        BY <1>6, <3>2 DEF Answer
      <4> QED BY <4>1 DEF can_transition, OrderFinal, AwaitingPayment, PaymentDetected,
             Validated, Rejected
    <3> QED BY <3>1, <3>2
  <2>2. storage \in [Orders -> Statuses \union {Absent}]
    BY DEF ChainInv, TxType
  <2>3. /\ storage'[c.order] = c.to
        /\ \A p \in Orders : p # c.order => storage'[p] = storage[p]
    BY <1>4, <1>6, <2>2
  <2>4. c.order \in settled
    BY <1>3 DEF Meant, c
  <2>5. CASE OrderFinal(c.to.status)
    <3>1. c.to = VerdictOf[c.order]
      BY <1>3, <2>5 DEF Meant, c
    <3>2. storage[c.order] # Absent
      BY <1>4, <1>6, <2>5 DEF Answer
    <3>3. AnnouncedIn(storage') = AnnouncedIn(storage)
      BY <1>4, <2>3, <3>2 DEF AnnouncedIn
    <3>4. PublishedIn(storage') = [PublishedIn(storage) EXCEPT ![c.order] = VerdictOf[c.order]]
      BY <1>4, <2>3, <2>5, <3>1 DEF PublishedIn
    <3>5. PublishedIn(storage)[c.order] = Absent
      BY <1>4, <2>1 DEF PublishedIn
    <3> QED BY <1>4, <2>4, <3>2, <3>3, <3>4, <3>5 DEF Publishes, AnnouncedIn
  <2>6. CASE ~ OrderFinal(c.to.status)
    <3>1. PublishedIn(storage') = PublishedIn(storage)
      BY <1>4, <2>1, <2>3, <2>6 DEF PublishedIn
    <3>2. AnnouncedIn(storage') = AnnouncedIn(storage) \union {c.order}
      BY <1>4, <2>3 DEF AnnouncedIn
    <3> QED BY <2>4, <3>1, <3>2 DEF Announces
  <2> QED BY <2>5, <2>6
<1> QED BY <1>1, <1>2, <1>4, <1>5, <1>6

(* A hash is filed, for an order that had none and is on chain.            *)
LEMMA SaveFiles ==
    ASSUME ChainInv, PublishInv, SaveHash
    PROVE  /\ PublishInv' /\ UNCHANGED <<settled, storage>>
           /\ \E o \in Orders :
                 /\ PublishedIn(storage)[o] # Absent
                 /\ o \notin ReceiptsIn(hash)
                 /\ ReceiptsIn(hash') = ReceiptsIn(hash) \union {o}
<1> DEFINE o == job.order
<1>1. /\ pc = "save" /\ hash' = [hash EXCEPT ![o] = tx]
      /\ UNCHANGED <<settled, rows, storage, flight>> /\ pc' \in AtRest
    BY DEF SaveHash, Return, ledger, AtRest
<1>2. /\ job \in Jobs /\ o \in settled /\ o \in Orders /\ pc \notin AtRest
      /\ hash \in [Orders -> Txs]
    BY <1>1 DEF ChainInv, LoopType, TxType, AtRest, Jobs
<1>3. /\ tx \in Signed /\ tx.call = SetCall(o, VerdictOf[o])
      /\ [tx |-> tx, ok |-> TRUE] \in landed
    BY <1>1, <1>2, JobCalls DEF ChainInv, Running, InTx
<1>4. tx # NoTx
  <2>1. tx.id \in 1..built /\ built \in Nat
    BY <1>3 DEF Signed, ChainInv, TxType
  <2>2. tx.id # 0
    BY <2>1
  <2> QED BY <2>2 DEF NoTx
<1>5. storage[o] = VerdictOf[o]
  <2>1. Kept(storage, tx.call)
    BY <1>3 DEF ChainInv, Taken
  <2> QED BY <1>2, <1>3, <2>1, VerdictsAssumption DEF Kept, SetCall, OrderFinal
<1> HIDE DEF o
<1>6. PublishedIn(storage)[o] # Absent
    BY <1>2, <1>5, VerdictFacts DEF PublishedIn
<1>7. hash[o] = NoTx /\ \A r \in rows : r.order # o
    BY <1>2 DEF PublishInv, o
<1>8. ReceiptsIn(hash') = ReceiptsIn(hash) \union {o} /\ o \notin ReceiptsIn(hash)
    BY <1>1, <1>2, <1>4, <1>7 DEF ReceiptsIn
<1>9. \A p \in Orders : p # o => hash'[p] = hash[p]
    BY <1>1, <1>2
<1>a. \A r \in rows : r.order \in Orders
    BY DEF ChainInv, LoopType, RowsOf
<1>10. PublishInv'
    BY <1>1, <1>2, <1>7, <1>9, <1>a DEF PublishInv, Meant
<1> QED BY <1>1, <1>2, <1>6, <1>8, <1>10

(* Every step keeps the invariant and is one of Publication, or none.      *)
LEMMA PublishSteps ==
    ASSUME ChainInv, PublishInv, [Next]_vars
    PROVE  /\ PublishInv'
           /\ \/ UNCHANGED <<settled, hash, storage>>
              \/ /\ UNCHANGED <<hash, storage>>
                 /\ \E o \in Orders :
                       /\ DecidedIn(settled)[o] = Absent
                       /\ DecidedIn(settled') = [DecidedIn(settled) EXCEPT ![o] = VerdictOf[o]]
              \/ /\ UNCHANGED <<settled, hash>>
                 /\ \E o \in Orders : o \in settled /\ (Announces(o) \/ Publishes(o))
              \/ /\ UNCHANGED <<settled, storage>>
                 /\ \E o \in Orders :
                       /\ PublishedIn(storage)[o] # Absent
                       /\ o \notin ReceiptsIn(hash)
                       /\ ReceiptsIn(hash') = ReceiptsIn(hash) \union {o}
<1>1. CASE \E o \in Orders : Settle(o) \/ SettleOnly(o)
    BY <1>1, SettleDecides
<1>2. CASE SyncChain \/ SyncTry
    BY <1>2, SyncIsCalm
<1>3. CASE \/ SyncSkip \/ SyncEnd \/ LoadAccount \/ Simulate \/ Send \/ SendUnknown
           \/ Confirm \/ GiveUp \/ AddressFails \/ Expired \/ RpcFails \/ SaveHashFails \/ Crash
           \/ Foreign \/ Archive \/ (\E t \in flight : Drop(t)) \/ UNCHANGED vars
    BY <1>3, CalmSteps
<1>4. CASE \E t \in flight : Land(t)
    BY <1>4, LandPublishes
<1>5. CASE SaveHash
    BY <1>5, SaveFiles
<1> QED BY <1>1, <1>2, <1>3, <1>4, <1>5 DEF Next, Watch, Failure

LEMMA PublishInvariance == Spec => [](ChainInv /\ PublishInv)
<1>1. Init => PublishInv
    BY DEF Init, PublishInv, AtRest
<1> QED BY <1>1, ChainStarts, ChainKeeps, PublishSteps, PTL DEF Spec

(* Writing to the contract implements Publication: each order is decided   *)
(* once; the contract is given that decision, after it was committed, once *)
(* and no other; the hash is filed once, for what the contract holds.      *)
THEOREM PublishesAsDecided == Spec => PublishedAsDecided
<1>1. Init => Published!Init
  <2>1. ~ OrderFinal(Absent.status)
    BY DEF OrderFinal, Absent, Status, Validated, Rejected
  <2> QED BY <2>1 DEF Init, Published!Init, Final
<1>2. ChainInv /\ PublishInv /\ [Next]_vars =>
        [Published!Next]_<<[o \in Orders |-> IF o \in settled THEN VerdictOf[o] ELSE Absent],
                           {o \in Orders : storage[o] # Absent},
                           [o \in Orders |-> IF Final(o) THEN storage[o] ELSE Absent],
                           {o \in Orders : hash[o] # NoTx}>>
  <2> SUFFICES ASSUME ChainInv, PublishInv, [Next]_vars,
                      <<DecidedIn(settled'), AnnouncedIn(storage'), PublishedIn(storage'),
                        ReceiptsIn(hash')>>
                        # <<DecidedIn(settled), AnnouncedIn(storage), PublishedIn(storage),
                            ReceiptsIn(hash)>>
               PROVE  Published!Next
    BY DEF DecidedIn, AnnouncedIn, PublishedIn, ReceiptsIn, Final
  <2>1. CASE /\ UNCHANGED <<hash, storage>>
             /\ \E o \in Orders :
                   /\ DecidedIn(settled)[o] = Absent
                   /\ DecidedIn(settled') = [DecidedIn(settled) EXCEPT ![o] = VerdictOf[o]]
    BY <2>1, VerdictFacts DEF Published!Next, Published!Decide, DecidedIn, Final
  <2>2. CASE /\ UNCHANGED <<settled, hash>>
             /\ \E o \in Orders : o \in settled /\ (Announces(o) \/ Publishes(o))
    <3>1. PICK o \in Orders : o \in settled /\ (Announces(o) \/ Publishes(o))
      BY <2>2
    <3>2. CASE Announces(o)
      BY <2>2, <3>1, <3>2, VerdictFacts DEF Announces, Published!Next, Published!Announce,
         AnnouncedIn, PublishedIn, Final
    <3>3. CASE Publishes(o)
      BY <2>2, <3>1, <3>3, VerdictFacts DEF Publishes, Published!Next, Published!Publish,
         AnnouncedIn, PublishedIn, Final
    <3> QED BY <3>1, <3>2, <3>3
  <2>3. CASE /\ UNCHANGED <<settled, storage>>
             /\ \E o \in Orders :
                   /\ PublishedIn(storage)[o] # Absent
                   /\ o \notin ReceiptsIn(hash)
                   /\ ReceiptsIn(hash') = ReceiptsIn(hash) \union {o}
    BY <2>3 DEF Published!Next, Published!File, PublishedIn, ReceiptsIn, Final
  <2> QED BY <2>1, <2>2, <2>3, PublishSteps
<1> QED BY <1>1, <1>2, PublishInvariance, PTL DEF Spec, PublishedAsDecided, Published!Spec
-----------------------------------------------------------------------------
(* When the window of the sync query is wide enough.                       *)
Spent == {o \in Unwritten : Exhausted(o)}

(* The comment that the query has room to step over the orders that have   *)
(* used up their attempts (watcher.go:306) is right as long as there are   *)
(* fewer of them than rows: the first order with attempts left is in it.   *)
THEOREM WindowSuffices == Spec => [](Cardinality(Spent) < SyncWindow => WindowHasRoom)
<1>1. ASSUME ChainInv, Cardinality(Spent) < SyncWindow, Retryable # {}
      PROVE  SyncRows \intersect Retryable # {}
  <2>1. Unwritten \subseteq Orders /\ Retryable \subseteq Unwritten
    BY <1>1 DEF ChainInv, LoopType, Unwritten, Retryable
  <2>2. PICK o \in Retryable : \A p \in Retryable : o <= p
    BY <1>1, <2>1, OldestIsOne
  <2> DEFINE before == {p \in Unwritten : p < o}
  <2>3. ASSUME NEW p \in before PROVE p \in Spent
    <3>1. p \in Unwritten /\ p < o /\ p \in Nat /\ o \in Nat
      BY <2>1, <2>2, OrdersAssumption
    <3>2. p \notin Retryable
      BY <2>2, <3>1
    <3>3. chainFailed[p] \in Int /\ MaxAttempts \in Int
      BY <1>1, <2>1, <3>1, SyncAssumption DEF ChainInv, LoopType
    <3> QED BY <3>1, <3>2, <3>3 DEF Retryable, Spent, Exhausted
  <2> HIDE DEF before
  <2>4. IsFiniteSet(Spent)
    BY <2>1, OrdersAssumption, FS_Subset DEF Spent
  <2>5. IsFiniteSet(before) /\ Cardinality(before) <= Cardinality(Spent)
    BY <2>3, <2>4, FS_Subset
  <2>6. Cardinality(before) < SyncWindow
    BY <1>1, <2>4, <2>5, FS_CardinalityType, SyncAssumption
  <2>7. o \in SyncRows
    BY <2>1, <2>2, <2>6 DEF SyncRows, before
  <2> QED BY <2>2, <2>7
<1>2. ChainInv => (Cardinality(Spent) < SyncWindow => WindowHasRoom)
    BY <1>1 DEF WindowHasRoom
<1> QED BY <1>2, ChainInvariance, PTL
=============================================================================
