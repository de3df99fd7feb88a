---------------------------- MODULE ChainWriter ----------------------------
(***************************************************************************)
(* Writing verdicts to the contract: writeChain and syncChain of the       *)
(* watcher, the RPC client of lib/libsoroban/client.go, the operator's     *)
(* account, the transactions in flight and the contract's storage.         *)
(*                                                                         *)
(* Orders are numbered in the order of created_at.  Settle stands for the  *)
(* commit of Watcher that settles an order; its verdict is a constant, and *)
(* every write to the contract takes it from the row as it was read.       *)
(*                                                                         *)
(* One invocation is LoadAccount, Simulate, Send and waiting: four steps,  *)
(* because transactions land, are dropped or are overtaken in between.     *)
(***************************************************************************)
EXTENDS Integers, Sequences, FiniteSets, OrderContract

CONSTANTS
    VerdictOf,      \* the final status Watcher gives each order
    SyncBatch,      \* chainSyncBatch; 5 in the code
    SyncWindow,     \* rows of the sync query; chainSyncBatch * 4 in the code
    MaxAttempts,    \* chainSyncMaxAttempts; 3 in the code
    MaxFaults,      \* bound: failed calls, crashes
    MaxOutages,     \* bound: times the contract's entries are archived
    MaxForeign      \* bound: transactions the operator sends by hand

ASSUME OrdersAssumption   == Orders \subseteq Nat /\ IsFiniteSet(Orders)
ASSUME VerdictsAssumption == \A o \in Orders : VerdictOf[o] \in Statuses /\ OrderFinal(VerdictOf[o].status)
ASSUME SyncAssumption     == SyncBatch \in Nat \ {0} /\ SyncWindow \in Nat \ {0} /\ MaxAttempts \in Nat \ {0}

VARIABLES
    settled,      \* orders whose row is validated or rejected
    malformed,    \* orders whose buyer_wallet is no Stellar key: validAccount looks
                  \* at its length and its first letter only
    hash,         \* column on_chain_tx_hash: a transaction, or NoTx
    pc,           \* where the watcher is
    job,          \* the writeChain that is running
    tx,           \* the transaction of the running invocation
    rows,         \* what is left of the rows syncChain has read, as it read them
    done,         \* rows syncChain has tried in this round
    chainFailed,  \* failed rounds of each order, in RAM
    seq,          \* the operator account's sequence number on the ledger
    flight,       \* signed transactions that can still land
    landed,       \* transactions on the ledger, with their result
    storage,      \* the contract's entries
    archived,     \* are the contract's entries archived?
    built,        \* transactions signed so far
    faults, outages, foreign

db      == <<settled, malformed, hash>>
ledger  == <<seq, flight, landed, storage, archived>>
sync    == <<rows, done, chainFailed>>
budgets == <<faults, outages, foreign>>
vars    == <<db, pc, job, tx, sync, ledger, built, budgets>>

NoTx  == [id |-> 0]
NoJob == [order |-> -1, to |-> Absent, stage |-> "none", source |-> "none", expired |-> FALSE]

(* Nobody pays from a wallet that does not exist: Match gets no further    *)
(* than the comparison of the wallets.                                     *)
CanBeMalformed ==
    {o \in Orders : VerdictOf[o].status = Rejected /\ VerdictOf[o].reason # Underpayment}

Init ==
    /\ settled = {}
    /\ malformed \in SUBSET CanBeMalformed
    /\ hash = [o \in Orders |-> NoTx]
    /\ pc = "loop"
    /\ job = NoJob
    /\ tx = NoTx
    /\ rows = {}
    /\ done = 0
    /\ chainFailed = [o \in Orders |-> 0]
    /\ seq = 0
    /\ flight = {}
    /\ landed = {}
    /\ storage = [o \in Orders |-> Absent]
    /\ archived = FALSE
    /\ built = 0
    /\ faults = 0 /\ outages = 0 /\ foreign = 0

Fault ==
    /\ faults < MaxFaults
    /\ faults' = faults + 1
    /\ UNCHANGED <<outages, foreign>>

-----------------------------------------------------------------------------
(* The watcher's loop and the order it settles.                            *)

(* writeChain(order, terminal, reason).                                    *)
Job(o, to, source) ==
    [order |-> o, to |-> to, stage |-> "create", source |-> source, expired |-> FALSE]

Start(o, to, source) ==
    /\ job' = Job(o, to, source)
    /\ pc' = "load"

(* process: the transaction commits and writeChain follows, with what the  *)
(* transaction has written.                                                *)
Settle(o) ==
    /\ pc = "loop"
    /\ o \notin settled
    /\ settled' = settled \union {o}
    /\ Start(o, VerdictOf[o], "process")
    /\ UNCHANGED <<malformed, hash, tx, sync, ledger, built, budgets>>

(* The commit went through but writeChain does not follow: its answer was  *)
(* lost, the process died, or it ran with --no-chain.                      *)
SettleOnly(o) ==
    /\ Fault
    /\ pc = "loop"
    /\ o \notin settled
    /\ settled' = settled \union {o}
    /\ UNCHANGED <<malformed, hash, pc, job, tx, sync, ledger, built>>

-----------------------------------------------------------------------------
(* syncChain.                                                              *)

Unwritten == {o \in settled : hash[o] = NoTx}

(* The query: ORDER BY created_at ASC LIMIT SyncWindow.                    *)
SyncRows ==
    {o \in Unwritten : Cardinality({p \in Unwritten : p < o}) < SyncWindow}

(* The row of an order: its status and, once rejected, the reason.         *)
Row(o) ==
    [order |-> o,
     to    |-> IF o \in settled THEN VerdictOf[o] ELSE Status(AwaitingPayment, NoReason)]

SyncChain ==
    /\ pc = "loop"
    /\ rows' = {Row(o) : o \in SyncRows}
    /\ done' = 0
    /\ pc' = "sync"
    /\ UNCHANGED <<db, job, tx, chainFailed, ledger, built, budgets>>

First(S) == CHOOSE r \in S : \A q \in S : r.order <= q.order

(* Mutant of Exhausted: one round too many.                                *)
ExhaustedLate(o) == chainFailed[o] > MaxAttempts

Exhausted(o) == chainFailed[o] >= MaxAttempts

(* Rows that have used up their attempts are passed over.                  *)
SyncSkip ==
    /\ pc = "sync"
    /\ rows # {}
    /\ Exhausted(First(rows).order)
    /\ rows' = rows \ {First(rows)}
    /\ UNCHANGED <<db, pc, job, tx, done, chainFailed, ledger, built, budgets>>

SyncTry ==
    /\ pc = "sync"
    /\ rows # {}
    /\ ~ Exhausted(First(rows).order)
    /\ done < SyncBatch
    /\ done' = done + 1
    /\ rows' = rows \ {First(rows)}
    /\ Start(First(rows).order, First(rows).to, "sync")
    /\ UNCHANGED <<db, tx, chainFailed, ledger, built, budgets>>

SyncEnd ==
    /\ pc = "sync"
    /\ rows # {} => ~ Exhausted(First(rows).order) /\ done >= SyncBatch
    /\ rows' = {}
    /\ done' = 0
    /\ pc' = "loop"
    /\ UNCHANGED <<db, job, tx, chainFailed, ledger, built, budgets>>

-----------------------------------------------------------------------------
(* writeChain: three invocations; only the last one has to succeed.        *)

CallOf(j) ==
    CASE j.stage = "create" -> CreateCall(j.order)
      [] j.stage = "detect" -> SetCall(j.order, Status(PaymentDetected, NoReason))
      [] OTHER              -> SetCall(j.order, j.to)

(* writeChain has returned ok; syncChain counts, process does not.         *)
Return(ok) ==
    /\ job' = NoJob
    /\ tx' = NoTx
    /\ pc' = IF job.source = "sync" THEN "sync" ELSE "loop"
    /\ chainFailed' =
          IF job.source = "sync"
            THEN [chainFailed EXCEPT ![job.order] = IF ok THEN 0 ELSE @ + 1]
            ELSE chainFailed

NextStage(expired) ==
    /\ job' = [job EXCEPT !.stage = IF @ = "create" THEN "detect" ELSE "terminal",
                          !.expired = expired]
    /\ tx' = NoTx
    /\ pc' = "load"
    /\ UNCHANGED chainFailed

(* Mutant of InvokeFailed: writeChain stops when payment_detected fails.   *)
InvokeFailedStops(expired) ==
    IF job.stage # "create" THEN Return(FALSE) ELSE NextStage(expired)

(* The invocation returned an error: logged for the first two, the end of  *)
(* writeChain for the last.                                                *)
InvokeFailed(expired) ==
    IF job.stage = "terminal" THEN Return(FALSE) ELSE NextStage(expired)

InvokeSucceeded ==
    IF job.stage = "terminal"
      THEN pc' = "save" /\ UNCHANGED <<job, tx, chainFailed>>
      ELSE NextStage(job.expired)

(* UPDATE ... SET on_chain_tx_hash.                                        *)
SaveHash ==
    /\ pc = "save"
    /\ hash' = [hash EXCEPT ![job.order] = tx]
    /\ Return(TRUE)
    /\ UNCHANGED <<settled, malformed, rows, done, ledger, built, budgets>>

(* The update fails: logged, and writeChain still returns true.            *)
SaveHashFails ==
    /\ Fault
    /\ pc = "save"
    /\ Return(TRUE)
    /\ UNCHANGED <<db, rows, done, ledger, built>>

-----------------------------------------------------------------------------
(* invoke.                                                                 *)

(* Client.CreateOrder encodes the buyer's address first.                   *)
NoAddress == job.stage = "create" /\ job.order \in malformed

(* scAccount refuses it, before anything is asked of the node.             *)
AddressFails ==
    /\ pc = "load"
    /\ NoAddress
    /\ InvokeFailed(job.expired)
    /\ UNCHANGED <<db, rows, done, ledger, built, budgets>>

LoadAccount ==
    /\ pc = "load"
    /\ ~ NoAddress /\ ~ job.expired
    /\ built' = built + 1
    /\ tx' = [id |-> built + 1, seq |-> seq + 1, call |-> CallOf(job)]
    /\ pc' = "simulate"
    /\ UNCHANGED <<db, job, sync, ledger, budgets>>

(* The simulation runs the call on the storage as it is, archived entries  *)
(* included (the restorePreamble it returns for them is ignored).          *)
Simulate ==
    /\ pc = "simulate"
    /\ IF Answer(storage, tx.call) = "Ok"
         THEN pc' = "send" /\ UNCHANGED <<job, tx, chainFailed>>
         ELSE InvokeFailed(job.expired)
    /\ UNCHANGED <<db, rows, done, ledger, built, budgets>>

(* Mutant of Send: the sequence number is read after the simulation.       *)
SendReloads ==
    /\ pc = "send"
    /\ tx' = [tx EXCEPT !.seq = seq + 1]
    /\ flight' = flight \union {tx'}
    /\ pc' = "wait"
    /\ UNCHANGED <<db, job, sync, seq, landed, storage, archived, built, budgets>>

(* The node refuses a transaction whose sequence number is used up.  While *)
(* the account has another one in flight it may answer TRY_AGAIN_LATER,    *)
(* which is not the status ERROR: the client waits all the same.           *)
Send ==
    /\ pc = "send"
    /\ IF tx.seq = seq + 1
         THEN /\ \/ flight' = flight \union {tx}
                 \/ flight # {} /\ flight' = flight
              /\ pc' = "wait"
              /\ UNCHANGED <<job, tx, chainFailed>>
         ELSE /\ InvokeFailed(job.expired)
              /\ UNCHANGED flight
    /\ UNCHANGED <<db, rows, done, seq, landed, storage, archived, built, budgets>>

(* Mutant of Confirm: a transaction on the ledger has succeeded.           *)
ConfirmAny ==
    /\ pc = "wait"
    /\ \E r \in landed : r.tx = tx
    /\ InvokeSucceeded
    /\ UNCHANGED <<db, rows, done, ledger, built, budgets>>

(* GetTransaction finds the transaction on the ledger.                     *)
Confirm ==
    /\ pc = "wait"
    /\ \E r \in landed :
          /\ r.tx = tx
          /\ IF r.ok THEN InvokeSucceeded ELSE InvokeFailed(job.expired)
    /\ UNCHANGED <<db, rows, done, ledger, built, budgets>>

OnLedger(t) == \E r \in landed : r.tx = t

(* Thirty polls, and the transaction cannot land: another one took its     *)
(* sequence number.  (Not waiting for those in flight is RpcFails.)        *)
GiveUp ==
    /\ pc = "wait"
    /\ flight = {} /\ ~ OnLedger(tx)
    /\ InvokeFailed(job.expired)
    /\ UNCHANGED <<db, rows, done, ledger, built, budgets>>

(* The deadline of writeChain has passed: whatever is left fails at once.  *)
Expired ==
    /\ pc = "load"
    /\ job.expired
    /\ InvokeFailed(TRUE)
    /\ UNCHANGED <<db, rows, done, ledger, built, budgets>>

(* A call of the client fails, or the watcher stops waiting while the      *)
(* transaction can still land.  With expired, it was the deadline.         *)
RpcFails ==
    /\ Fault
    /\ pc \in {"load", "simulate", "send", "wait"}
    /\ pc = "load" => ~ NoAddress
    /\ \E expired \in {job.expired, TRUE} : InvokeFailed(expired)
    /\ UNCHANGED <<db, rows, done, ledger, built>>

(* SendTransaction fails for the client, but the node has the transaction. *)
SendUnknown ==
    /\ Fault
    /\ pc = "send"
    /\ tx.seq = seq + 1
    /\ flight' = flight \union {tx}
    /\ InvokeFailed(job.expired)
    /\ UNCHANGED <<db, rows, done, seq, landed, storage, archived, built>>

(* The process dies; chainFailed is lost with it.                          *)
Crash ==
    /\ Fault
    /\ pc # "loop"
    /\ pc' = "loop"
    /\ job' = NoJob
    /\ tx' = NoTx
    /\ rows' = {}
    /\ done' = 0
    /\ chainFailed' = [o \in Orders |-> 0]
    /\ UNCHANGED <<db, ledger, built>>

-----------------------------------------------------------------------------
(* The network.                                                            *)

Close(n) == {t \in flight : t.seq > n}

(* A ledger closes with transaction t: it takes the next sequence number,  *)
(* and the transactions that share that number are dropped.                *)
Land(t) ==
    /\ t.seq = seq + 1
    /\ seq' = seq + 1
    /\ flight' = Close(seq + 1)
    /\ LET ok == ~ archived /\ Answer(storage, t.call) = "Ok"
       IN  /\ landed' = landed \union {[tx |-> t, ok |-> ok]}
           /\ storage' = IF ok THEN After(storage, t.call) ELSE storage
    /\ UNCHANGED <<db, pc, job, tx, sync, archived, built, budgets>>

(* Time bounds: five minutes, so only after the watcher has given up.      *)
Drop(t) ==
    /\ pc = "wait" => t # tx
    /\ flight' = flight \ {t}
    /\ UNCHANGED <<db, pc, job, tx, sync, seq, landed, storage, archived, built, budgets>>

(* The operator's key is used by hand, from the CLI.  Any such transaction *)
(* restores archived entries.                                              *)
Foreign ==
    /\ foreign < MaxForeign
    /\ foreign' = foreign + 1
    /\ seq' = seq + 1
    /\ flight' = Close(seq + 1)
    /\ archived' = FALSE
    /\ UNCHANGED <<db, pc, job, tx, sync, landed, storage, built, faults, outages>>

(* Seven days without a write.                                             *)
Archive ==
    /\ outages < MaxOutages
    /\ outages' = outages + 1
    /\ ~ archived
    /\ archived' = TRUE
    /\ pc = "loop" /\ flight = {}
    /\ UNCHANGED <<db, pc, job, tx, sync, seq, flight, landed, storage, built, faults, foreign>>

-----------------------------------------------------------------------------
Watch ==
    \/ SyncSkip \/ SyncTry \/ SyncEnd
    \/ AddressFails \/ LoadAccount \/ Simulate \/ Send \/ Confirm \/ GiveUp \/ Expired
    \/ SaveHash

Failure == SaveHashFails \/ RpcFails \/ SendUnknown \/ Crash \/ \E o \in Orders : SettleOnly(o)

Next ==
    \/ \E o \in Orders : Settle(o)
    \/ SyncChain
    \/ Watch
    \/ Failure
    \/ \E t \in flight : Land(t) \/ Drop(t)
    \/ Foreign
    \/ Archive

Spec == Init /\ [][Next]_vars

Network == \E t \in flight : Land(t) \/ Drop(t)

(* The loop runs on: every call to the node has a deadline (three minutes  *)
(* for a writeChain), and pollOnce is followed by syncChain.  A signed     *)
(* transaction lands or is dropped; its time bounds are five minutes.      *)
FairSpec == Spec /\ WF_vars(Watch) /\ WF_vars(SyncChain) /\ WF_vars(Network)

-----------------------------------------------------------------------------
(* Properties.                                                             *)

Txs ==
    [id : 1..built, seq : 1..(seq + 1), call : Calls] \union {NoTx}

Written(o) == storage[o] = VerdictOf[o]

(* Types of the columns, of the watcher's variables and of the ledger; an  *)
(* order gets no more than MaxAttempts rounds of syncChain.                *)
TypeOK ==
    /\ settled \subseteq Orders
    /\ hash \in [Orders -> Txs]
    /\ pc \in {"loop", "sync", "load", "simulate", "send", "wait", "save"}
    /\ pc \in {"loop", "sync"} <=> job = NoJob
    /\ job = NoJob \/ (job.order \in settled /\ job.to \in Statuses)
    /\ tx \in Txs
    /\ rows \subseteq [order : settled, to : Statuses] /\ done \in 0..SyncBatch
    /\ chainFailed \in [Orders -> 0..MaxAttempts]
    /\ flight \subseteq Txs /\ {r.tx : r \in landed} \subseteq Txs
    /\ storage \in [Orders -> Statuses \union {Absent}]

(* A transaction hash in the database is proof: that transaction succeeded *)
(* on the ledger, it is the one that wrote the order's verdict, and the    *)
(* contract still holds this verdict.                                      *)
HashIsProof ==
    \A o \in Orders : hash[o] # NoTx =>
        /\ [tx |-> hash[o], ok |-> TRUE] \in landed
        /\ hash[o].call = SetCall(o, VerdictOf[o])
        /\ Written(o)

(* A call takes effect at most once, however often writeChain repeats it   *)
(* after timeouts, lost answers and restarts.                              *)
TakesEffectOnce ==
    \A r, s \in landed : r.ok /\ s.ok /\ r.tx.call = s.tx.call => r = s

(* As long as nothing is archived, a transaction that has passed its       *)
(* simulation never fails on the ledger: the sequence number was read      *)
(* first, so whatever changes the storage in between also invalidates it.  *)
SimulationHolds ==
    outages = 0 => \A r \in landed : r.ok

(* What the watcher decided, what the contract holds, and the hash meet    *)
(* here.  The contract hears of an order only after the watcher's commit,  *)
(* and is then told one verdict, the committed one, once, though every     *)
(* write takes it from a row read earlier and may land much later; the     *)
(* hash is filed once, and only after the contract has the verdict.        *)
Final(o) == OrderFinal(storage[o].status)

Published ==
    INSTANCE Publication WITH
        Decisions <- {s \in Statuses : OrderFinal(s.status)},
        Nothing   <- Absent,
        decided   <- [o \in Orders |-> IF o \in settled THEN VerdictOf[o] ELSE Absent],
        announced <- {o \in Orders : storage[o] # Absent},
        published <- [o \in Orders |-> IF Final(o) THEN storage[o] ELSE Absent],
        receipts  <- {o \in Orders : hash[o] # NoTx}

PublishedAsDecided == Published!Spec

(* A settled order reaches the contract, with the verdict of the database, *)
(* unless the contract's entries have been archived meanwhile or the order *)
(* has no address the contract could be given.                             *)
EventuallyOnChain ==
    \A o \in Orders : o \in settled ~> Written(o) \/ outages > 0 \/ o \in malformed

(* What is settled in Postgres and not on chain is written again by        *)
(* syncChain (watcher.go:289-293), and an error of create_order is         *)
(* harmless (watcher.go:260-261).                                          *)
SettledGetsOnChain ==
    \A o \in Orders : o \in settled ~> Written(o) \/ outages > 0

(* What shopble report calls settled in Postgres and not yet on chain is   *)
(* not on chain: a verdict the contract has gets its hash in the end.      *)
OnChainGetsHash ==
    \A o \in Orders : Written(o) ~> hash[o] # NoTx

(* The rows syncChain reads leave room to pass over the orders that have   *)
(* used up their attempts: one that has attempts left is among them.       *)
Retryable == {o \in Unwritten : chainFailed[o] < MaxAttempts}

WindowHasRoom ==
    pc = "loop" /\ Retryable # {} => SyncRows \intersect Retryable # {}
=============================================================================
