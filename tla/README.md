# Shopble: a TLA+ verification project

Shopble takes orders, watches a Stellar account for payments, matches each
payment with the order its memo names, and publishes the verdict on a Soroban
contract. This project models that program, checks the models with TLC and
proves the most important properties with TLAPS. Source paths are relative to
the repository; `shopble/` stands for `src/project/shopble/`.

## 1. The system

```
  buyer --POST /orders--> API --INSERT--> [order_intent]
    |                                          |  read, settle
    +--pays, memo = order id--> Stellar        v
                                  |        watcher --create_order, set_status--> contract
                                  +--GET-->    |
                                   payments    +--INSERT--> [payment_evidence]
                                               +--UPSERT--> [watcher_cursor]
  reviewer <--GET /orders/{id}/evidence-- API <-- the three tables
```

| component | state | operations | correct when |
|---|---|---|---|
| order model (`shopble/models`) | rows of `order_intent`, `payment_evidence`, `watcher_cursor` | transition table, reasons | the Go table and the contract agree |
| matcher (`services/watcher/matcher.go`), comparison (`api/v1/evidence_api.go`) | none | `Match`, `Terminal`, `compare` | the table shown to a reviewer explains the verdict |
| watcher (`services/watcher/watcher.go`) | cursor, page, running transaction; the three tables | `Start`, `pollOnce`, `loadCursor`, `process` | each payment recorded once, none skipped, the first one decides |
| Horizon client (`lib/libstellar/horizon.go`) | none | `FetchPayments` | a page misses no payment, the cursor can pass all the others |
| on-chain writer (`watcher.go`, `lib/libsoroban/client.go`) | attempt counters in RAM, sequence number, transactions in flight | `writeChain`, `syncChain`, `invoke` | every verdict reaches the contract once, its hash is proof of it |
| contract (`src/contracts/order-status`) | one entry per order | `create_order`, `set_status`, `is_fulfillable` | no order is fulfillable that was not detected, decisions stand |
| order and evidence API (`api/v1`) | the tables | create, list, get, compare | what one answer shows is consistent |
| report (`services/report`) | none | `Summarize` | what it calls missing on chain is missing |
| web client, page of an order (`web/src`) | last answer, interval, ticks, phase | poll, pay, recheck | while answers come in order, a verdict stays on the page, and it polls until it can show the hash |
| web client, around it | wallet, view, the form's request, payments under way | connect, navigate, create, pay | an order is paid by the wallet that asked for it, and not twice by one intention |
| amounts (`instruction.go`, `validation.ts`, `balance.ts`) | none | `NormalizeAmount`, `validateAmount`, `stroops`, ... | one amount from the form to the chain |
| session (`common/comrunner`, boot) | services, signal, connection | `RunSession`, `End`, `SafeClose` | the process ends as a whole, and tells every service first |
| nested transactions (`database/sql_txn.go`) | callbacks | `Txn`, `OnTxCommit` | no commit the caller is told of goes unnoticed |
| singletons, ordered set (`common/comtypes`) | instance, entries | `Get`, `Add`, `Remove` | one initialised instance; the order of the keys, until one is removed |
| queue consumer, retries (`common/comqueue`, `comretry`) | offsets, retry count | poll, execute, retry, commit | nothing is committed that was not handed out, nothing starves |
| middleware and errors (`api`, `common/comerr`) | gin's list of errors, the sentinels | the chain around a handler | a refused request is never served, and is answered once |
| HTTP calls (`common/comrestful`) | the shared encoder | `Request`, `RequestRaw`, `RequestV2` | no response stays open, a form has its own boundary or that of a later one |
| locks, rate limit, sockets, cache, media (`common/com*`, `glib`) | in Redis or a library | - | template code, not called by any service |

How they interact: the API and the watcher share the tables only. The watcher
and the contract share the operator's account, whose sequence number orders
the transactions. Watcher and chain writer run in one goroutine: `process`
commits, then calls `writeChain`, and `syncChain` runs between two polls.

What is hard: a transaction reads the order before it writes; its COMMIT may
succeed without an answer; a lost cursor restarts the history; several
payments name one order; an old instance of the watcher may still run; a
signed transaction can land after the client gave it up, and every retry then
meets a contract that refuses; the sync query sees a bounded window. Around
this: the process is cut off at its end without waiting for what runs, the
browser's answers arrive after the buyer has moved on, and several objects of
the common libraries are shared by goroutines without a lock. The
`hazards` of `PROJECT.json` list each with its line and the property that
would catch it.

## 2. Modules

| module | models | state | actions |
|---|---|---|---|
| `OrderModel` | `models/order_intent.go`, verdicts of `payment_evidence.go` | - | - |
| `Matcher` | `Match`, `Terminal`, `compare` | - | - |
| `Horizon` | `FetchPayments`, the flattened record | - | - |
| `Watcher` | API's `CreateOrder`, the ledger, the poll loop and `process` | tables `orders`, `evidence`, `cursor`; per watcher `pc`, `page`, `full`, `at`, `found` | `CreateOrder`, `Pay`, `LoadCursor`, `Fetch`, `LookUp`, `Commit`, `EndPage`, `Wake`, and the faults |
| `OrderVerdict` | the abstract promise: an order is opened once and decided at most once | `verdict` | `Open`, `Decide` |
| `Publication` | the abstract promise of the writes to the contract: decided once, public only then, published once as decided, a receipt for it once | decisions, what is public, receipts | `Decide`, `Announce`, `Publish`, `File` |
| `OrderContract` | answers and effects of the contract's functions | - | - |
| `Registry` | the contract alone | `storage`, `returned` | `Invoke` |
| `ChainWriter` | `writeChain`, `syncChain`, `invoke`, the network, the contract | see its VARIABLES | one per step of `invoke`, of the sync loop, of the network |
| `OrderReads` | reads of two queries: `GetOrderEvidence`, the command `report`, `Summarize` | the tables of `Watcher`, `read` | `GetOrderEvidence`, `Report`, `Respond` |
| `OrderPage` | the page of one order (`App.tsx`), `payWithWallet` | server's order, requests and answers on the wire, `shown`, the interval, payments | `Load` in `Mount`, `Tick*`, `Recheck`, `PaySubmitted`; `Arrive`, `Fails`, `Unmount`, `PayClick`, ... |
| `ChainWait` | how long the page waits against how long the watcher tries | see its VARIABLES | `Succeeds`, `FailsFirst`, `FailsInRound`, `Wake`, `Tick` |
| `WebApp` | `App.tsx` around that page: wallet, views, the form's request, the calls of `payWithWallet` against the accounts' sequence numbers | wallet, view, orders asked for, page, the orders it showed before, `payCalls`, pool and ledger | `Connect`, `Disconnect`, `Navigate`, `Submit`, `Created`, `Open`, `Loaded`, `Pay` and its steps, `Apply`, `Expire` |
| `Amounts` | `NormalizeAmount`, `BuildInstruction`, `validateAmount`, `stroops`, `toAmount`, `assetBalance`, `StringFixed` | the form, the balance, the order | `LookAtBalance`, `Type`, `Max`, `SubmitForm`, `PostOrder` |
| `Session` | boot, `RunSession`, `Session.End`, `SafeClose` and the services' `Start` and `Stop` | the main goroutine, each service, signal, connection | one per step |
| `Consumer` | `OurConsumer` on Kafka, `comretry.run` | loop, offsets, retry count, outcome of each delivery | `Select`, `Fetch`, `Execute`, `Retry`, `Ignore`, `Raise`, `Commit`, `Killed`, ... |
| `SqlTxn` | `Txn`, `executeTx`, `OnTxCommit`, `executeCallbacks` | open frames, callbacks | `Txn`, `NestedTxn`, `Release`, `CommitTxn`, `CommitUnheard`, `Rollback`, `RunCallback`, ... |
| `Singleton` | `Singleton.Get`, `GetF` and their safe forms | flag, field, lock, what each goroutine is ordered after | one per access |
| `ApiErrors` | the middleware chain, `WrapError`, `OurErrorCode.Wrap` | stage, errors, answers of each request; the two words of each sentinel | one per member of the chain, two per `Wrap` |
| `Restful` | `Request`, `RequestRaw`, `RequestV2`, `FormMultipartEncoder` | each call, the encoder's content type | `Encode`, `Panics`, `Attach`, `BuildV2`, `Respond`, `ReadAll`, `HandOver`, `Close` |
| `SetOrder` | `SetOrder`, `SetOrderSize` | the map | `Add`, `AddOrReplace`, `Remove` |
| `MCParts` | `Registry` and the nine modules from `WebApp` to `SetOrder` in one instance | `part` | |
| `MCWatcher`, `MCWatcherInv`, `MCOrderReads`, `MCChainWriter` | instances for TLC | | |
| `Watcher_proofs`, `OrderReads_proofs`, `Registry_proofs`, `ChainWriter_proofs`, `ChainWait_proofs`, `OrderPage_proofs`, `WebApp_proofs` (with `Amounts`), `Parts_proofs` | theorems | | |

`Watcher` extends `Horizon` and `Matcher`, which extend `OrderModel`;
`OrderReads` extends `Watcher` with a reader of its tables;
`Registry` and `ChainWriter` extend `OrderContract`. `MCParts` extends `Registry`
and the nine modules from `WebApp` to `SetOrder`. `Watcher` and `Registry`
both instantiate `OrderVerdict` under a refinement mapping (`Promise`), which
is how the two copies of an order's life are held to one promise.
`ChainWriter` instantiates `Publication` (`Published`): decided is what the
watcher has committed, announced are the orders the contract has an entry for,
published is the verdict it holds, a receipt is the hash in Postgres.

### Watcher

The position of a record in `ledger` stands for its operation id and paging
token; position 0 is the empty cursor. An order is its row, `NoOrder` when
there is none. Amounts are whole stroops: the system keeps at most seven
decimals, so comparing decimals is comparing stroops.

`process` is two steps, `LookUp` (the SELECT and `Match`) and `Commit` (all
the writes). The writes are one step because the INSERT resolves conflicts at
the unique index, the UPDATEs re-evaluate `status = ...` once they have the row
lock, and all transactions take their locks in the order evidence, order,
cursor; what can be stale is the row that was read, and this is what the two
steps show. `payment_detected` exists only inside the transaction. The five
faults are: a failed cursor query (taken for "no cursor"), a failed request, a
rolled back transaction, a commit whose answer is lost, and a crash anywhere.

The watcher is modelled without a contract client; with one, the same steps
are followed by those of `ChainWriter`, which touch only `on_chain_tx_hash`.

Two environment assumptions matter. A payment can carry the id of an order
only after the order exists (the id is a random ksuid and is returned once its
row is committed). And a lookup that fails with a database error also fails
the INSERT that follows in the same, aborted transaction.

### ChainWriter

Orders are numbered by `created_at`; `VerdictOf` fixes the verdict each gets.
A row read by `syncChain` carries the status and the reason it had then
(`Row`), and every write takes its verdict from there (`job.to`), however much
later it lands. `malformed` are the orders whose `buyer_wallet` passed
`validAccount` (length and first letter) and is no Stellar key: their
`create_order` fails at the encoding, before the node is asked
(`AddressFails`). Only orders that are rejected for their asset, destination or
wallet can be among them, since nobody pays from such a wallet.
An invocation is `LoadAccount` (reads the sequence number), `Simulate`, `Send`
and waiting, because transactions land or are dropped between any two. The
result of an invocation feeds `writeChain` (`InvokeFailed`,
`InvokeSucceeded`): create, detect, terminal, of which only the last has to
succeed. `GiveUp` is a wait that ends when the transaction can no longer land;
a wait that ends too early is a fault (`RpcFails`). `SendUnknown` is a send
whose answer is lost, `Expired` is the three-minute deadline that makes the
rest of a `writeChain` fail at once. A node may answer `TRY_AGAIN_LATER`, which
is not `ERROR`, so the client waits for a transaction nobody has. The
simulation ignores archived entries, as `invoke` ignores `RestorePreamble`;
`README.md:166-179` of the repository describes what follows.

### OrderReads

The two queries of a read are not in one transaction. `Begin` is the first
one and puts the order rows into `read`; `Answer` is what the second one would
add if it ran now, so that an invariant about `Answer` speaks of every moment
at which it may run. A settled order is shown with its evidence because the
order is read first: the mutant that reads the evidence first loses it. The
other way round is possible and harmless: evidence for an order that the same
answer still shows as `awaiting_payment`.

### OrderPage and ChainWait

`OrderPage` is one page of one order. `Load` sends a request, `Answer` is what
the server says at some later moment, `Arrive` shows it; `InOrder` says whether
answers may overtake each other. The interval is off, or goes by what is shown
(`TickLoads`, `TickWaits`, `TickGivesUp`, `TickStops`). A payment has phases of
its own, and two may run, because the button is disabled only after the SDK is
loaded. `ChainWait` has no pages and no network, only the clocks of both sides.

### The parts around them

Nine modules share no state with the reconciliation of orders or with each
other; where they touch it, they explain one of its assumptions.

- `Session` is the process the watcher and the API run in. A service is a
  kind (`http`, `watcher`, `consumer`, `cron`, `grpc`) and either busy or not;
  `Begin` and `Finish` stand for a request, a payment, a message. `SafeClose`
  and the end cut off whatever is busy: this is one of the crashes `Watcher`
  and `ChainWriter` have at every step. A service may be told to stop before
  its goroutine has called `Start` (`StartTooLate`). No service waits at its
  Stop but grpc, whose `GracefulStop` has no deadline.
- `Consumer` commits offsets, and a commit covers all offsets before it: what
  a plain error leaves uncommitted is passed over by the next commit.
- `SqlTxn` has one wrapper for all transactions inside the outermost one.
  `EndsWith` is what a savepoint or a commit of PostgreSQL does to the work.
  A COMMIT may succeed and its answer be lost (`CommitUnheard`): the work is
  durable, the caller gets an error, and no callback runs.
- `Singleton` treats the unlocked reads as races: a goroutine that is not
  ordered after the load finds, of each field, the old or the new value. The
  only thing that makes them safe is that `apiPrerun` loads before the
  services start, and the property says so. For everyone else the lock and the
  second look under it are what makes the load happen once.
- `ApiErrors` has concurrent requests that share the sentinel errors. `Wrap`
  writes an interface, which is two words, without a lock, so two requests can
  leave a torn one; whoever answers reads what the sentinel holds then, for the
  status (`Actual`) and for the text. A handler may answer and then fail, and
  is then answered twice.
- `Restful` keeps, of a form, whose boundary its header names. It has every way
  a call can panic before it is sent: an unknown method or encoder, and data of
  another type than the encoder asserts.
- `Amounts` keeps decimals as units and places. It has one place where the
  code has seven, and a maximum near which doubles are `Ulp` apart, which is
  more than a stroop, as it is at 922337203685.4775807 (1.2e-4).
- `WebApp` has the sequence numbers of the buyers' accounts, because they are
  what keeps two payments built at once from both being applied. An answer
  for the order the page showed before may still come (`stale`), and is shown.

## 3. Runs

| run | instance | shows |
|---|---|---|
| `watcher_verdicts` | 1 watcher, 2 orders, every kind of record (exact, short, excessive, wrong wallet, asset, issuer and destination, a payment for the other order, foreign memo, hash memo, not a payment), 3 records, page of 2, 2 faults | safety of the tables, refinement of `OrderVerdict` |
| `watcher_two` | 2 watchers, 1 order, 3 records, 1 fault, fairness | stale lookups of concurrent watchers; every payment recorded, an empty page means the tip; every paid order settled; the invariants of the proofs |
| `watcher_stuck` | as before, two records in a row that are no payments | **violated**, see section 6 |
| `reads` | 1 watcher, 2 orders of 2 wallets, a reader, 3 records, 1 fault | answers and reports agree with themselves |
| `chain_safe` | 2 orders, one of which may have no valid wallet, 3 rounds, 1 fault, 1 archival, 1 transaction by hand, fairness | repeated calls, sequence numbers, a stored hash is proof, refinement of `Publication`, every verdict of an order with a valid wallet gets on chain |
| `chain_wallet` | 1 rejected order, no faults | **violated**, see section 6 |
| `chain_hash` | 1 order, 1 fault | **violated**, see section 6 |
| `chain_window` | 5 orders, window of 4, 1 archival | **violated**, see section 6 |
| `page_inorder` | answers in order, 3 open requests, 2 failures, 2 payments, 2 visits, fairness | the page's promises |
| `page_overtake` | answers out of order | **violated**, see section 6 |
| `parts` | each of the ten parts alone, chosen by the initial state: the contract with 3 orders and any calls; a session of an http, a watcher, a consumer and a grpc service; 3 messages, `MaxRetry` 1, 2 starts; 3 nested transactions, 2 callbacks; 3 goroutines, 5 gets, 1 failed load; 2 requests, 2 calls; 3 keys, sets with and without a size; amounts with one place and a maximum of 97 stroops; 2 wallets, 2 orders, 2 payments | the state machine of the contract; the promises of the libraries, of the form and of the web client |
| `wait_outlives` | the constants of the code in units of 4 s, one order | **violated**, see section 6 |

Bounds, and why they are enough. Three records give two pages with a page of
two, and every order of the first, a duplicate and an unrelated record. Two
faults allow a fault while recovering from another. The proofs of section 5
remove all of these bounds for every safety property of every module. `MaxOtherRun` is the
number of non-payments in a row the ledger may hold: `watcher_two` has fewer
than a page, `watcher_stuck` a full page. For the chain, a batch of one with a
window of two keeps the shape of 5 and 20 (several rounds for all orders,
passing over exhausted ones); `MaxAttempts` is the code's 3. One lost answer
can spoil two rounds (the one that loses it, and the next, whose sequence
number is taken by the transaction that lands) and a transaction sent by hand
one, so `chain_safe` keeps `2*MaxFaults + MaxForeign < 1 + MaxAttempts`: beyond
that an order may use up its attempts, which is what the code means to happen.
An archived entry makes every round fail until somebody restores it, so
`EventuallyOnChain` promises nothing once there was one. The page waits for 2
ticks instead of 140, so that giving up and every reset of the counter happen;
`ChainWait` uses the real numbers.

The parts. The session has one service of each way of stopping and work in two
of them. Three messages allow one that fails, one that is skipped and one
without a handler, in any order of commits; two starts allow a crash. Three
transactions give two levels and two siblings. Two requests, calls, goroutines
besides the main one, wallets, orders or payments are enough for one to
overtake the other. Three keys leave a gap in the middle of a set when one is
removed. For amounts the smallest decimals that still have texts of zero
places, one place (a stroop) and one too many, and doubles that miss the
maximum. `MaxWork`, `MaxRuns`, `MaxFrames`, `MaxCallbacks`, `MaxGets`,
`MaxFailures`, `MaxEntries`, `MaxOrders`, `MaxCalls`, `MaxConnects` are the
bounds.

Deadlock is checked everywhere but for the page, the clocks and the parts: a
page that has been left, a watcher that is done with an order, a process that
has ended and a request that is answered stop.

Fairness. `Watcher`: weak fairness of each watcher's own steps. Every query and
request returns (HTTP timeout of 30 s, `horizon.go:61`) and the sleep ends.
Nothing is assumed of faults, of buyers or of the API. `ChainWriter`: weak
fairness of the loop (each call has the deadline of `writeChain`, `waiting`
ends after 30 polls), of `SyncChain` (it follows a poll that has caught up),
and of the network (a signed transaction lands or passes its time bounds).
`OrderPage`: a request ends, with an answer or an error (the browser times out),
and an interval that is set fires again. Nothing is assumed of the buyer.
`Session`: the main goroutine goes on once the services are launched, a `Fatal`
is carried out, and an RPC ends, since `GracefulStop` waits for it and without
this assumption the process may never end. `Consumer`: its goroutine runs,
handlers return and the broker answers; nothing is assumed of what a handler or
the retryer says.

## 4. Properties worth a comment

- `FirstPaymentDecides` is the determinism of the whole ingestion: the outcome
  of an order is a function of the ledger, not of restarts, replays, page
  boundaries or the number of watchers. It is what lets two watchers run on
  one stream; the repository asks for one (`README.md:148`), and for the
  attempt counters and the operator's account it is right.
- `CursorNeverSkips` with two watchers: one can move the cursor back, none can
  move it past an unrecorded payment.
- `OneVerdictPerOrder` fails when `Match` does not look at the order's status,
  although the update is guarded: the evidence would claim two verdicts.
- `TableExplainsVerdict` relates two pieces of code that compare the same
  fields in different ways.
- `HashIsProof` needs the order of steps in `invoke`, and that only the last
  call's hash is stored; it also says that the verdict on chain is the one in
  Postgres.
- `PublishedAsDecided` is what a merchant relies on: the contract never holds a
  verdict that Postgres does not, nor a second one, and a hash in the report is
  never ahead of the contract. It breaks when `create_order` overwrites an entry
  (a verdict that was public is taken back) and when the contract would hear
  of an order that is not settled.
- `EmptyPageIsTip` is the comment at `watcher.go:87-88` taken seriously: an
  empty page is a statement about the whole ledger. It is about two watchers
  and lost cursors as well, since a page is read with a cursor that somebody
  else may have moved.
- `SimulationHolds`: the sequence number is read before the simulation, so a
  transaction that changed the storage in between also invalidates the one
  that was simulated.

- `AnswerExplainsOrder` and `ReportAgrees` rest on the order of two queries
  that look exchangeable.
- `StopsOnlyWhenDone`: a page that does not poll shows a hash, or a verdict
  whose hash it gave up on. It holds only while answers arrive in order.
- `EndsTogether` is what `serve` is for (`cmd/serve.go:16-20`): a signal or a
  failing service ends all of it. It holds because nobody waits; the price is
  that what is busy is cut off.
- `EveryServiceTold` is about `End` going on after an error.
- `CommitDiscipline` is what is left of at-least-once delivery when a plain
  error is followed by another message: a message that was never handed out is
  never covered by a commit, and no commit is made at one that failed.
- `CommitIsNoticed` separates what holds for one transaction (each callback
  once when the caller is told of the commit, none when it is told of an error)
  from what holds when transactions nest (at least once). It does not say that
  durable work is always noticed: a COMMIT whose answer is lost is not.
- `RefusedIsNotServed`: what a middleware refuses stops there, with one answer.
  The shared sentinel can change even its status: two tokens refused at once
  can tear it, and one of them is then answered with a 500.
- `EventuallyOnChain` excepts archived entries and wallets that are none; the
  second exception is finding 6.
- `PayerIsBuyer` rests on the view that `Connect` resets; the one exception is
  an order whose answer arrives under another wallet.
- `SecondPaymentLooksFirst` rests on the account being loaded in each call.
- `VerdictStaysOnPage` compares what a page shows with what it showed before,
  over failed requests, payments and second looks.

## 5. Proofs

`Watcher_proofs` proves, for all constants that satisfy the assumptions of
`Watcher` (page size positive, bounds natural, the empty id is no order's):

- `Invariance`: `Spec => []IInv`
- `TypeCorrect`, `NothingSkipped`, `OutcomeIsDetermined`, `RecordedOnce`: the
  invariants `TypeOK`, `CursorNeverSkips`, `FirstPaymentDecides`, `ReplaySafe`
- `VerdictsStand`: the action property `VerdictStands`
- `EmptyPageMeansTip`: the action property `EmptyPageIsTip`, if `MaxOtherRun < Limit`
- `DecidesOnce`: `Watcher` implements `OrderVerdict`

The argument. `FirstPaymentDecides` is not inductive: a commit decides by what
an earlier step found, so one has to know that the payment being committed is
the first unrecorded one and that the finding is still right. `IInv` adds
`PaidAfterCreated` (payments follow their orders), `RecordedSettles` (a
recorded payment has settled its order, so an order that is still open has no
recorded payment), and for each watcher `ReadNeverSkips` (the cursor it read
passes nothing unrecorded), `PageClosed` and `AtFirst` (pages have no gaps and
are processed from the front, hence everything before `at` is recorded) and
`FoundFor` (the finding is what `Match` says of the order as created, unless
the order has been settled since; then it is a duplicate or the evidence
already exists). `CommitTables` combines these. The status guard of the
updates turns out to be implied: with the unique index and the order of the
pages, an unrecorded payment with a verdict of its own finds its order open.

`EmptyPageMeansTip` has the one hypothesis the program needs and does not
check: a page is longer than any run of records that are no payments. With it,
`ShortRuns` (among `MaxOtherRun + 1` records in a row there is a payment) is
inductive, and an empty page, which is a full page of others or the end, can only
be the end. The hypothesis is sharp: for `MaxOtherRun = Limit` TLC finds the
empty page in the middle of the history, which is finding 1.

A second section of `Watcher_proofs` adds what is known of the rows of evidence (`EvInv`).
`OneVerdictPerOrder` cannot be proved from `IInv`: it lets a finding be a
verdict although another watcher has settled the order. `FoundFirst` closes the
gap: a transaction that found an open order holds the order's first payment,
whatever happened since. Then every row that is not a duplicate is about the
first payment and says what `Match` says of it (`RowRight`), and every settled
order has such a row (`HasDeciding`). `OneVerdict`, `EvidenceExplains` and
`TableExplains` follow; the last one is a case analysis over `Match` and
`compare`.

`OrderReads_proofs` proves both properties of the two-query reads
(`AnswersExplain`, `ReportsAgree`). A reader is a stutter of `Watcher`
(`ReadsAreStutters`), so the theorems above hold with it; `ReadInv` says that
the orders of the first query that were settled then are settled so now, which
is `VerdictStands`. The counts of a report are compared by an injection from
orders to their rows; evidence is finite because a payment has one row.

`Registry_proofs` proves for any set of orders that the contract's storage is
well typed, that it takes exactly the transitions of `models.CanTransition`
(`OneStateMachine`), that an order becomes fulfillable only out of
`payment_detected` and for good (`FulfillableIsFinal`), and that it implements
`OrderVerdict` (`DecidesOnce`). `TypeOK` is inductive there.

`OrderPage_proofs` assumes that answers arrive in order and proves, for any
number of ticks, requests, failures, payments and visits, `StopsOnlyWhenDone`
and `VerdictStaysOnPage`. The invariant orders everything in flight: what is
shown is no newer than the answers on the wire, these are sorted, and none is
newer than the server (`WireInOrder`, `AnswersBetween`).

`ChainWriter_proofs` proves the type invariant (with the bound on the rounds of
an order) and the three safety invariants of the chain, for any finite set of
orders, any batch, window and number of attempts, and without a bound on
faults, archivals or transactions sent by hand. `ChainInv` has three ideas.
`Kept`: once a call has been accepted, the contract's storage shows it and
refuses that call, whatever is called afterwards; this gives
`TakesEffectOnce`, and, with the hash saved only for the verdict's transaction
(`Running`), `HashIsProof`. `Fresh`: a transaction that can be next was
simulated on the storage as it is. That is inductive because the sequence
number is read before the simulation: when a ledger closes, every transaction
signed so far has a number that is used up (`CloseIsEmpty`). `LoopType` adds
that a job of `syncChain` has an attempt left, which bounds the counters; that
the first of the rows read is one of them (`FirstIsOne`) rests on the natural
numbers being well-founded.

`PublishesAsDecided` shows that the chain writer implements `Publication`.
`PublishInv` adds to `ChainInv` that every transaction in flight says what was
committed (`Meant`: its order is settled, and a terminal status in it is the
order's verdict, because the row it was taken from was settled when it was
read), and that an order with a hash is in no row of the query and is nobody's
job. Then a commit of the watcher is a `Decide` (`SettleDecides`), a
ledger that closes is an `Announce`, a `Publish` or nothing the promise can see
(`LandPublishes`: the intermediate statuses are invisible, a second verdict is
refused, archival only hides an entry), saving the hash is a `File`
(`SaveFiles`), and all other steps stutter (`CalmKeeps`).

`WindowSuffices` is the positive side of finding 3: while fewer orders have used
up their attempts than the query has rows, the window shows an order that can be
tried, if there is one. All rows before the first such order are
exhausted ones, hence fewer than the window is long.

`ChainWait_proofs` is the positive side of finding 5 (`LongEnough`): a page that
waits for `MaxAttempts + 1` calls and `MaxAttempts - 1` sleeps never gives up
while an attempt is to come. With the code's constants (45 ticks a call, 1 a
sleep; 3 attempts) that is 182 ticks; the code waits 140. The invariant bounds
the time at which the c-th call can have begun.

`WebApp_proofs` proves both invariants of the web client for any number of
wallets, orders, payments and connections. `Buyer` says of the view, of the
loaded page and of the orders it showed before what `PayerIsBuyer` says of
payments: they are the connected wallet's orders, or came late. `Looks` says that a transaction has the sequence
number its builder saw and that an account has moved past that of every
transaction applied, so whatever applies next saw more.

The second half of the module proves `OneAmount`: for any number of decimals,
any maximum, any balance and any spacing of doubles that is not wider than the
maximum, an amount is the same at every station. `Pow10` is recursive, and what
it computes is proved for every exponent (`PowersOfTen`) by induction over a set
of numbers (`AllNumbers`: a set with 0 and every successor contains `Nat`),
which, unlike induction over a predicate, the provers can use. From it follow
that decimals of at most seven places are whole stroops (`WholeStroops`), and
that doubles keep the order and miss by less than their spacing
(`DoubleKeepsOrder`, `DoubleIsNear`). `AmountsInv` says that the balance the
form knows is what Horizon said and that an answer is about what is still typed.

`Parts_proofs` has a section for each of the other parts, with an invariant of
its own:

- `SessionInv`: the services told are exactly those before the one `End` is at.
- `SingletonInv`: one goroutine between lock and unlock, one load; as long as
  Main is alone it is the one that knows of the load, then everyone it starts
  is. This is the argument why the unlocked read is harmless in this program.
- `TxnInv`: the callbacks before the one at hand have run (`Noticed`); without
  a transaction inside, exactly those, and only after a commit the caller is
  told of (`NoticedOnce`).
- `ConsumerInv`: a message being delivered is not committed, and the loop's
  place says how its delivery ended.
- `RestfulInv`: a form waiting for its header has its boundary in the shared
  encoder, or has been met by another.
- `ErrorsInv`: a refused request has the refusal as its only error, is not
  served, and has at most the answer to it (`Course`); a refused token that no
  other request writes over is whole in the sentinel (`Whole`).
- `SetOrderInv`: until a removal the entries are at 0, 1, ... in the order they
  were added (`InPlace`), so the number of entries is the next free index. A
  removal breaks exactly this, and keys stay unique all the same.

Assumptions are those named in the modules: each service is of a known kind;
a transaction may be opened (`MaxFrames` is positive); the first goroutine is
one of them and "free" is none; the verdicts the chain writer is given are
final; bounds are natural numbers.

Only model-checked are the liveness properties (`EveryPaymentRecorded`,
`PaidOrderSettles`, `EventuallyOnChain`, `HashIsShown`, `EndsTogether`,
`NoMessageStarves`): fairness and `ENABLED` are out of the prover's reach. Every
invariant and every step property of the passing runs is a theorem.

## 6. Where the code and its documentation disagree

1. `watcher_stuck`. The cursor moves only with a processed payment, and
   `FetchPayments` filters the page first. A page of `limit` (200) records
   without a payment is therefore read for ever; every later payment is lost
   to the watcher. `watcher.go:87-88` takes an empty page for the tip of the
   ledger.
2. `chain_hash`. When the answer to a send (or the wait) is lost and the
   transaction lands, all retries are refused by the contract
   (`InvalidTransition`), so the hash is never stored, the report lists the
   order as not on chain (`report.go:37`, `report.go:116`), and the attempts
   are used up.
3. `chain_window`. Twenty exhausted orders fill the sync query; the ones
   behind them, which have attempts left, are not tried until a restart. The
   comment at `watcher.go:306` says the window leaves room to pass over them.

4. `page_overtake`. `load()` neither cancels nor numbers its requests. The
   answer with the hash clears the interval; an older one that arrives later
   puts the page back to an order without hash, and nothing reloads it
   (`App.tsx:326`, `App.tsx:350`, `api.ts:50`).
5. `wait_outlives`. `api.ts:44-48` adds up three attempts; `process` makes one
   more before them, with the same timeout, so that the page can give up while
   an attempt is still to come.

6. `chain_wallet`. `validAccount` looks at the length and the first letter of
   `buyer_wallet` (`order_api.go:20-22`), though the API promises a valid key
   (`order_api.go:41`). An order with any other wallet settles as
   `wrong_buyer_wallet` like every other, but `create_order` then fails in
   `scAccount` in every round, `set_status` finds no order, and the verdict is
   given up without any failure of the node. The comment at `watcher.go:260`
   calls a failing `create_order` harmless.

## 7. Not modelled, and the plan

Not modelled, because there is no state and no order of steps to get wrong:
HTTP, JSON and XDR encoding, the Markdown of the report, the column codecs,
logging, generated Swagger code, Docker files, migrations that change no row.

Not modelled, because the state is in a library or a service outside and the
repository makes one call each: the cache, the locks and the rate limiter
(`common/comcache`, `comlock`), the media stores, files and ciphers of
`src/glib`. No service of the repository calls them, nor the sockets.

Left out of what is modelled: an amount that Horizon would send unparsable; the
JetStream consumer, which cannot be built (its embedded `JetstreamMeta` is nil
when `NewJetstreamConsumer` uses it); the times of a back-off; the hash set,
which is a Go map; and `SingletonMap`, which nobody makes: its first look reads
a Go map while another goroutine may write it, and the runtime may end the
process (`singleton.go:74`).

Left for later: the step lemmas behind the liveness properties (what bounds the
work of a poll, of a round, of a page) as theorems; and the three modules
`Watcher`, `ChainWriter` and `Registry` under one promise, from the payment on
the ledger to `is_fulfillable`.
