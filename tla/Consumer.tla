------------------------------ MODULE Consumer ------------------------------
(***************************************************************************)
(* comqueue.OurConsumer on a Kafka topic of one partition, with the        *)
(* retries of comretry and the close of its service.  A message is its     *)
(* offset; a commit of offset m covers every offset up to m.  The handler, *)
(* the retryer and the broker are the environment.  (The JetStream         *)
(* consumer cannot be built: its embedded JetstreamMeta is nil, and        *)
(* NewJetstreamConsumer reads or writes through it.)                       *)
(***************************************************************************)
EXTENDS Integers

CONSTANTS
    LastOffset, \* messages in the topic
    Handled,    \* those whose key has a Subcriber in the ConsumeFuncMap
    MaxRetry,   \* what the retryer's MaxRetry answers
    MaxRuns     \* bound: starts of the process

ASSUME ConsumerAssumption ==
    /\ LastOffset \in Nat /\ MaxRetry \in Nat /\ MaxRuns \in Nat
    /\ Handled \subseteq 1..LastOffset

VARIABLES
    loop,       \* where the goroutine of run is
    closed,     \* Close has cancelled its context
    extra,      \* messages taken since Close
    position,   \* the offset fetched last: currentMsg
    committed,  \* the offset the broker holds for the group
    retries,    \* retryCount
    outcome,    \* how the latest delivery of each message ended
    runs        \* starts of the process

consumerVars ==
    <<loop, closed, extra, position, committed, retries, outcome, runs>>

(* Of a delivery: none yet, done, unhandled, ignored, failed with a plain  *)
(* error, skipped for a Failure, panicked.                                 *)
ConsumerInit ==
    /\ loop = "off"
    /\ closed = FALSE /\ extra = 0
    /\ position = 0 /\ committed = 0 /\ retries = 0
    /\ outcome = [m \in 1..LastOffset |-> "none"]
    /\ runs = 0

EndsAs(o) == outcome' = [outcome EXCEPT ![position] = o]

(* A process starts and resumes at the committed offset.                   *)
StartConsumer ==
    /\ loop \in {"off", "dead"}
    /\ runs < MaxRuns
    /\ runs' = runs + 1
    /\ loop' = "select"
    /\ closed' = FALSE /\ extra' = 0
    /\ position' = committed /\ retries' = 0
    /\ UNCHANGED <<committed, outcome>>

(* The process is killed, or exits with a consumer that is open.           *)
Killed ==
    /\ loop \notin {"off", "dead"}
    /\ loop' = "dead"
    /\ UNCHANGED <<closed, extra, position, committed, retries, outcome, runs>>

CloseConsumer ==
    /\ loop \notin {"off", "dead"} /\ ~ closed
    /\ closed' = TRUE
    /\ UNCHANGED <<loop, extra, position, committed, retries, outcome, runs>>

(* With the context done the break leaves the select and the loop spins.   *)
Select ==
    /\ loop = "select"
    /\ loop' = IF closed THEN "select" ELSE "fetch"
    /\ UNCHANGED <<closed, extra, position, committed, retries, outcome, runs>>

(* The next message, which a context done since the select may not stop.   *)
(* One without a handler goes straight to its commit.                      *)
Fetch ==
    /\ loop = "fetch" /\ position < LastOffset
    /\ position' = position + 1
    /\ extra' = IF closed THEN extra + 1 ELSE extra
    /\ retries' = 0
    /\ loop' = IF position + 1 \in Handled THEN "execute" ELSE "commit"
    /\ outcome' = IF position + 1 \in Handled
                  THEN outcome ELSE [outcome EXCEPT ![position + 1] = "unhandled"]
    /\ UNCHANGED <<closed, committed, runs>>

(* The poll ends with nothing; the error is not Failure: go on.            *)
FetchNothing ==
    /\ loop = "fetch"
    /\ position = LastOffset \/ closed
    /\ loop' = "select"
    /\ UNCHANGED <<closed, extra, position, committed, retries, outcome, runs>>

-----------------------------------------------------------------------------
(* comretry.Execute.                                                       *)

(* The handler answers; err is its last error, a Failure or a plain one.   *)
Execute(answer) ==
    /\ loop = "execute"
    /\ loop' = CASE answer = "ok" -> "commit"
                 [] answer = "panic" -> "dying"
                 [] OTHER -> "decide"
    /\ EndsAs(CASE answer = "ok" -> "done"
                [] answer = "panic" -> "panicked"
                [] answer = "plain" -> "failed"
                [] OTHER -> "skipped")
    /\ UNCHANGED <<closed, extra, position, committed, retries, runs>>

(* Mutant of Retry: the count is not passed on.                            *)
RetryUncounted ==
    /\ loop = "decide"
    /\ ~ (retries > MaxRetry)
    /\ loop' = "execute"
    /\ UNCHANGED <<closed, extra, position, committed, retries, outcome, runs>>

(* RetryDecisionYes, with the count compared before it is incremented.     *)
Retry ==
    /\ loop = "decide"
    /\ ~ (retries > MaxRetry)
    /\ retries' = retries + 1
    /\ loop' = "execute"
    /\ UNCHANGED <<closed, extra, position, committed, outcome, runs>>

(* RetryDecisionIgnore, the default: the error is dropped.                 *)
Ignore ==
    /\ loop = "decide"
    /\ EndsAs("ignored")
    /\ loop' = "commit"
    /\ UNCHANGED <<closed, extra, position, committed, retries, runs>>

(* Mutant of Raise: any error skips the message.                           *)
RaiseSkips ==
    /\ loop = "decide"
    /\ loop' = "skip"
    /\ UNCHANGED <<closed, extra, position, committed, retries, outcome, runs>>

(* The error is raised, by the retryer or with the count spent: a Failure  *)
(* skips the message, any other error leaves it uncommitted and goes on.   *)
Raise ==
    /\ loop = "decide"
    /\ loop' = IF outcome[position] = "skipped" THEN "skip" ELSE "select"
    /\ UNCHANGED <<closed, extra, position, committed, retries, outcome, runs>>

-----------------------------------------------------------------------------
(* CommitMessage, whose error is logged or dropped.  A commit that fails   *)
(* with its context done may still have reached the broker.                *)
Commit(applied) ==
    /\ loop \in {"commit", "skip", "dying"}
    /\ committed' = IF applied THEN position ELSE committed
    /\ loop' = IF loop = "dying" THEN "dead" ELSE "select"
    /\ UNCHANGED <<closed, extra, position, retries, outcome, runs>>

Consume ==
    \/ Select \/ Fetch \/ FetchNothing
    \/ \E answer \in {"ok", "plain", "failure", "panic"} : Execute(answer)
    \/ Retry \/ Ignore \/ Raise
    \/ \E applied \in BOOLEAN : Commit(applied)

ConsumerNext == StartConsumer \/ Killed \/ CloseConsumer \/ Consume

(* The goroutine runs, handlers return, and the broker answers a poll with *)
(* a message that is there.                                                *)
ConsumerFairness == WF_consumerVars(Consume)

ConsumerSpec == ConsumerInit /\ [][ConsumerNext]_consumerVars /\ ConsumerFairness

-----------------------------------------------------------------------------
(* Properties.                                                             *)

(* The commit discipline.  Whatever crashes, the offset the broker holds   *)
(* is of a message whose delivery ended, and not with a plain error, and   *)
(* no message before it was never handed out (consumer.go:107-112,         *)
(* 137-150).  A closed consumer takes at most one message more, though its *)
(* loop goes on (97-98); a delivery executes at most MaxRetry + 2 times.   *)
CommitDiscipline ==
    /\ committed > 0 => outcome[committed] \notin {"none", "failed"}
    /\ \A m \in 1..committed : outcome[m] # "none"
    /\ extra <= 1 /\ retries <= MaxRetry + 1

(* No message holds up the queue: while the consumer is open every message *)
(* is taken in the end, whatever the handler answers and however long the  *)
(* retryer says yes (comretry/manager.go:43-50).                           *)
NoMessageStarves ==
    loop = "select" ~> (position = LastOffset \/ closed \/ loop = "dead")
=============================================================================
