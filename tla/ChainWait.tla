----------------------------- MODULE ChainWait -----------------------------
(***************************************************************************)
(* How long the page of an order waits for the on-chain verdict, against   *)
(* how long the watcher tries to write it.  The page gives up after        *)
(* CHAIN_WAIT_TICKS polls of a settled order (web/src/api.ts); the watcher *)
(* tries once when it settles the order (process) and then in up to        *)
(* chainSyncMaxAttempts rounds of syncChain, each try with a timeout of    *)
(* three minutes (services/watcher/watcher.go).                            *)
(*                                                                         *)
(* Time is discrete; its unit is the page's poll of four seconds, so that  *)
(* three minutes are 45 units and the watcher's sleep of three seconds is  *)
(* rounded up to one.  The order is alone: what other orders take in a     *)
(* round is left out, and would only make the watcher slower.  ChainWriter *)
(* models what a try does; here it takes long or not, and succeeds or not. *)
(***************************************************************************)
EXTENDS Integers

CONSTANTS
    CallTicks,    \* the timeout of writeChain
    SleepTicks,   \* the watcher's interval, with the poll that follows it
    WaitTicks,    \* CHAIN_WAIT_TICKS
    MaxAttempts   \* chainSyncMaxAttempts

VARIABLES
    doing,     \* "call", "sleep", or "over"
    spent,     \* how long it has been doing that
    calls,     \* calls of writeChain for the order that have ended
    written,   \* is the hash stored?
    ticks,     \* settledTicks
    gaveUp     \* chainGaveUp

vars == <<doing, spent, calls, written, ticks, gaveUp>>

(* The order has just been settled, and process calls writeChain.          *)
Init ==
    /\ doing = "call" /\ spent = 0 /\ calls = 0 /\ written = FALSE
    /\ ticks = 0 /\ gaveUp = FALSE

Begin(what) == doing' = what /\ spent' = 0

(* Attempts are counted by syncChain: the call of process is not one.      *)
Attempts == calls - 1

Succeeds ==
    /\ doing = "call"
    /\ written' = TRUE
    /\ calls' = calls + 1
    /\ Begin("over")
    /\ UNCHANGED <<ticks, gaveUp>>

(* The call of process is followed by the first round at once: the poll    *)
(* has caught up.  A round is followed by the sleep.                       *)
FailsFirst ==
    /\ doing = "call" /\ calls = 0
    /\ calls' = 1
    /\ Begin(IF Attempts' < MaxAttempts THEN "call" ELSE "over")
    /\ UNCHANGED <<written, ticks, gaveUp>>

FailsInRound ==
    /\ doing = "call" /\ calls > 0
    /\ calls' = calls + 1
    /\ Begin(IF Attempts' < MaxAttempts THEN "sleep" ELSE "over")
    /\ UNCHANGED <<written, ticks, gaveUp>>

Wake ==
    /\ doing = "sleep"
    /\ Begin("call")
    /\ UNCHANGED <<calls, written, ticks, gaveUp>>

(* context.WithTimeout ends a call, and the timer ends the sleep.          *)
InTime ==
    /\ doing = "call" => spent < CallTicks
    /\ doing = "sleep" => spent < SleepTicks

(* A unit of time passes, with one poll of the page.                       *)
Tick ==
    /\ ~ gaveUp /\ ~ written
    /\ InTime
    /\ spent' = IF doing = "over" THEN 0 ELSE spent + 1
    /\ ticks' = ticks + 1
    /\ gaveUp' = (ticks' > WaitTicks)
    /\ UNCHANGED <<doing, calls, written>>

Next ==
    Succeeds \/ FailsFirst \/ FailsInRound \/ Wake \/ Tick

Spec == Init /\ [][Next]_vars

-----------------------------------------------------------------------------
(* "The budget has to outlive that or we would give up mid-retry and claim *)
(* nothing was written" (api.ts:46-47): a page gives up only when the hash *)
(* is stored or the last attempt has been made.                            *)
OutlivesRetries == gaveUp => written \/ Attempts >= MaxAttempts
=============================================================================
