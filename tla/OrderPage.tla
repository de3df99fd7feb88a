----------------------------- MODULE OrderPage -----------------------------
(***************************************************************************)
(* The page of one order (component Order of web/src/App.tsx): it asks the *)
(* API for the order every POLL_MS, and once more after a payment, until   *)
(* it shows the verdict with its on-chain hash or gives up waiting for the *)
(* hash.  The requests are not cancelled and not numbered: whatever answer *)
(* comes last is shown.                                                    *)
(*                                                                         *)
(* What the API answers is abstracted to how far the order has come.  The  *)
(* network keeps the order of the answers when InOrder, and delivers them  *)
(* in any order otherwise.  The message shown after a failed request is    *)
(* left out.                                                               *)
(***************************************************************************)
EXTENDS Integers, Sequences, SequencesExt

CONSTANTS
    InOrder,    \* answers arrive in the order of their requests
    WaitTicks,  \* CHAIN_WAIT_TICKS
    MaxOpen,    \* bound: requests under way at once
    MaxFails,   \* bound: requests that fail
    MaxPays,    \* bound: calls of payWithWallet under way at once
    MaxMounts   \* bound: how often the page is opened or checked again

ASSUME InOrderAssumption == InOrder \in BOOLEAN
ASSUME PageBoundsAssumption ==
    /\ WaitTicks \in Nat /\ MaxFails \in Nat /\ MaxPays \in Nat
    /\ MaxOpen \in Nat \ {0} /\ MaxMounts \in Nat \ {0}

(* How far an order has come.  Nothing is a page without an answer.        *)
Nothing  == 0
Awaiting == 1
Settled  == 2
OnChain  == 3

isSettled(o) == o \in {Settled, OnChain}

VARIABLES
    server,     \* the order, as the API would answer now
    wire,       \* requests under way: Nothing, or the answer on its way back
    stage,      \* of the effect: "closed", "polling" while the interval is
                \* set, "done" or "gaveUp" when a tick has cleared it
    order,      \* what the page shows
    latest,     \* latest.current, what the interval goes by
    ticks,      \* settledTicks
    paying,     \* calls of payWithWallet under way
    phase,      \* "null", or "busy": the button is disabled
    fails, mounts

shown == <<stage, order, latest, ticks>>
pay   == <<paying, phase>>
vars  == <<server, wire, shown, pay, fails, mounts>>

Init ==
    /\ server = Awaiting
    /\ wire = <<>>
    /\ stage = "closed" /\ order = Nothing /\ latest = Nothing /\ ticks = 0
    /\ paying = 0 /\ phase = "null"
    /\ fails = 0 /\ mounts = 0

-----------------------------------------------------------------------------
(* The watcher settles the order and writes the hash.                      *)

Advance ==
    /\ server < OnChain
    /\ server' = server + 1
    /\ UNCHANGED <<wire, shown, pay, fails, mounts>>

-----------------------------------------------------------------------------
(* Requests.                                                               *)

Load ==
    /\ Len(wire) < MaxOpen
    /\ wire' = Append(wire, Nothing)

(* GetOrderEvidence reads the row.                                         *)
Answer(i) ==
    /\ wire[i] = Nothing
    /\ InOrder => \A j \in 1..(i - 1) : wire[j] # Nothing
    /\ wire' = [wire EXCEPT ![i] = server]
    /\ UNCHANGED <<server, shown, pay, fails, mounts>>

MayArrive(i) == InOrder => i = 1

(* The answer is shown, and the interval will go by it.                    *)
Arrive(i) ==
    /\ wire[i] # Nothing
    /\ MayArrive(i)
    /\ wire' = RemoveAt(wire, i)
    /\ order' = wire[i]
    /\ latest' = wire[i]
    /\ UNCHANGED <<server, stage, ticks, pay, fails, mounts>>

(* Mutant of Fails: an error ends the polling.                             *)
FailsForGood(i) ==
    /\ fails < MaxFails
    /\ fails' = fails + 1
    /\ MayArrive(i)
    /\ wire' = RemoveAt(wire, i)
    /\ stage' = "done"
    /\ UNCHANGED <<server, order, latest, ticks, pay, mounts>>

(* No network, no JSON, or an error of the API: the order stays as it is.  *)
Fails(i) ==
    /\ fails < MaxFails
    /\ fails' = fails + 1
    /\ MayArrive(i)
    /\ wire' = RemoveAt(wire, i)
    /\ UNCHANGED <<server, shown, pay, mounts>>

-----------------------------------------------------------------------------
(* The effect of the page.                                                 *)

StartEffect ==
    /\ mounts < MaxMounts
    /\ mounts' = mounts + 1
    /\ latest' = Nothing
    /\ stage' = "polling"
    /\ ticks' = 0
    /\ Load
    /\ UNCHANGED <<server, pay, fails>>

Mount ==
    /\ stage = "closed"
    /\ StartEffect
    /\ UNCHANGED order

(* Mutant of Recheck: the page starts from an empty one.                   *)
RecheckEmpty ==
    /\ stage = "gaveUp" /\ order = Settled
    /\ StartEffect
    /\ order' = Nothing

(* The button "Check again": the effect is run again, the order stays.     *)
Recheck ==
    /\ stage = "gaveUp" /\ order = Settled
    /\ StartEffect
    /\ UNCHANGED order

(* The interval is cleared.  What is still under way, answers and payments,*)
(* is not shown any more: the component it belongs to is gone.             *)
Unmount ==
    /\ stage # "closed"
    /\ stage' = "closed"
    /\ wire' = <<>>
    /\ order' = Nothing /\ latest' = Nothing /\ ticks' = 0
    /\ paying' = 0 /\ phase' = "null"
    /\ UNCHANGED <<server, fails, mounts>>

TickLoads ==
    /\ stage = "polling"
    /\ ~ isSettled(latest)
    /\ Load
    /\ UNCHANGED <<server, shown, pay, fails, mounts>>

(* Mutants of TickWaits: a settled order needs no further request; the     *)
(* count is compared before it is increased.                               *)
TickWaitsNot ==
    /\ stage = "polling"
    /\ latest = Settled
    /\ stage' = "done"
    /\ UNCHANGED <<server, wire, order, latest, ticks, pay, fails, mounts>>

TickWaitsLonger ==
    /\ stage = "polling"
    /\ latest = Settled /\ ticks <= WaitTicks
    /\ ticks' = ticks + 1
    /\ Load
    /\ UNCHANGED <<server, stage, order, latest, pay, fails, mounts>>

(* Settled is not the end: the hash is written afterwards.                 *)
TickWaits ==
    /\ stage = "polling"
    /\ latest = Settled /\ ticks < WaitTicks
    /\ ticks' = ticks + 1
    /\ Load
    /\ UNCHANGED <<server, stage, order, latest, pay, fails, mounts>>

TickGivesUp ==
    /\ stage = "polling"
    /\ latest = Settled /\ ticks >= WaitTicks
    /\ ticks' = ticks + 1
    /\ stage' = "gaveUp"
    /\ UNCHANGED <<server, wire, order, latest, pay, fails, mounts>>

TickStops ==
    /\ stage = "polling"
    /\ latest = OnChain
    /\ stage' = "done"
    /\ UNCHANGED <<server, wire, order, latest, ticks, pay, fails, mounts>>

Tick == TickLoads \/ TickWaits \/ TickGivesUp \/ TickStops

-----------------------------------------------------------------------------
(* Paying from the page.  The button is there while the page shows an open *)
(* order.  It is disabled from the first onPhase on, which payWithWallet   *)
(* calls only once the SDK has been loaded: until then it takes a second   *)
(* click.                                                                  *)

PayClick ==
    /\ order = Awaiting
    /\ phase = "null"
    /\ paying < MaxPays
    /\ paying' = paying + 1
    /\ UNCHANGED <<server, wire, shown, phase, fails, mounts>>

PayPhase ==
    /\ paying > 0
    /\ phase' = "busy"
    /\ UNCHANGED <<server, wire, shown, paying, fails, mounts>>

PayEnds ==
    /\ paying > 0
    /\ paying' = paying - 1
    /\ phase' = "null"
    /\ UNCHANGED <<server, shown, fails, mounts>>

PaySubmitted == PayEnds /\ Load

PayFails == PayEnds /\ UNCHANGED wire

-----------------------------------------------------------------------------
Network == \E i \in 1..Len(wire) : Answer(i) \/ Arrive(i)

Next ==
    \/ Advance
    \/ Network
    \/ \E i \in 1..Len(wire) : Fails(i)
    \/ Mount \/ Recheck \/ Unmount
    \/ Tick
    \/ PayClick \/ PayPhase \/ PaySubmitted \/ PayFails

Spec == Init /\ [][Next]_vars

(* A request ends, and an interval that is set fires again.  Nothing is    *)
(* assumed of the buyer or of the watcher.                                 *)
FairSpec == Spec /\ WF_vars(Network) /\ WF_vars(Tick)

-----------------------------------------------------------------------------
(* Properties.                                                             *)

Orders == Nothing..OnChain

(* Types; the interval goes by what the page shows or by nothing, waits no *)
(* longer than WaitTicks, and a closed page leaves nothing behind.         *)
TypeOK ==
    /\ server \in Awaiting..OnChain
    /\ wire \in Seq(Orders) /\ Len(wire) <= MaxOpen
    /\ stage \in {"closed", "polling", "done", "gaveUp"}
    /\ order \in Orders /\ latest \in {Nothing, order}
    /\ ticks \in 0..(WaitTicks + 1) /\ (stage = "polling" => ticks <= WaitTicks)
    /\ paying \in 0..MaxPays /\ phase \in {"null", "busy"}
    /\ fails \in 0..MaxFails /\ mounts \in 0..MaxMounts
    /\ stage = "closed" => wire = <<>> /\ order = Nothing /\ paying = 0

(* A page that shows a verdict does not go back to offering the order for  *)
(* payment: "the matcher has judged the payment and will not change its    *)
(* mind" (api.ts:50).                                                      *)
VerdictStaysOnPage ==
    [][isSettled(order) /\ stage' # "closed" => order' >= order]_vars

(* An open page is never left without polling short of the end: it shows   *)
(* the hash, or a verdict with the remark that it gave up waiting.         *)
StopsOnlyWhenDone ==
    /\ stage = "done" => order = OnChain
    /\ stage = "gaveUp" => isSettled(order)

(* Once the hash is stored an open page comes to show it, whatever         *)
(* requests fail, unless it had given up before.                           *)
HashIsShown ==
    (stage # "closed" /\ server = OnChain)
        ~> (order = OnChain \/ stage \in {"gaveUp", "closed"})
=============================================================================
