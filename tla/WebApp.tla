------------------------------- MODULE WebApp -------------------------------
(***************************************************************************)
(* The web client around the page of an order (App.tsx, pay.ts, wallet.ts, *)
(* api.ts): which wallet is connected, which view is shown, the request    *)
(* that creates an order, and the calls of payWithWallet.  Everything that *)
(* waits for an answer can be overtaken by what the user does meanwhile:   *)
(* App stays mounted, the components below it come and go.                 *)
(*                                                                         *)
(* An order is its number.  Forms, balances, polling (module OrderPage)    *)
(* and wording are left out; the ledger is the sequence number of each     *)
(* account, since that is what decides which transactions apply.           *)
(***************************************************************************)
EXTENDS FiniteSets, Integers, Sequences

CONSTANTS
    Wallets,
    MaxOrders,      \* bound: orders asked for
    MaxCalls,       \* bound: calls of payWithWallet
    MaxConnects     \* bound: how often a wallet is connected

ASSUME WebAssumption ==
    MaxOrders \in Nat /\ MaxCalls \in Nat /\ MaxConnects \in Nat

NoWallet == "none"
New  == 0       \* the view of the form; an order's view is its number
List == -1
NoPage == 0     \* no order

VARIABLES
    wallet, view,   \* the state of App
    sending,    \* the order the form on the screen has asked for: its button is
                \* disabled; or NoPage
    asked,      \* of each order asked for, the buyer_wallet sent
    created,    \* the orders answered
    pending,    \* those whose answer is under way
    late,       \* those answered while another wallet, or none, was connected
    page,       \* the order the mounted Order has loaded
    stale,      \* those it was of before: answers for them may still come
    busyPay,    \* its phase is set: the Pay button is disabled
    payCalls,   \* the calls of payWithWallet
    pool,       \* those submitted and not applied
    applied,    \* those in the ledger, in order
    sequence,   \* of each account
    connects

app    == <<wallet, view>>
server == <<asked, created, pending, late>>
screen == <<page, stale, busyPay>>
ledger == <<pool, applied, sequence>>
webVars == <<app, sending, server, screen, payCalls, ledger, connects>>

WebInit ==
    /\ wallet = NoWallet /\ view = New
    /\ sending = NoPage
    /\ asked = <<>> /\ created = {} /\ pending = {} /\ late = {}
    /\ page = NoPage /\ stale = {} /\ busyPay = FALSE
    /\ payCalls = <<>>
    /\ pool = {} /\ applied = <<>>
    /\ sequence = [w \in Wallets |-> 0]
    /\ connects = 0

(* The Order on the screen, if any, is unmounted: its state is gone, and   *)
(* the calls that go on have nobody to tell.                               *)
Leave ==
    /\ page' = NoPage /\ stale' = {} /\ busyPay' = FALSE
    /\ payCalls' = [i \in DOMAIN payCalls |-> [payCalls[i] EXCEPT !.here = FALSE]]

-----------------------------------------------------------------------------
(* App.                                                                    *)

(* Mutant of Connect: the view stays what it was.                          *)
ConnectInPlace(w) ==
    /\ wallet = NoWallet /\ connects < MaxConnects
    /\ connects' = connects + 1
    /\ wallet' = w
    /\ Leave /\ sending' = NoPage
    /\ UNCHANGED <<view, server, ledger>>

Connect(w) ==
    /\ wallet = NoWallet /\ connects < MaxConnects
    /\ connects' = connects + 1
    /\ wallet' = w /\ view' = New
    /\ Leave /\ sending' = NoPage
    /\ UNCHANGED <<server, ledger>>

(* The view is kept; nothing of it is rendered without a wallet.           *)
Disconnect ==
    /\ wallet # NoWallet
    /\ wallet' = NoWallet
    /\ Leave /\ sending' = NoPage
    /\ UNCHANGED <<view, server, ledger, connects>>

Navigate(v) ==
    /\ wallet # NoWallet /\ view # v
    /\ view' = v
    /\ Leave /\ sending' = NoPage
    /\ UNCHANGED <<wallet, server, ledger, connects>>

(* NewOrder's submit, with the wallet of its render.                       *)
Submit ==
    /\ wallet # NoWallet /\ view = New /\ sending = NoPage
    /\ Len(asked) < MaxOrders
    /\ sending' = Len(asked) + 1
    /\ asked' = Append(asked, wallet)
    /\ pending' = pending \union {Len(asked) + 1}
    /\ UNCHANGED <<app, created, late, screen, payCalls, ledger, connects>>

(* onCreated belongs to App, which may have moved on.  From the page of    *)
(* another order the same Order stays mounted, with what it has loaded.    *)
Created(o) ==
    /\ o \in pending
    /\ pending' = pending \ {o}
    /\ created' = created \union {o}
    /\ late' = IF wallet = asked[o] THEN late ELSE late \union {o}
    /\ view' = o
    /\ \/ /\ view > 0 /\ wallet # NoWallet
          /\ stale' = stale \union {view}
          /\ UNCHANGED <<page, busyPay, payCalls>>
       \/ /\ view <= 0 \/ wallet = NoWallet
          /\ Leave
    /\ sending' = NoPage
    /\ UNCHANGED <<wallet, asked, ledger, connects>>

CreateFails(o) ==
    /\ o \in pending
    /\ pending' = pending \ {o}
    /\ sending' = IF sending = o THEN NoPage ELSE sending
    /\ UNCHANGED <<app, asked, created, late, screen, payCalls, ledger, connects>>

(* Orders lists those of the wallet.                                       *)
Open(o) ==
    /\ wallet # NoWallet /\ view = List
    /\ o \in created /\ asked[o] = wallet
    /\ view' = o
    /\ Leave
    /\ UNCHANGED <<wallet, sending, server, ledger, connects>>

(* An answer to load: nothing asks whether it is for the order in view.  A *)
(* page polls, so any number of answers for an earlier one can be under way.*)
Loaded(o) ==
    /\ wallet # NoWallet /\ view > 0
    /\ o \in stale \union {view}
    /\ page' = o
    /\ UNCHANGED <<app, sending, server, stale, busyPay, payCalls, ledger, connects>>

-----------------------------------------------------------------------------
(* payWithWallet.                                                          *)

(* The button; it is disabled only once the phase is set.                  *)
Pay ==
    /\ wallet # NoWallet /\ page # NoPage /\ ~ busyPay
    /\ Len(payCalls) < MaxCalls
    /\ payCalls' = Append(payCalls, [order |-> page, payer |-> wallet, here |-> TRUE,
                                     at |-> "sdk", seq |-> 0, saw |-> 0])
    /\ UNCHANGED <<app, sending, server, screen, ledger, connects>>

Step(i, from, to) ==
    payCalls[i].at = from /\ payCalls' = [payCalls EXCEPT ![i].at = to]

(* setPhase; of a component that is gone it does nothing.                  *)
SetPhase(i, b) == busyPay' = IF payCalls[i].here THEN b ELSE busyPay

SdkLoaded(i) ==
    /\ Step(i, "sdk", "building")
    /\ SetPhase(i, TRUE)
    /\ UNCHANGED <<app, sending, server, page, stale, ledger, connects>>

Built(c, seq) ==
    [c EXCEPT !.at = "signing", !.saw = sequence[c.payer], !.seq = seq]

(* Mutant of LoadAccount: one account object for all calls, whose sequence *)
(* the transaction builder counts up.                                      *)
LoadAccountOnce(i) ==
    /\ payCalls[i].at = "building"
    /\ payCalls' = [payCalls EXCEPT ![i] =
         Built(@, Cardinality({j \in DOMAIN payCalls :
                    /\ payCalls[j].payer = payCalls[i].payer
                    /\ payCalls[j].at \in {"signing", "submitting", "over"}}))]
    /\ UNCHANGED <<app, sending, server, screen, ledger, connects>>

LoadAccount(i) ==
    /\ payCalls[i].at = "building"
    /\ payCalls' = [payCalls EXCEPT ![i] = Built(@, sequence[@.payer])]
    /\ UNCHANGED <<app, sending, server, screen, ledger, connects>>

SignAndSubmit(i) ==
    /\ Step(i, "signing", "submitting")
    /\ pool' = pool \union {i}
    /\ UNCHANGED <<app, sending, server, screen, applied, sequence, connects>>

(* submitTransaction answers, or a step fails; an error does not say that  *)
(* the transaction will not apply.                                         *)
PayEnds(i) ==
    /\ payCalls[i].at # "over"
    /\ Step(i, payCalls[i].at, "over")
    /\ SetPhase(i, FALSE)
    /\ UNCHANGED <<app, sending, server, page, stale, ledger, connects>>

(* The ledger takes a transaction that has the next sequence number.       *)
Apply(i) ==
    /\ i \in pool
    /\ payCalls[i].seq = sequence[payCalls[i].payer]
    /\ pool' = pool \ {i}
    /\ applied' = Append(applied, i)
    /\ sequence' = [sequence EXCEPT ![payCalls[i].payer] = @ + 1]
    /\ UNCHANGED <<app, sending, server, screen, payCalls, connects>>

(* setTimeout(180).                                                        *)
Expire(i) ==
    /\ i \in pool
    /\ pool' = pool \ {i}
    /\ UNCHANGED <<app, sending, server, screen, payCalls, applied, sequence, connects>>

WebNext ==
    \/ \E w \in Wallets : Connect(w)
    \/ Disconnect \/ Navigate(New) \/ Navigate(List)
    \/ Submit \/ Pay
    \/ \E o \in DOMAIN asked : Created(o) \/ CreateFails(o) \/ Open(o) \/ Loaded(o)
    \/ \E i \in DOMAIN payCalls :
           \/ SdkLoaded(i) \/ LoadAccount(i) \/ SignAndSubmit(i) \/ PayEnds(i)
           \/ Apply(i) \/ Expire(i)

WebSpec == WebInit /\ [][WebNext]_webVars

-----------------------------------------------------------------------------
(* Properties.                                                             *)

(* An order is paid by the wallet that asked for it, which the backend     *)
(* insists on (wrong_buyer_wallet), through every change of wallet and     *)
(* answers of an earlier order (App.tsx:329-345): with one exception, an   *)
(* order whose answer arrives under another wallet (140-143, 224-229).     *)
PayerIsBuyer ==
    \A i \in DOMAIN payCalls :
        payCalls[i].payer = asked[payCalls[i].order] \/ payCalls[i].order \in late

(* A double click, or a second try after an error, does not pay twice by   *)
(* itself: of two payments of a wallet that applied, the later one was     *)
(* built on an account that shows the earlier (pay.ts:31-43, 76).          *)
SecondPaymentLooksFirst ==
    \A n \in DOMAIN applied : \A m \in 1..n - 1 :
        LET first  == payCalls[applied[m]]
            second == payCalls[applied[n]]
        IN  first.payer = second.payer => second.saw > first.saw
=============================================================================
