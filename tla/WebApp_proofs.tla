---------------------------- MODULE WebApp_proofs ----------------------------
(***************************************************************************)
(* Proofs about the web client, for any number of wallets, orders and      *)
(* payments: an order is paid by the wallet that asked for it, and of two  *)
(* payments of a wallet the later one was built on an account that shows   *)
(* the earlier.  And about amounts, for any maximum, balances and number   *)
(* of places: the one that was typed is the one at every station.          *)
(***************************************************************************)
EXTENDS WebApp, Amounts, SequenceTheorems, WellFoundedInduction, TLAPS

Stages == {"sdk", "building", "signing", "submitting", "over"}

Call == [order : Nat, payer : Wallets, here : BOOLEAN, at : Stages,
         seq : Nat, saw : Nat]

WebType ==
    /\ wallet \in Wallets \union {NoWallet}
    /\ asked \in Seq(Wallets)
    /\ view \in {New, List} \union 1..Len(asked)
    /\ page \in 0..Len(asked) /\ stale \subseteq 1..Len(asked)
    /\ pending \subseteq 1..Len(asked)
    /\ created \subseteq 1..Len(asked)
    /\ payCalls \in Seq(Call)
    /\ \A i \in 1..Len(payCalls) : payCalls[i].order \in 1..Len(asked)
    /\ pool \subseteq 1..Len(payCalls)
    /\ applied \in Seq(Nat)
    /\ \A n \in 1..Len(applied) : applied[n] \in 1..Len(payCalls)
    /\ sequence \in [Wallets -> Nat]

(* What is on the screen is the wallet's, or came late; so is what is paid.*)
Buyer ==
    /\ page # NoPage => wallet = asked[page] \/ page \in late
    /\ \A o \in stale : wallet = asked[o] \/ o \in late
    /\ view > 0 /\ wallet # NoWallet => wallet = asked[view] \/ view \in late
    /\ PayerIsBuyer

(* A transaction has the sequence number its builder saw, and the account  *)
(* has moved on from that of one that applied.                             *)
Looks ==
    /\ \A i \in 1..Len(payCalls) :
           payCalls[i].at \in {"signing", "submitting"} =>
               payCalls[i].seq = payCalls[i].saw
    /\ \A i \in pool : /\ payCalls[i].at \in {"submitting", "over"}
                       /\ payCalls[i].seq = payCalls[i].saw
    /\ \A n \in 1..Len(applied) :
           /\ payCalls[applied[n]].at \in {"submitting", "over"}
           /\ payCalls[applied[n]].saw < sequence[payCalls[applied[n]].payer]
    /\ SecondPaymentLooksFirst

WebInv == WebType /\ Buyer /\ Looks

-----------------------------------------------------------------------------
(* Steps that leave what the properties know of the calls.                 *)

Same(c, d) ==
    c.order = d.order /\ c.payer = d.payer /\ c.seq = d.seq /\ c.saw = d.saw

SameCalls ==
    /\ payCalls' \in Seq(Call) /\ Len(payCalls') = Len(payCalls)
    /\ \A i \in 1..Len(payCalls) : /\ Same(payCalls[i], payCalls'[i])
                                   /\ payCalls'[i].at = payCalls[i].at

(* A component that is gone takes nothing of its calls with it.            *)
LEMMA LeaveKeeps ==
    ASSUME WebType, Leave
    PROVE  SameCalls /\ page' = NoPage /\ stale' = {}
<1>1. payCalls \in [1..Len(payCalls) -> Call] /\ Len(payCalls) \in Nat
    BY LenProperties DEF WebType
<1>2. payCalls' = [i \in 1..Len(payCalls) |-> [payCalls[i] EXCEPT !.here = FALSE]]
    BY <1>1 DEF Leave
<1>3. \A i \in 1..Len(payCalls) :
          /\ [payCalls[i] EXCEPT !.here = FALSE] \in Call
          /\ Same(payCalls[i], [payCalls[i] EXCEPT !.here = FALSE])
          /\ [payCalls[i] EXCEPT !.here = FALSE].at = payCalls[i].at
    BY <1>1 DEF Call, Same
<1>4. payCalls' \in [1..Len(payCalls) -> Call]
    BY <1>2, <1>3
<1>5. payCalls' \in Seq(Call) /\ Len(payCalls') = Len(payCalls)
    BY <1>1, <1>4, SeqDef
<1> QED BY <1>2, <1>3, <1>5 DEF SameCalls, Leave

(* Nothing happens to the calls.                                           *)
LEMMA UnchangedKeeps ==
    ASSUME WebType, payCalls' = payCalls
    PROVE  SameCalls
BY DEF SameCalls, Same, WebType

(* The payments that apply are judged by what these steps leave.           *)
LEMMA LooksStay ==
    ASSUME WebType, Looks, SameCalls, UNCHANGED ledger
    PROVE  Looks'
<1>1. DOMAIN applied = 1..Len(applied)
    BY LenProperties DEF WebType
<1>2. UNCHANGED <<pool, applied, sequence>>
    BY DEF ledger
<1>3. \A i \in 1..Len(payCalls) :
          /\ payCalls'[i].payer = payCalls[i].payer /\ payCalls'[i].at = payCalls[i].at
          /\ payCalls'[i].seq = payCalls[i].seq /\ payCalls'[i].saw = payCalls[i].saw
    BY DEF SameCalls, Same
<1>4. \A n \in 1..Len(applied) : applied[n] \in 1..Len(payCalls)
    BY DEF WebType
<1>5. \A n \in 1..Len(applied) : \A m \in 1..n - 1 : m \in 1..Len(applied)
    BY LenProperties DEF WebType
<1>6. SecondPaymentLooksFirst'
    BY <1>1, <1>2, <1>3, <1>4, <1>5 DEF Looks, SecondPaymentLooksFirst
<1>7. \A i \in pool : i \in 1..Len(payCalls)
    BY DEF WebType
<1>8. Len(payCalls') = Len(payCalls)
    BY DEF SameCalls
<1> QED BY <1>2, <1>3, <1>4, <1>6, <1>7, <1>8 DEF Looks

(* Neither do they change who has paid what.                               *)
LEMMA PayersStay ==
    ASSUME WebType, Buyer, SameCalls, late \subseteq late',
           \A o \in 1..Len(asked) : asked'[o] = asked[o]
    PROVE  PayerIsBuyer'
<1>1. DOMAIN payCalls = 1..Len(payCalls) /\ DOMAIN payCalls' = 1..Len(payCalls)
    BY LenProperties DEF WebType, SameCalls
<1> SUFFICES ASSUME NEW i \in 1..Len(payCalls)
             PROVE  \/ payCalls'[i].payer = asked'[payCalls'[i].order]
                    \/ payCalls'[i].order \in late'
    BY <1>1 DEF PayerIsBuyer
<1>2. payCalls[i].payer = asked[payCalls[i].order] \/ payCalls[i].order \in late
    BY <1>1 DEF Buyer, PayerIsBuyer
<1>3. payCalls'[i].payer = payCalls[i].payer /\ payCalls'[i].order = payCalls[i].order
    BY DEF SameCalls, Same
<1>4. asked'[payCalls[i].order] = asked[payCalls[i].order]
    BY DEF WebType
<1> QED BY <1>2, <1>3, <1>4

(* The orders asked for so far stay what they are.                         *)
LEMMA TypeStays ==
    ASSUME WebType, SameCalls, UNCHANGED <<asked, created, pending>>, UNCHANGED ledger,
           wallet' \in Wallets \union {NoWallet},
           view' \in {New, List} \union 1..Len(asked), page' \in 0..Len(asked),
           stale' \subseteq 1..Len(asked)
    PROVE  WebType'
BY DEF WebType, SameCalls, Same, ledger

-----------------------------------------------------------------------------
(* Nobody has asked for anything in the beginning.                         *)
LEMMA WebStarts == WebInit => WebInv
<1> SUFFICES ASSUME WebInit PROVE WebInv
    OBVIOUS
<1>1. WebType
    BY DEF WebInit, WebType, NoWallet, New, NoPage
<1>2. Buyer
    BY DEF WebInit, Buyer, PayerIsBuyer, New, NoPage
<1>3. Looks
    BY DEF WebInit, Looks, SecondPaymentLooksFirst
<1> QED BY <1>1, <1>2, <1>3 DEF WebInv

(* Connecting, disconnecting and going elsewhere.                          *)
LEMMA LeavingKeeps ==
    ASSUME WebInv, Leave, UNCHANGED server, UNCHANGED ledger,
           wallet' \in Wallets \union {NoWallet},
           view' \in {New, List} \union 1..Len(asked),
           view' > 0 /\ wallet' # NoWallet =>
               wallet' = asked[view'] \/ view' \in late
    PROVE  WebInv'
<1>1. SameCalls /\ page' = NoPage /\ stale' = {}
    BY LeaveKeeps DEF WebInv
<1>2. UNCHANGED <<asked, created, pending, late>>
    BY DEF server
<1>3. page' \in 0..Len(asked)
    BY <1>1, LenProperties DEF WebInv, WebType, NoPage
<1>4. WebType'
    BY <1>1, <1>2, <1>3, TypeStays DEF WebInv
<1>5. PayerIsBuyer'
    BY <1>1, <1>2, PayersStay DEF WebInv
<1>6. Buyer'
    BY <1>1, <1>2, <1>5 DEF Buyer
<1>7. Looks'
    BY <1>1, LooksStay DEF WebInv
<1> QED BY <1>4, <1>6, <1>7 DEF WebInv

(* What only changes the stage of a call, or what its transaction saw while*)
(* it is being built.                                                      *)
LEMMA StageKeeps ==
    ASSUME WebInv, NEW i \in 1..Len(payCalls), NEW c \in Call,
           payCalls' = [payCalls EXCEPT ![i] = c],
           c.order = payCalls[i].order, c.payer = payCalls[i].payer
    PROVE  /\ payCalls' \in Seq(Call) /\ Len(payCalls') = Len(payCalls)
           /\ \A j \in 1..Len(payCalls) :
                  payCalls'[j] = IF j = i THEN c ELSE payCalls[j]
           /\ \A j \in 1..Len(payCalls) : /\ payCalls'[j].order = payCalls[j].order
                                           /\ payCalls'[j].payer = payCalls[j].payer
<1>1. /\ payCalls' \in Seq(Call) /\ Len(payCalls') = Len(payCalls)
      /\ \A j \in 1..Len(payCalls) :
             payCalls'[j] = IF j = i THEN c ELSE payCalls[j]
    BY ExceptSeq DEF WebInv, WebType
<1> QED BY <1>1

(* The buyer's side of such a step.                                        *)
LEMMA StageKeepsBuyer ==
    ASSUME WebInv, UNCHANGED app, UNCHANGED server, page' = page, stale' = stale,
           payCalls' \in Seq(Call), Len(payCalls') = Len(payCalls),
           \A j \in 1..Len(payCalls) : /\ payCalls'[j].order = payCalls[j].order
                                       /\ payCalls'[j].payer = payCalls[j].payer
    PROVE  Buyer'
<1>1. DOMAIN payCalls = 1..Len(payCalls) /\ DOMAIN payCalls' = 1..Len(payCalls)
    BY LenProperties DEF WebInv, WebType
<1>2. UNCHANGED <<wallet, view, asked, late>>
    BY DEF app, server
<1>3. PayerIsBuyer'
    BY <1>1, <1>2 DEF WebInv, Buyer, PayerIsBuyer
<1> QED BY <1>2, <1>3 DEF WebInv, Buyer

(* The ledger's side: what is in the pool or has applied keeps its stage.  *)
LEMMA StageKeepsLooks ==
    ASSUME WebInv, NEW i \in 1..Len(payCalls), UNCHANGED <<applied, sequence>>,
           Len(payCalls') = Len(payCalls),
           \A j \in 1..Len(payCalls) : payCalls'[j].payer = payCalls[j].payer,
           \A j \in 1..Len(payCalls) : j # i => payCalls'[j] = payCalls[j],
           payCalls[i].at \in {"submitting", "over"} =>
               /\ payCalls'[i].saw = payCalls[i].saw /\ payCalls'[i].seq = payCalls[i].seq
               /\ payCalls'[i].at \in {"submitting", "over"},
           payCalls'[i].at \in {"signing", "submitting"} =>
               payCalls'[i].seq = payCalls'[i].saw,
           pool' \subseteq pool \union {i},
           i \in pool' \ pool => /\ payCalls'[i].at = "submitting"
                                 /\ payCalls'[i].seq = payCalls'[i].saw
    PROVE  Looks'
<1> USE DEF WebInv
<1>1. \A n \in 1..Len(applied) : applied[n] \in 1..Len(payCalls)
    BY DEF WebType
<1>2. \A n \in 1..Len(applied) :
          /\ payCalls'[applied[n]].at \in {"submitting", "over"}
          /\ payCalls'[applied[n]].saw = payCalls[applied[n]].saw
          /\ payCalls'[applied[n]].payer = payCalls[applied[n]].payer
    BY <1>1 DEF Looks
<1>3. DOMAIN applied = 1..Len(applied) /\ Len(applied) \in Nat
    BY LenProperties DEF WebType
<1>4. \A n \in 1..Len(applied) : \A m \in 1..n - 1 : m \in 1..Len(applied)
    BY <1>3
<1>5. SecondPaymentLooksFirst'
  <2> SUFFICES ASSUME NEW n \in 1..Len(applied), NEW m \in 1..n - 1,
                      payCalls'[applied[m]].payer = payCalls'[applied[n]].payer
               PROVE  payCalls'[applied[n]].saw > payCalls'[applied[m]].saw
    BY <1>3 DEF SecondPaymentLooksFirst
  <2>1. m \in 1..Len(applied)
    BY <1>4
  <2>2. payCalls[applied[m]].payer = payCalls[applied[n]].payer
    BY <1>2, <2>1
  <2>3. payCalls[applied[n]].saw > payCalls[applied[m]].saw
    BY <1>3, <2>2 DEF Looks, SecondPaymentLooksFirst
  <2> QED BY <1>2, <2>1, <2>3
<1>6. \A j \in pool : j \in 1..Len(payCalls)
    BY DEF WebType
<1>7. \A j \in pool' : /\ payCalls'[j].at \in {"submitting", "over"}
                       /\ payCalls'[j].seq = payCalls'[j].saw
    BY <1>6 DEF Looks
<1>8. \A j \in 1..Len(payCalls') :
          payCalls'[j].at \in {"signing", "submitting"} =>
              payCalls'[j].seq = payCalls'[j].saw
    BY DEF Looks
<1>9. \A n \in 1..Len(applied') :
          payCalls'[applied'[n]].saw < sequence'[payCalls'[applied'[n]].payer]
    BY <1>2 DEF Looks
<1> QED BY <1>2, <1>5, <1>7, <1>8, <1>9 DEF Looks

-----------------------------------------------------------------------------
(* Every step of the client and of the ledger keeps the invariant.         *)

LEMMA WebKeeps == WebInv /\ [WebNext]_webVars => WebInv'
<1> SUFFICES ASSUME WebInv, [WebNext]_webVars PROVE WebInv'
    OBVIOUS
<1> USE DEF WebInv
<1>d. /\ DOMAIN payCalls = 1..Len(payCalls) /\ DOMAIN asked = 1..Len(asked)
      /\ Len(payCalls) \in Nat /\ Len(asked) \in Nat
    BY LenProperties DEF WebType
<1>1. ASSUME NEW w \in Wallets, Connect(w) PROVE WebInv'
    BY <1>1, LeavingKeeps DEF Connect, New
<1>2. CASE Disconnect
    BY <1>2, LeavingKeeps DEF Disconnect, WebType
<1>3. ASSUME NEW v \in {New, List}, Navigate(v) PROVE WebInv'
  <2>1. /\ Leave /\ view' = v /\ wallet' = wallet
        /\ UNCHANGED server /\ UNCHANGED ledger
    BY <1>3 DEF Navigate
  <2>2. view' \in {New, List} \union 1..Len(asked) /\ ~ (view' > 0)
    BY <2>1 DEF New, List
  <2>3. wallet' \in Wallets \union {NoWallet}
    BY <2>1 DEF WebType
  <2> QED BY <2>1, <2>2, <2>3, LeavingKeeps
<1>4. ASSUME NEW o \in 1..Len(asked), Open(o) PROVE WebInv'
    BY <1>4, LeavingKeeps DEF Open, WebType
<1>5. CASE Submit
  <2>1. /\ wallet \in Wallets /\ asked' = Append(asked, wallet)
        /\ pending' = pending \union {Len(asked) + 1}
        /\ UNCHANGED <<wallet, view, created, late, page, stale, payCalls>> /\ UNCHANGED ledger
    BY <1>5 DEF Submit, WebType, app, screen
  <2>2. /\ asked' \in Seq(Wallets) /\ Len(asked') = Len(asked) + 1
        /\ \A o \in 1..Len(asked) : asked'[o] = asked[o]
    BY <2>1, AppendProperties DEF WebType
  <2>a. 1..Len(asked) \subseteq 1..Len(asked') /\ Len(asked) + 1 \in 1..Len(asked')
    BY <2>2, <1>d
  <2>b. 0..Len(asked) \subseteq 0..Len(asked')
    BY <2>2, <1>d
  <2>c. /\ view \in {New, List} \union 1..Len(asked')
        /\ page \in 0..Len(asked') /\ stale \subseteq 1..Len(asked')
        /\ pending' \subseteq 1..Len(asked') /\ created \subseteq 1..Len(asked')
    BY <2>1, <2>a, <2>b DEF WebType
  <2>d. \A i \in 1..Len(payCalls) : payCalls[i].order \in 1..Len(asked')
    BY <2>a DEF WebType
  <2>e. wallet' \in Wallets \union {NoWallet}
    BY <2>1
  <2>f. UNCHANGED <<pool, applied, sequence>>
    BY <2>1 DEF ledger
  <2>3. WebType'
    BY <2>1, <2>2, <2>c, <2>d, <2>e, <2>f DEF WebType
  <2>4. SameCalls
    BY <2>1, UnchangedKeeps
  <2>5. PayerIsBuyer'
    BY <2>1, <2>2, <2>4, PayersStay
  <2>6. page # NoPage => asked'[page] = asked[page]
    BY <2>2 DEF WebType, NoPage
  <2>7. view > 0 => asked'[view] = asked[view]
    BY <2>2 DEF WebType, New, List
  <2>h. \A o \in stale : asked'[o] = asked[o]
    BY <2>2 DEF WebType
  <2>8. Buyer'
    BY <2>1, <2>5, <2>6, <2>7, <2>h DEF Buyer
  <2>9. Looks'
    BY <2>1, <2>4, LooksStay
  <2> QED BY <2>3, <2>8, <2>9
<1>6. ASSUME NEW o \in 1..Len(asked), Created(o) PROVE WebInv'
  <2>1. /\ pending' = pending \ {o} /\ created' = created \union {o}
        /\ late' = (IF wallet = asked[o] THEN late ELSE late \union {o})
        /\ view' = o /\ UNCHANGED <<wallet, asked>> /\ UNCHANGED ledger
    BY <1>6 DEF Created
  <2>2. /\ SameCalls /\ page' \in {page, NoPage}
        /\ \/ stale' = stale \union {view} /\ view > 0 /\ wallet # NoWallet
           \/ stale' = {}
    BY <1>6, LeaveKeeps, UnchangedKeeps DEF Created
  <2>3. page' \in 0..Len(asked) /\ stale' \subseteq 1..Len(asked)
    <3>1. view > 0 => view \in 1..Len(asked)
      BY <1>d DEF WebType, New, List
    <3>2. stale' \subseteq 1..Len(asked)
      <4>1. stale \subseteq 1..Len(asked)
        BY DEF WebType
      <4>2. CASE stale' = {}
        BY <4>2
      <4>3. CASE stale' = stale \union {view} /\ view \in 1..Len(asked)
        BY <4>1, <4>3
      <4> QED BY <2>2, <3>1, <4>2, <4>3
    <3> QED BY <2>2, <3>2, <1>d DEF WebType, NoPage
  <2>4. WebType'
    BY <2>1, <2>2, <2>3, <1>d DEF WebType, SameCalls, Same, ledger
  <2>5. PayerIsBuyer'
    BY <2>1, <2>2, PayersStay
  <2>6. wallet' = asked'[view'] \/ view' \in late'
    BY <2>1
  <2>7. page' # NoPage => wallet' = asked'[page'] \/ page' \in late'
    BY <2>1, <2>2 DEF Buyer
  <2>a. \A p \in stale' : wallet' = asked'[p] \/ p \in late'
    BY <2>1, <2>2 DEF Buyer
  <2>8. Buyer'
    BY <2>5, <2>6, <2>7, <2>a DEF Buyer
  <2>9. Looks'
    BY <2>1, <2>2, LooksStay
  <2> QED BY <2>4, <2>8, <2>9
<1>7. ASSUME NEW o \in 1..Len(asked), CreateFails(o) PROVE WebInv'
  <2>1. /\ pending' = pending \ {o}
        /\ UNCHANGED <<wallet, view, asked, created, late, page, stale, payCalls>>
        /\ UNCHANGED ledger
    BY <1>7 DEF CreateFails, app, screen
  <2>2. SameCalls
    BY <2>1, UnchangedKeeps
  <2>3. WebType'
    BY <2>1 DEF WebType, ledger
  <2>4. PayerIsBuyer'
    BY <2>1, <2>2, PayersStay
  <2>5. Buyer'
    BY <2>1, <2>4 DEF Buyer
  <2>6. Looks'
    BY <2>1, <2>2, LooksStay
  <2> QED BY <2>3, <2>5, <2>6
<1>8. ASSUME NEW o \in 1..Len(asked), Loaded(o) PROVE WebInv'
  <2>1. /\ wallet # NoWallet /\ view > 0 /\ page' = o /\ o \in stale \union {view}
        /\ UNCHANGED <<wallet, view, asked, created, pending, late, stale, payCalls>>
        /\ UNCHANGED ledger
    BY <1>8 DEF Loaded, app, server
  <2>2. SameCalls
    BY <2>1, UnchangedKeeps
  <2>3. WebType'
    BY <2>1, <1>d DEF WebType, ledger, New, List
  <2>4. PayerIsBuyer'
    BY <2>1, <2>2, PayersStay
  <2>5. Buyer'
    BY <2>1, <2>4 DEF Buyer
  <2>6. Looks'
    BY <2>1, <2>2, LooksStay
  <2> QED BY <2>3, <2>5, <2>6
<1>9. CASE Pay
  <2> DEFINE c == [order |-> page, payer |-> wallet, here |-> TRUE,
                   at |-> "sdk", seq |-> 0, saw |-> 0]
  <2>1. /\ wallet # NoWallet /\ page # NoPage /\ payCalls' = Append(payCalls, c)
        /\ UNCHANGED <<wallet, view, asked, created, pending, late, page, stale>>
        /\ UNCHANGED <<pool, applied, sequence>>
    BY <1>9 DEF Pay, app, server, screen, ledger
  <2>2. c \in Call /\ c.order \in 1..Len(asked)
    BY <2>1, <1>d DEF Call, Stages, WebType, NoPage
  <2>3. c.at = "sdk" /\ c.order = page /\ c.payer = wallet
    OBVIOUS
  <2> HIDE DEF c
  <2>4. /\ payCalls' \in Seq(Call) /\ Len(payCalls') = Len(payCalls) + 1
        /\ \A i \in 1..Len(payCalls) : payCalls'[i] = payCalls[i]
        /\ payCalls'[Len(payCalls) + 1] = c
    BY <2>1, <2>2, AppendProperties DEF WebType
  <2>5. DOMAIN payCalls' = 1..Len(payCalls) + 1
    BY <2>4, LenProperties
  <2>6. \A i \in 1..Len(payCalls') : i \in 1..Len(payCalls) \/ i = Len(payCalls) + 1
    BY <2>4, <1>d
  <2>7. WebType'
    <3>1. \A i \in 1..Len(payCalls') : payCalls'[i].order \in 1..Len(asked)
      BY <2>2, <2>4, <2>6 DEF WebType
    <3>2. 1..Len(payCalls) \subseteq 1..Len(payCalls')
      BY <2>4, <1>d
    <3>3. /\ pool \subseteq 1..Len(payCalls')
          /\ \A n \in 1..Len(applied) : applied[n] \in 1..Len(payCalls')
      BY <3>2 DEF WebType
    <3> QED BY <2>1, <2>4, <3>1, <3>3 DEF WebType
  <2>8. PayerIsBuyer'
    BY <2>1, <2>3, <2>4, <2>5, <2>6, <1>d DEF Buyer, PayerIsBuyer
  <2>9. Buyer'
    BY <2>1, <2>8 DEF Buyer
  <2>10. /\ \A n \in 1..Len(applied) : applied[n] \in 1..Len(payCalls)
         /\ \A i \in pool : i \in 1..Len(payCalls)
         /\ DOMAIN applied = 1..Len(applied) /\ Len(applied) \in Nat
    BY LenProperties DEF WebType
  <2>11. \A n \in 1..Len(applied) : \A m \in 1..n - 1 : m \in 1..Len(applied)
    BY <2>10
  <2>12. SecondPaymentLooksFirst'
    <3> SUFFICES ASSUME NEW n \in 1..Len(applied), NEW m \in 1..n - 1,
                        payCalls'[applied[m]].payer = payCalls'[applied[n]].payer
                 PROVE  payCalls'[applied[n]].saw > payCalls'[applied[m]].saw
      BY <2>1, <2>10 DEF SecondPaymentLooksFirst
    <3>1. m \in 1..Len(applied)
      BY <2>11
    <3>2. /\ payCalls'[applied[n]] = payCalls[applied[n]]
          /\ payCalls'[applied[m]] = payCalls[applied[m]]
      BY <2>4, <2>10, <3>1
    <3> QED BY <2>10, <3>2 DEF Looks, SecondPaymentLooksFirst
  <2>13. \A i \in 1..Len(payCalls') :
             payCalls'[i].at \in {"signing", "submitting"} =>
                 payCalls'[i].seq = payCalls'[i].saw
    BY <2>3, <2>4, <2>6 DEF Looks
  <2>14. Looks'
    BY <2>1, <2>4, <2>10, <2>12, <2>13 DEF Looks
  <2> QED BY <2>7, <2>9, <2>14
<1>10. ASSUME NEW i \in 1..Len(payCalls), NEW c \in Call,
              payCalls' = [payCalls EXCEPT ![i] = c],
              c.order = payCalls[i].order, c.payer = payCalls[i].payer,
              payCalls[i].at \in {"submitting", "over"} =>
                  c.saw = payCalls[i].saw /\ c.seq = payCalls[i].seq
                  /\ c.at \in {"submitting", "over"},
              c.at \in {"signing", "submitting"} => c.seq = c.saw,
              UNCHANGED <<wallet, view, asked, created, pending, late, page, stale>>,
              UNCHANGED <<applied, sequence>>,
              pool' \subseteq pool \union {i},
              i \in pool' \ pool => c.at = "submitting"
       PROVE  WebInv'
  <2>1. /\ payCalls' \in Seq(Call) /\ Len(payCalls') = Len(payCalls)
        /\ \A j \in 1..Len(payCalls) :
               payCalls'[j] = IF j = i THEN c ELSE payCalls[j]
        /\ \A j \in 1..Len(payCalls) : /\ payCalls'[j].order = payCalls[j].order
                                       /\ payCalls'[j].payer = payCalls[j].payer
    BY <1>10, StageKeeps
  <2>2. UNCHANGED app /\ UNCHANGED server
    BY <1>10 DEF app, server
  <2>3. Buyer'
    BY <1>10, <2>1, <2>2, StageKeepsBuyer
  <2>4. payCalls'[i] = c /\ \A j \in 1..Len(payCalls) : j # i => payCalls'[j] = payCalls[j]
    BY <2>1
  <2>5. Looks'
    BY <1>10, <2>1, <2>4, StageKeepsLooks
  <2>6. pool' \subseteq 1..Len(payCalls)
    BY <1>10 DEF WebType
  <2>7. WebType'
    BY <1>10, <2>1, <2>6 DEF WebType
  <2> QED BY <2>3, <2>5, <2>7
<1>11. ASSUME NEW i \in 1..Len(payCalls), SdkLoaded(i) PROVE WebInv'
  <2> DEFINE c == [payCalls[i] EXCEPT !.at = "building"]
  <2>1. payCalls[i] \in Call
    BY ElementOfSeq DEF WebType
  <2>2. c \in Call /\ c.order = payCalls[i].order /\ c.payer = payCalls[i].payer
    BY <2>1 DEF Call, Stages
  <2>3. payCalls[i].at = "sdk" /\ c.at = "building"
    BY <1>11, <2>1 DEF SdkLoaded, Step, Call
  <2>4. payCalls' = [payCalls EXCEPT ![i] = c]
    BY <1>11 DEF SdkLoaded, Step
  <2>5. /\ UNCHANGED <<wallet, view, asked, created, pending, late, page, stale>>
        /\ UNCHANGED <<pool, applied, sequence>>
    BY <1>11 DEF SdkLoaded, app, server, ledger
  <2> HIDE DEF c
  <2> QED BY <2>2, <2>3, <2>4, <2>5, <1>10
<1>12. ASSUME NEW i \in 1..Len(payCalls), LoadAccount(i) PROVE WebInv'
  <2> DEFINE c == Built(payCalls[i], sequence[payCalls[i].payer])
  <2>1. payCalls[i] \in Call
    BY ElementOfSeq DEF WebType
  <2>2. sequence[payCalls[i].payer] \in Nat
    BY <2>1 DEF Call, WebType
  <2>3. c \in Call /\ c.order = payCalls[i].order /\ c.payer = payCalls[i].payer
    BY <2>1, <2>2 DEF Call, Stages, Built
  <2>4. c.at = "signing" /\ c.seq = c.saw
    BY <2>1 DEF Built, Call
  <2>5. payCalls[i].at = "building"
    BY <1>12 DEF LoadAccount
  <2>6. payCalls' = [payCalls EXCEPT ![i] = c]
    BY <1>12 DEF LoadAccount
  <2>7. /\ UNCHANGED <<wallet, view, asked, created, pending, late, page, stale>>
        /\ UNCHANGED <<pool, applied, sequence>>
    BY <1>12 DEF LoadAccount, app, server, ledger, screen
  <2> HIDE DEF c
  <2> QED BY <2>3, <2>4, <2>5, <2>6, <2>7, <1>10
<1>14. ASSUME NEW i \in 1..Len(payCalls), SignAndSubmit(i) PROVE WebInv'
  <2> DEFINE c == [payCalls[i] EXCEPT !.at = "submitting"]
  <2>1. payCalls[i] \in Call
    BY ElementOfSeq DEF WebType
  <2>2. c \in Call /\ c.order = payCalls[i].order /\ c.payer = payCalls[i].payer
    BY <2>1 DEF Call, Stages
  <2>3. payCalls[i].at = "signing"
    BY <1>14 DEF SignAndSubmit, Step
  <2>4. c.at = "submitting" /\ c.seq = c.saw
    BY <2>1, <2>3 DEF Call, Looks
  <2>5. payCalls' = [payCalls EXCEPT ![i] = c]
    BY <1>14 DEF SignAndSubmit, Step
  <2>6. /\ UNCHANGED <<wallet, view, asked, created, pending, late, page, stale>>
        /\ UNCHANGED <<applied, sequence>> /\ pool' = pool \union {i}
    BY <1>14 DEF SignAndSubmit, app, server, screen
  <2> HIDE DEF c
  <2> QED BY <2>2, <2>3, <2>4, <2>5, <2>6, <1>10
<1>15. ASSUME NEW i \in 1..Len(payCalls), PayEnds(i) PROVE WebInv'
  <2> DEFINE c == [payCalls[i] EXCEPT !.at = "over"]
  <2>1. payCalls[i] \in Call
    BY ElementOfSeq DEF WebType
  <2>2. /\ c \in Call /\ c.order = payCalls[i].order /\ c.payer = payCalls[i].payer
        /\ c.saw = payCalls[i].saw /\ c.seq = payCalls[i].seq /\ c.at = "over"
    BY <2>1 DEF Call, Stages
  <2>3. payCalls' = [payCalls EXCEPT ![i] = c]
    BY <1>15 DEF PayEnds, Step
  <2>4. /\ UNCHANGED <<wallet, view, asked, created, pending, late, page, stale>>
        /\ UNCHANGED <<pool, applied, sequence>>
    BY <1>15 DEF PayEnds, app, server, ledger
  <2> HIDE DEF c
  <2> QED BY <2>2, <2>3, <2>4, <1>10
<1>16. ASSUME NEW i \in 1..Len(payCalls), Apply(i) PROVE WebInv'
  <2> DEFINE p == payCalls[i].payer
  <2>0. payCalls[i] \in Call
    BY ElementOfSeq DEF WebType
  <2>1. p \in Wallets /\ sequence[p] \in Nat /\ payCalls[i].saw \in Nat
    BY <2>0 DEF WebType, Call
  <2>2. /\ i \in pool /\ payCalls[i].seq = sequence[p] /\ pool' = pool \ {i}
        /\ applied' = Append(applied, i)
        /\ sequence' = [sequence EXCEPT ![p] = sequence[p] + 1]
        /\ UNCHANGED app /\ UNCHANGED server
        /\ page' = page /\ stale' = stale /\ payCalls' = payCalls
    BY <1>16 DEF Apply, screen
  <2>3. payCalls[i].saw = sequence[p] /\ payCalls[i].at \in {"submitting", "over"}
    BY <2>2 DEF Looks
  <2> HIDE DEF p
  <2>4. /\ applied' \in Seq(Nat) /\ Len(applied') = Len(applied) + 1
        /\ \A n \in 1..Len(applied) : applied'[n] = applied[n]
        /\ applied'[Len(applied) + 1] = i
    BY <2>2, AppendProperties DEF WebType
  <2>5. /\ DOMAIN applied' = 1..Len(applied) + 1 /\ DOMAIN applied = 1..Len(applied)
        /\ Len(applied) \in Nat
    BY <2>4, LenProperties DEF WebType
  <2>6. \A n \in 1..Len(applied') :
            n \in 1..Len(applied) \/ n = Len(applied) + 1
    BY <2>4, <2>5
  <2>7. \A w \in Wallets : sequence'[w] = IF w = p THEN sequence[w] + 1 ELSE sequence[w]
    BY <2>2 DEF WebType
  <2>8. sequence' \in [Wallets -> Nat]
    BY <2>1, <2>2 DEF WebType
  <2>9. UNCHANGED <<wallet, view, asked, created, pending, late>>
    BY <2>2 DEF app, server
  <2>10. pool' \subseteq 1..Len(payCalls)
    BY <2>2 DEF WebType
  <2>11. \A n \in 1..Len(applied') : applied'[n] \in 1..Len(payCalls)
    BY <2>4, <2>6 DEF WebType
  <2>12. WebType'
    BY <2>2, <2>4, <2>8, <2>9, <2>10, <2>11 DEF WebType
  <2>13. Buyer'
    BY <2>2, <2>9, StageKeepsBuyer DEF WebType
  <2>14. \A n \in 1..Len(applied) : /\ applied[n] \in 1..Len(payCalls)
                                    /\ payCalls[applied[n]] \in Call
    BY ElementOfSeq DEF WebType
  <2>15. \A n \in 1..Len(applied) :
             /\ payCalls[applied[n]].payer \in Wallets
             /\ sequence[payCalls[applied[n]].payer] \in Nat
             /\ payCalls[applied[n]].saw \in Nat
    BY <2>14 DEF Call, WebType
  <2>16. \A n \in 1..Len(applied') :
             /\ payCalls[applied'[n]].at \in {"submitting", "over"}
             /\ payCalls[applied'[n]].saw < sequence'[payCalls[applied'[n]].payer]
    <3> SUFFICES ASSUME NEW n \in 1..Len(applied')
                 PROVE  /\ payCalls[applied'[n]].at \in {"submitting", "over"}
                        /\ payCalls[applied'[n]].saw < sequence'[payCalls[applied'[n]].payer]
      OBVIOUS
    <3>1. CASE n \in 1..Len(applied)
      <4>1. /\ applied'[n] = applied[n]
            /\ payCalls[applied[n]].at \in {"submitting", "over"}
            /\ payCalls[applied[n]].saw < sequence[payCalls[applied[n]].payer]
        BY <2>4, <3>1 DEF Looks
      <4>2. PICK w \in Wallets : w = payCalls[applied[n]].payer
        BY <2>15, <3>1
      <4>3. sequence'[w] = sequence[w] \/ sequence'[w] = sequence[w] + 1
        BY <2>7
      <4>4. payCalls[applied[n]].saw \in Nat /\ sequence[w] \in Nat
        BY <2>15, <3>1, <4>2
      <4>5. payCalls[applied[n]].saw < sequence'[w]
        BY <4>1, <4>2, <4>3, <4>4
      <4> QED BY <4>1, <4>2, <4>5
    <3>2. CASE n = Len(applied) + 1
      <4>1. sequence'[p] = sequence[p] + 1
        BY <2>1, <2>7
      <4>2. payCalls[i].payer = p
        BY DEF p
      <4> QED BY <3>2, <4>1, <4>2, <2>1, <2>3, <2>4
    <3> QED BY <3>1, <3>2, <2>6
  <2>17. SecondPaymentLooksFirst'
    <3> SUFFICES ASSUME NEW n \in 1..Len(applied'), NEW m \in 1..n - 1,
                        payCalls[applied'[m]].payer = payCalls[applied'[n]].payer
                 PROVE  payCalls[applied'[n]].saw > payCalls[applied'[m]].saw
      BY <2>2, <2>4, <2>5 DEF SecondPaymentLooksFirst
    <3>1. m \in 1..Len(applied) /\ applied'[m] = applied[m]
      BY <2>4, <2>5
    <3>2. CASE n \in 1..Len(applied)
      <4>1. applied'[n] = applied[n]
        BY <2>4, <3>2
      <4> QED BY <2>5, <3>1, <3>2, <4>1 DEF Looks, SecondPaymentLooksFirst
    <3>3. CASE n = Len(applied) + 1
      <4>1. applied'[n] = i /\ payCalls[applied[m]].payer = p
        BY <2>4, <3>1, <3>3 DEF p
      <4>2. payCalls[applied[m]].saw < sequence[p]
        BY <3>1, <4>1 DEF Looks
      <4> QED BY <2>1, <2>3, <2>15, <3>1, <4>1, <4>2
    <3> QED BY <3>2, <3>3, <2>6
  <2>18. Looks'
    BY <2>2, <2>16, <2>17 DEF Looks
  <2> QED BY <2>12, <2>13, <2>18
<1>17. ASSUME NEW i \in 1..Len(payCalls), Expire(i) PROVE WebInv'
  <2>1. /\ pool' = pool \ {i} /\ UNCHANGED <<applied, sequence>>
        /\ UNCHANGED app /\ UNCHANGED server
        /\ page' = page /\ stale' = stale /\ payCalls' = payCalls
    BY <1>17 DEF Expire, screen
  <2>2. UNCHANGED <<wallet, view, asked, created, pending, late>>
    BY <2>1 DEF app, server
  <2>3. WebType'
    BY <2>1, <2>2 DEF WebType
  <2>4. Buyer'
    BY <2>1, <2>2, StageKeepsBuyer DEF WebType
  <2>5. SecondPaymentLooksFirst'
    BY <2>1 DEF Looks, SecondPaymentLooksFirst
  <2>6. Looks'
    BY <2>1, <2>5 DEF Looks
  <2> QED BY <2>3, <2>4, <2>6
<1>13. CASE UNCHANGED webVars
  <2>1. /\ SameCalls
        /\ UNCHANGED <<wallet, view, asked, created, pending, late, page, stale>>
        /\ UNCHANGED ledger
    BY <1>13, UnchangedKeeps DEF webVars, app, server, screen
  <2>2. WebType'
    BY <2>1, TypeStays DEF WebType
  <2>3. PayerIsBuyer'
    BY <2>1, PayersStay
  <2>4. Buyer'
    BY <2>1, <2>3 DEF Buyer
  <2>5. Looks'
    BY <2>1, LooksStay
  <2> QED BY <2>2, <2>4, <2>5
<1> QED BY <1>d, <1>1, <1>2, <1>3, <1>4, <1>5, <1>6, <1>7, <1>8, <1>9, <1>11, <1>12,
           <1>13, <1>14, <1>15, <1>16, <1>17 DEF WebNext

(* Through every change of wallet and page an order is paid by the wallet  *)
(* that asked for it, unless its answer came under another.                *)
THEOREM BuyerPays == WebSpec => []PayerIsBuyer
<1>1. WebInv => PayerIsBuyer
    BY DEF WebInv, Buyer
<1> QED BY <1>1, WebStarts, WebKeeps, PTL DEF WebSpec

(* Of two payments of a wallet that applied, the later one was built on an *)
(* account that shows the earlier, however many are started at once.       *)
THEOREM PaymentsLookFirst == WebSpec => []SecondPaymentLooksFirst
<1>1. WebInv => SecondPaymentLooksFirst
    BY DEF WebInv, Looks
<1> QED BY <1>1, WebStarts, WebKeeps, PTL DEF WebSpec

-----------------------------------------------------------------------------
(* Amounts.                                                                *)

(* A set of numbers that has 0 and with each number the next has them all. *)
LEMMA AllNumbers ==
    ASSUME NEW S \in SUBSET Nat, 0 \in S, \A n \in S : n + 1 \in S
    PROVE  S = Nat
<1> DEFINE R == OpToRel(<, Nat)
<1>1. IsWellFoundedOn(R, Nat)
    BY NatLessThanWellFounded, Zenon
<1>2. \A x, y \in Nat : <<x, y>> \in R <=> x < y
    BY DEF OpToRel
<1> HIDE DEF R
<1>3. SUFFICES ASSUME Nat \ S # {} PROVE FALSE
    OBVIOUS
<1>4. PICK m \in Nat \ S : \A k \in Nat \ S : ~ (<<k, m>> \in R)
    BY <1>1, <1>3, WFMin
<1>5. m - 1 \in Nat /\ m - 1 < m /\ (m - 1) + 1 = m
    BY <1>4
<1>6. m - 1 \in S
    BY <1>2, <1>4, <1>5
<1> QED BY <1>4, <1>5, <1>6

(* The powers of ten up to the n-th.                                       *)
PowersUpTo(n, f) ==
    /\ f \in [0..n -> Nat] /\ f[0] = 1
    /\ \A i \in 1..n : f[i] = 10 * f[i - 1]

(* There are powers of ten as far as one likes.                            *)
LEMMA PowersExist == \A n \in Nat : \E f : PowersUpTo(n, f)
<1> DEFINE S == {n \in Nat : \E f : PowersUpTo(n, f)}
<1>1. 0 \in S
  <2>1. PowersUpTo(0, [i \in 0..0 |-> 1])
    BY DEF PowersUpTo
  <2> QED BY <2>1
<1>2. ASSUME NEW n \in S PROVE n + 1 \in S
  <2>1. PICK f : PowersUpTo(n, f)
    OBVIOUS
  <2> DEFINE g == [i \in 0..n + 1 |-> IF i = n + 1 THEN 10 * f[n] ELSE f[i]]
  <2>2. n \in 0..n /\ f[n] \in Nat /\ 10 * f[n] \in Nat
    BY <2>1 DEF PowersUpTo
  <2>3. \A i \in 0..n + 1 : i # n + 1 => i \in 0..n /\ f[i] \in Nat
    BY <2>1 DEF PowersUpTo
  <2>4. g \in [0..n + 1 -> Nat] /\ g[0] = 1
    BY <2>1, <2>2, <2>3 DEF PowersUpTo
  <2>5. ASSUME NEW i \in 1..n + 1 PROVE g[i] = 10 * g[i - 1]
    <3>1. CASE i = n + 1
      BY <2>2, <3>1
    <3>2. CASE i # n + 1
      <4>1. i \in 1..n /\ i - 1 \in 0..n + 1 /\ i - 1 # n + 1 /\ i \in 0..n + 1
        BY <3>2
      <4> QED BY <2>1, <3>2, <4>1 DEF PowersUpTo
    <3> QED BY <3>1, <3>2
  <2> HIDE DEF g
  <2>6. PowersUpTo(n + 1, g)
    BY <2>4, <2>5 DEF PowersUpTo
  <2> QED BY <2>6
<1> HIDE DEF S
<1>3. S = Nat
    BY <1>1, <1>2, AllNumbers DEF S
<1> QED BY <1>3 DEF S

(* And no two lists of them.                                               *)
LEMMA PowersAgree ==
    ASSUME NEW m \in Nat, NEW n \in Nat, NEW f, NEW g, PowersUpTo(m, f), PowersUpTo(n, g)
    PROVE  \A i \in Nat : i <= m /\ i <= n => f[i] = g[i]
<1> DEFINE S == {i \in Nat : i <= m /\ i <= n => f[i] = g[i]}
<1>1. 0 \in S
    BY DEF PowersUpTo
<1>2. ASSUME NEW i \in S PROVE i + 1 \in S
  <2>1. SUFFICES ASSUME i + 1 <= m, i + 1 <= n PROVE f[i + 1] = g[i + 1]
    OBVIOUS
  <2>2. i + 1 \in 1..m /\ i + 1 \in 1..n /\ (i + 1) - 1 = i /\ i <= m /\ i <= n
    BY <2>1
  <2>3. f[i + 1] = 10 * f[i] /\ g[i + 1] = 10 * g[i]
    BY <2>2 DEF PowersUpTo
  <2> QED BY <2>2, <2>3
<1> HIDE DEF S
<1>3. S = Nat
    BY <1>1, <1>2, AllNumbers DEF S
<1> QED BY <1>3 DEF S

(* The recursive definition has the value it describes.                    *)
LEMMA PowersOfTen ==
    /\ Pow10[0] = 1
    /\ \A n \in Nat : Pow10[n] \in Nat /\ Pow10[n + 1] = 10 * Pow10[n]
<1> DEFINE F(n) == CHOOSE f : PowersUpTo(n, f)
           g == [n \in Nat |-> F(n)[n]]
<1>1. \A n \in Nat : PowersUpTo(n, F(n))
    BY PowersExist
<1> HIDE DEF F
<1>2. \A n \in Nat : g[n] = F(n)[n] /\ g[n] \in Nat
    BY <1>1 DEF PowersUpTo
<1>3. g[0] = 1
    BY <1>1 DEF PowersUpTo
<1>4. ASSUME NEW n \in Nat PROVE g[n + 1] = 10 * g[n]
  <2>1. PowersUpTo(n, F(n)) /\ PowersUpTo(n + 1, F(n + 1))
    BY <1>1
  <2>2. F(n + 1)[n] = F(n)[n]
    BY <2>1, PowersAgree
  <2>3. n + 1 \in 1..n + 1 /\ (n + 1) - 1 = n
    OBVIOUS
  <2>4. F(n + 1)[n + 1] = 10 * F(n + 1)[n]
    BY <2>1, <2>3 DEF PowersUpTo
  <2> QED BY <2>2, <2>4
<1> HIDE DEF g
<1>5. \A n \in Nat : n # 0 => n - 1 \in Nat /\ g[n] = 10 * g[n - 1]
  <2> SUFFICES ASSUME NEW n \in Nat, n # 0 PROVE n - 1 \in Nat /\ g[n] = 10 * g[n - 1]
    OBVIOUS
  <2>1. PICK k \in Nat : k = n - 1 /\ k + 1 = n
    OBVIOUS
  <2> QED BY <1>4, <2>1
<1>6. g = [n \in Nat |-> IF n = 0 THEN 1 ELSE 10 * g[n - 1]]
  <2>1. g = [n \in Nat |-> g[n]]
    BY DEF g
  <2>2. \A n \in Nat : g[n] = IF n = 0 THEN 1 ELSE 10 * g[n - 1]
    BY <1>3, <1>5
  <2> QED BY <2>1, <2>2
<1>7. Pow10 = [n \in Nat |-> IF n = 0 THEN 1 ELSE 10 * Pow10[n - 1]]
    BY <1>6, Zenon DEF Pow10
<1>8. Pow10[0] = 1
    BY <1>7
<1>9. \A n \in Nat : Pow10[n + 1] = 10 * Pow10[n]
  <2> TAKE n \in Nat
  <2>1. n + 1 \in Nat /\ n + 1 # 0 /\ (n + 1) - 1 = n
    OBVIOUS
  <2>2. \A k \in Nat : Pow10[k] = IF k = 0 THEN 1 ELSE 10 * Pow10[k - 1]
    BY <1>7, Zenon
  <2>3. Pow10[n + 1] = 10 * Pow10[(n + 1) - 1]
    BY <2>1, <2>2
  <2> QED BY <2>1, <2>3
<1> DEFINE S == {n \in Nat : Pow10[n] \in Nat}
<1>10. S = Nat
  <2>1. 0 \in S
    BY <1>8
  <2>2. \A n \in S : n + 1 \in S
    BY <1>9
  <2> HIDE DEF S
  <2>3. S \in SUBSET Nat
    BY DEF S
  <2> QED BY <2>1, <2>2, <2>3, AllNumbers
<1> QED BY <1>8, <1>9, <1>10

(* Division rounds down: the multiple below, and the next one above.       *)
LEMMA RoundsDown ==
    ASSUME NEW a \in Int, NEW u \in Nat \ {0}
    PROVE  /\ (a \div u) * u \in Int
           /\ (a \div u) * u <= a /\ a < (a \div u) * u + u
OBVIOUS

(* Rounding keeps the order.                                               *)
LEMMA MultiplesInOrder ==
    ASSUME NEW a \in Int, NEW b \in Int, NEW u \in Nat \ {0}, a <= b
    PROVE  (a \div u) * u <= (b \div u) * u
<1>1. a \div u \in Int /\ b \div u \in Int /\ a \div u <= b \div u
  OBVIOUS
<1>2. \A x, y \in Int : x <= y => x * u <= y * u
  OBVIOUS
<1> QED BY <1>1, <1>2

(* The doubles the form compares keep the order of the amounts up to the   *)
(* maximum, and mistake for it only what is less than a spacing above.     *)
LEMMA DoubleKeepsOrder ==
    ASSUME NEW v \in Int, v <= MaxFine
    PROVE  Double(v) <= Double(MaxFine)
<1> DEFINE u == Ulp
           h == Ulp \div 2
           M == MaxFine
<1>1. u \in Nat \ {0} /\ h \in Nat /\ M \in Nat /\ u <= M /\ u <= 2 * h + 1 /\ 0 < M
    BY AmountsAssumption DEF MaxFine
<1>2. Double(M) = ((M + h) \div u) * u
    BY <1>1 DEF Double
<1> HIDE DEF u, h, M
<1>3. /\ ((M + h) \div u) * u \in Int
      /\ M + h < ((M + h) \div u) * u + u
    BY <1>1, RoundsDown
<1>4. CASE 2 * v < M
  <2>1. Double(v) = v
    BY <1>4 DEF Double, M
  <2> QED BY <1>1, <1>2, <1>3, <1>4, <2>1 DEF M
<1>5. CASE ~ (2 * v < M)
  <2>1. Double(v) = ((v + h) \div u) * u
    BY <1>5 DEF Double, M, h, u
  <2>2. v + h \in Int /\ M + h \in Int /\ v + h <= M + h
    BY <1>1 DEF M
  <2>3. ((v + h) \div u) * u <= ((M + h) \div u) * u
    BY <1>1, <2>2, MultiplesInOrder
  <2> QED BY <1>2, <2>1, <2>3 DEF M
<1> QED BY <1>4, <1>5

(* What is not above the maximum as a double is not above it by a spacing. *)
LEMMA DoubleIsNear ==
    ASSUME NEW v \in Int, Double(v) <= Double(MaxFine)
    PROVE  v <= MaxFine + Ulp
<1> DEFINE u == Ulp
           h == Ulp \div 2
           M == MaxFine
<1>1. u \in Nat \ {0} /\ h \in Nat /\ M \in Nat /\ u <= M /\ u <= 2 * h + 1 /\ 0 < M
    BY AmountsAssumption DEF MaxFine
<1>2. Double(M) = ((M + h) \div u) * u
    BY <1>1 DEF Double
<1> HIDE DEF u, h, M
<1>3. CASE 2 * v < M
    BY <1>1, <1>3 DEF M, u
<1>4. CASE ~ (2 * v < M)
  <2>1. Double(v) = ((v + h) \div u) * u
    BY <1>4 DEF Double, M, h, u
  <2>2. /\ ((M + h) \div u) * u \in Int
        /\ ((M + h) \div u) * u <= M + h
    BY <1>1, RoundsDown
  <2>3. v + h \in Int
    BY <1>1
  <2>4. /\ ((v + h) \div u) * u \in Int
        /\ v + h < ((v + h) \div u) * u + u
    BY <1>1, <2>3, RoundsDown
  <2>5. Double(v) <= Double(M)
    BY DEF M
  <2>6. v <= M + u
    BY <1>1, <1>2, <2>1, <2>2, <2>4, <2>5
  <2> QED BY <2>6 DEF M, u
<1> QED BY <1>3, <1>4

(* A decimal of at most a stroop's places is a whole number of stroops.    *)
LEMMA WholeStroops ==
    ASSUME NEW d \in [units : Int, places : Int], d.places <= StellarDecimals
    PROVE  /\ stroops(d) \in Int
           /\ InFine(d) = stroops(d) * 10
           /\ stroops(StringFixed(d)) = stroops(d)
           /\ StringFixed(d).units = stroops(d)
<1>1. PICK k \in Nat : k = StellarDecimals - d.places /\ Fine - d.places = k + 1
    BY AmountsAssumption DEF Fine
<1>2. PICK p \in Nat : p = Pow10[k] /\ Pow10[k + 1] = 10 * p
    BY PowersOfTen
<1>3. stroops(d) = d.units * p
    BY <1>1, <1>2 DEF stroops
<1>4. InFine(d) = d.units * (10 * p)
    BY <1>1, <1>2 DEF InFine
<1>5. \A x, y \in Int : x * (10 * y) = (x * y) * 10 /\ x * y \in Int
    OBVIOUS
<1>6. StringFixed(d) = [units |-> stroops(d), places |-> StellarDecimals]
    BY DEF StringFixed
<1>7. StellarDecimals \in Nat /\ StellarDecimals <= StellarDecimals
    BY AmountsAssumption
<1>8. StellarDecimals - StellarDecimals = 0
    BY <1>7
<1>9. stroops(StringFixed(d)) = stroops(d) * 1
    BY <1>6, <1>7, <1>8, PowersOfTen DEF stroops
<1>10. stroops(d) \in Int
    BY <1>3, <1>5
<1> QED BY <1>3, <1>4, <1>5, <1>6, <1>9, <1>10

Decimal == [units : Int, places : Int]

(* What the form knows of the balance is what Horizon said, and the Max    *)
(* button has typed no more than that.                                     *)
Known ==
    /\ typed \in Decimal /\ typed.places <= Fine
    /\ \/ account = NoAnswer /\ balance.kind = "unknown"
       \/ /\ account \in Accounts
          /\ balance = [kind |-> account.kind, amount |-> toAmount(Free(account))]
    /\ viaMax => account \in Accounts /\ account.kind = "ok" /\ typed = balance.amount

(* What was answered is about what is still typed.                         *)
Answered ==
    /\ answer = "created" =>
           amount = typed /\ instruction = StringFixed(typed) /\ NormalizeAmount(typed)
    /\ answer = "refused" => ~ NormalizeAmount(typed) /\ (viaForm => validateAmount(typed))
    /\ answer = "invalid" => ~ validateAmount(typed)

AmountsInv == Known /\ Answered

(* What an account holds, and what of it is free, are amounts.             *)
LEMMA AccountFacts ==
    ASSUME NEW a \in Accounts
    PROVE  /\ a.held \in 0..MaxStroops /\ a.selling \in 0..MaxStroops
           /\ a.selling <= a.held
           /\ Free(a) \in 0..MaxStroops
           /\ a # NoAnswer
           /\ toAmount(Free(a)) \in Decimal /\ toAmount(Free(a)).places <= Fine
<1>1. StellarDecimals \in Nat /\ MaxStroops \in Nat /\ Held \subseteq 0..MaxStroops
    BY AmountsAssumption
<1>2. /\ a.held \in 0..MaxStroops /\ a.selling \in 0..MaxStroops
      /\ a.selling <= a.held /\ a.kind # "unknown"
  <2>1. CASE a \in {[kind |-> k, held |-> 0, selling |-> 0] : k \in {"no_account", "no_trustline"}}
    <3>1. PICK k \in {"no_account", "no_trustline"} : a = [kind |-> k, held |-> 0, selling |-> 0]
      BY <2>1
    <3> QED BY <1>1, <3>1
  <2>2. CASE a \in {b \in [kind : {"ok"}, held : Held, selling : Held] : b.selling <= b.held}
    BY <1>1, <2>2
  <2> QED BY <2>1, <2>2 DEF Accounts
<1>3. Free(a) \in 0..MaxStroops
    BY <1>1, <1>2 DEF Free
<1>4. a # NoAnswer
    BY <1>2 DEF NoAnswer
<1> QED BY <1>1, <1>2, <1>3, <1>4 DEF toAmount, Decimal, Fine

(* Nothing is known or answered in the beginning.                          *)
LEMMA AmountsStart == AmountsInit => AmountsInv
BY AmountsAssumption DEF AmountsInit, AmountsInv, Known, Answered, NoAnswer, Zero, Decimal, Fine

(* Every step of the form and of the API keeps the invariant.              *)
LEMMA AmountsKeep == AmountsInv /\ [AmountsNext]_amountVars => AmountsInv'
<1> SUFFICES ASSUME AmountsInv, [AmountsNext]_amountVars PROVE AmountsInv'
    OBVIOUS
<1> USE DEF AmountsInv, Known, Answered
<1>1. ASSUME NEW a \in Accounts, LookAtBalance(a) PROVE AmountsInv'
  <2>1. a # NoAnswer /\ account = NoAnswer /\ ~ viaMax
    BY <1>1, AccountFacts DEF LookAtBalance
  <2>2. account' = a /\ balance' = [kind |-> a.kind, amount |-> toAmount(Free(a))]
    BY <1>1 DEF LookAtBalance
  <2> QED BY <1>1, <2>1, <2>2 DEF LookAtBalance
<1>2. ASSUME NEW d, NEW max \in BOOLEAN, Fill(d, max), d \in Decimal, d.places <= Fine,
             max => account \in Accounts /\ account.kind = "ok" /\ d = balance.amount
      PROVE  AmountsInv'
    BY <1>2 DEF Fill
<1>3. CASE Type
  <2>1. PICK d \in Texts : Fill(d, FALSE)
    BY <1>3 DEF Type
  <2>2. d \in Decimal /\ d.places <= Fine
    BY AmountsAssumption DEF Texts, Decimal, Fine
  <2> QED BY <1>2, <2>1, <2>2
<1>4. CASE Max
  <2>1. account \in Accounts /\ account.kind = "ok"
    BY <1>4 DEF Max
  <2>2. balance.amount \in Decimal /\ balance.amount.places <= Fine
    BY <2>1, AccountFacts, <1>4 DEF Max
  <2>3. Fill(balance.amount, TRUE)
    BY <1>4 DEF Max
  <2> QED BY <1>2, <2>1, <2>2, <2>3
<1>5. ASSUME NEW form \in BOOLEAN, CreateOrder(form), form => validateAmount(typed)
      PROVE  AmountsInv'
  <2>1. Known'
    BY <1>5 DEF CreateOrder
  <2>2. CASE BuildInstruction(typed) = {} /\ answer' = "refused"
    <3>1. ~ NormalizeAmount(typed)
      BY <2>2 DEF BuildInstruction
    <3>2. typed' = typed /\ viaForm' = form
      BY <1>5 DEF CreateOrder
    <3>3. (~ NormalizeAmount(typed))' /\ (viaForm' => validateAmount(typed)')
      BY <1>5, <3>1, <3>2 DEF NormalizeAmount, validateAmount, InFine, Double
    <3> QED BY <2>1, <2>2, <3>3
  <2>3. CASE instruction' \in BuildInstruction(typed) /\ answer' = "created" /\ amount' = typed
    <3>1. NormalizeAmount(typed) /\ instruction' = StringFixed(typed)
      BY <2>3 DEF BuildInstruction
    <3>2. typed' = typed
      BY <1>5 DEF CreateOrder
    <3>3. NormalizeAmount(typed)' /\ instruction' = StringFixed(typed)'
      BY <3>1, <3>2 DEF NormalizeAmount, InFine, StringFixed, stroops
    <3> QED BY <2>1, <2>3, <3>2, <3>3
  <2> QED BY <1>5, <2>2, <2>3 DEF CreateOrder
<1>6. CASE SubmitForm
  <2>1. CASE validateAmount(typed)
    BY <1>5, <1>6, <2>1 DEF SubmitForm
  <2>2. CASE ~ validateAmount(typed)
    <3>1. answer' = "invalid" /\ UNCHANGED <<account, balance, typed, viaMax, amount, instruction>>
      BY <1>6, <2>2 DEF SubmitForm
    <3>2. (~ validateAmount(typed))'
      BY <2>2, <3>1 DEF validateAmount, InFine, Double
    <3>3. Known'
      BY <3>1
    <3> QED BY <3>1, <3>2, <3>3
  <2> QED BY <2>1, <2>2
<1>7. CASE PostOrder
    BY <1>5, <1>7 DEF PostOrder
<1>8. CASE UNCHANGED amountVars
    BY <1>8 DEF amountVars, NormalizeAmount, validateAmount, StringFixed, stroops, InFine
<1> QED BY <1>1, <1>3, <1>4, <1>6, <1>7, <1>8 DEF AmountsNext

(* What follows for the stations an amount passes.                         *)
LEMMA AmountsFollow == AmountsInv => AmountsAgree
<1> SUFFICES ASSUME AmountsInv PROVE AmountsAgree
    OBVIOUS
<1> USE DEF AmountsInv, Known, Answered
<1>1. StellarDecimals \in Nat /\ MaxFine \in Int /\ Ulp \in Nat
    BY AmountsAssumption DEF MaxFine
<1>2. ASSUME NormalizeAmount(typed), typed.places >= 0 PROVE validateAmount(typed)
  <2>1. InFine(typed) \in Int /\ InFine(typed) <= MaxFine
    BY <1>2, WholeStroops DEF NormalizeAmount, Decimal
  <2>2. typed.units > 0 /\ typed.places \in 0..StellarDecimals
    BY <1>1, <1>2 DEF NormalizeAmount, Decimal
  <2> QED BY <2>1, <2>2, DoubleKeepsOrder DEF validateAmount
<1>3. ASSUME answer = "created"
      PROVE  /\ instruction = StringFixed(amount)
             /\ instruction.units * 10 = InFine(typed)
             /\ OnChain(amount) = stroops(StringFixed(amount))
    BY <1>3, WholeStroops DEF NormalizeAmount, Decimal, OnChain
<1>4. ASSUME answer = "refused", viaForm PROVE InFine(typed) \in MaxFine + 1..MaxFine + Ulp
  <2>1. /\ typed.units > 0 /\ typed.places \in 0..StellarDecimals
        /\ Double(InFine(typed)) <= Double(MaxFine)
    BY <1>4 DEF validateAmount
  <2>2. InFine(typed) \in Int
    BY <2>1, WholeStroops, <1>1 DEF Decimal
  <2>3. InFine(typed) > MaxFine
    BY <1>1, <1>4, <2>1, <2>2 DEF NormalizeAmount
  <2>4. InFine(typed) <= MaxFine + Ulp
    BY <2>1, <2>2, DoubleIsNear
  <2> QED BY <1>1, <2>2, <2>3, <2>4
<1>5. ASSUME viaMax
      PROVE  /\ typed = balance.amount /\ ~ exceedsBalance(typed, balance.amount)
             /\ answer = "invalid" => typed.units = 0
             /\ typed.units > 0 => stroops(typed) + account.selling <= account.held
  <2>1. /\ account \in Accounts /\ typed = balance.amount
        /\ typed = [units |-> Free(account), places |-> StellarDecimals]
    <3>1. account \in Accounts /\ typed = balance.amount
      BY <1>5
    <3>2. balance.amount = toAmount(Free(account))
      BY <3>1, AccountFacts
    <3> QED BY <3>1, <3>2 DEF toAmount
  <2>2. /\ Free(account) \in 0..MaxStroops
        /\ account.held \in Int /\ account.selling \in Int
    BY <2>1, AccountFacts, AmountsAssumption
  <2>3. stroops(typed) = Free(account)
    <3>1. StellarDecimals - StellarDecimals = 0
      BY <1>1
    <3>2. stroops(typed) = Free(account) * 1
      BY <1>1, <2>1, <3>1, PowersOfTen DEF stroops
    <3> QED BY <2>2, <3>2
  <2>4. typed.units > 0 => validateAmount(typed)
    <3>1. InFine(typed) = Free(account) * 10
      BY <1>1, <2>1, <2>3, WholeStroops DEF Decimal
    <3>2. InFine(typed) <= MaxFine
      BY <2>2, <3>1, AmountsAssumption DEF MaxFine
    <3>3. typed.places <= StellarDecimals /\ typed.places >= 0
      BY <1>1, <2>1
    <3> QED BY <1>2, <3>2, <3>3 DEF NormalizeAmount
  <2>5. ~ exceedsBalance(typed, balance.amount)
    BY <2>1, <2>2, <2>3, AmountsAssumption DEF exceedsBalance
  <2>6. stroops(typed) + account.selling <= account.held
    <3>1. account.selling <= account.held
      BY <2>1, AccountFacts
    <3> QED BY <2>2, <2>3, <3>1 DEF Free
  <2>7. answer = "invalid" => typed.units = 0
    BY <2>1, <2>2, <2>4, AmountsAssumption
  <2> QED BY <2>1, <2>5, <2>6, <2>7
<1>6. answer = "created" /\ typed.places >= 0 => validateAmount(typed)
    BY <1>2
<1> QED BY <1>3, <1>4, <1>5, <1>6 DEF AmountsAgree

(* One amount at every station, for every maximum and every balance: the   *)
(* instruction, the row and the contract hold what was typed to the        *)
(* stroop; the API refuses what the form sent only above the maximum, by   *)
(* less than the spacing of doubles; Max can be spent.                     *)
THEOREM OneAmount == AmountsSpec => []AmountsAgree
<1>1. AmountsSpec => []AmountsInv
    BY AmountsStart, AmountsKeep, PTL DEF AmountsSpec
<1> QED BY <1>1, AmountsFollow, PTL
=============================================================================
