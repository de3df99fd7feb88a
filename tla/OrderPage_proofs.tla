-------------------------- MODULE OrderPage_proofs --------------------------
(***************************************************************************)
(* Proofs about OrderPage: when the network keeps the order of the answers *)
(* the page never shows an older order after a newer one, and never stops  *)
(* polling short of the end, for any delays, failures and numbers of       *)
(* requests under way.                                                     *)
(***************************************************************************)
EXTENDS OrderPage, SequenceTheorems, TLAPS

(* The answers under way are from oldest to newest, and the requests that  *)
(* have no answer yet come after them.                                     *)
WireInOrder ==
    \A i, j \in 1..Len(wire) :
        i < j /\ wire[j] # Nothing => wire[i] # Nothing /\ wire[i] <= wire[j]

(* No answer is ahead of the server, or behind what the page shows.        *)
AnswersBetween ==
    /\ order <= server
    /\ \A i \in 1..Len(wire) :
          wire[i] # Nothing => order <= wire[i] /\ wire[i] <= server

(* What lets the page stop: the end it has seen is not taken back.         *)
PageInv ==
    /\ TypeOK
    /\ WireInOrder
    /\ AnswersBetween
    /\ StopsOnlyWhenDone

(* Taking one element out of a sequence.                                   *)
LEMMA RemoveOne ==
    ASSUME NEW S, NEW s \in Seq(S), NEW i \in 1..Len(s)
    PROVE  /\ RemoveAt(s, i) \in Seq(S)
           /\ Len(RemoveAt(s, i)) = Len(s) - 1
           /\ \A j \in 1..(Len(s) - 1) :
                 RemoveAt(s, i)[j] = IF j < i THEN s[j] ELSE s[j + 1]
<1> DEFINE a == SubSeq(s, 1, i - 1)
           b == SubSeq(s, i + 1, Len(s))
<1>1. /\ a \in Seq(S) /\ Len(a) = i - 1
      /\ \A j \in 1..(i - 1) : a[j] = s[j]
  <2>1. \A j \in 1..(i - 1) : s[j] \in S
    OBVIOUS
  <2> QED BY <2>1, SubSeqProperties
<1>2. /\ b \in Seq(S) /\ Len(b) = Len(s) - i
      /\ \A j \in 1..(Len(s) - i) : b[j] = s[j + i]
  <2>1. \A j \in (i + 1)..Len(s) : s[j] \in S
    OBVIOUS
  <2>2. /\ b \in Seq(S)
        /\ Len(b) = IF i + 1 <= Len(s) THEN Len(s) - (i + 1) + 1 ELSE 0
        /\ \A j \in 1..(Len(s) - (i + 1) + 1) : b[j] = s[(i + 1) + j - 1]
    BY <2>1, SubSeqProperties
  <2> QED BY <2>2
<1> HIDE DEF a, b
<1>3. /\ a \o b \in Seq(S)
      /\ Len(a \o b) = Len(a) + Len(b)
      /\ \A j \in 1..(Len(a) + Len(b)) :
            (a \o b)[j] = IF j <= Len(a) THEN a[j] ELSE b[j - Len(a)]
  BY <1>1, <1>2, ConcatProperties
<1>4. RemoveAt(s, i) = a \o b
  BY DEF RemoveAt, a, b
<1>5. Len(s) \in Nat /\ Len(a \o b) = Len(s) - 1
  BY <1>1, <1>2, <1>3
<1>6. ASSUME NEW j \in 1..(Len(s) - 1)
      PROVE  (a \o b)[j] = IF j < i THEN s[j] ELSE s[j + 1]
  <2>1. CASE j < i
    BY <1>1, <1>2, <1>3, <2>1
  <2>2. CASE ~ j < i
    <3>1. j - (i - 1) \in 1..(Len(s) - i) /\ j - (i - 1) + i = j + 1
      BY <2>2
    <3>2. (a \o b)[j] = b[j - (i - 1)]
      BY <1>1, <1>2, <1>3, <2>2
    <3> QED BY <1>2, <2>2, <3>1, <3>2
  <2> QED BY <2>1, <2>2
<1> QED BY <1>3, <1>4, <1>5, <1>6

-----------------------------------------------------------------------------
(* Types.                                                                  *)

(* The page starts closed.                                                 *)
LEMMA InitType == Init => TypeOK
BY PageBoundsAssumption
   DEF Init, TypeOK, Orders, Nothing, Awaiting, Settled, OnChain

(* Every step of the network, the page and the buyer keeps the types.      *)
LEMMA NextType == TypeOK /\ [Next]_vars => TypeOK'
<1> SUFFICES ASSUME TypeOK, [Next]_vars PROVE TypeOK'
  OBVIOUS
<1> USE PageBoundsAssumption DEF TypeOK, Orders, Nothing, Awaiting, Settled, OnChain
<1>1. CASE Advance
  BY <1>1 DEF Advance, shown, pay
<1>2. ASSUME NEW i \in 1..Len(wire), Answer(i) PROVE TypeOK'
  BY <1>2 DEF Answer, shown, pay
<1>3. ASSUME NEW i \in 1..Len(wire), Arrive(i) PROVE TypeOK'
  BY <1>3, RemoveOne DEF Arrive, pay
<1>4. ASSUME NEW i \in 1..Len(wire), Fails(i) PROVE TypeOK'
  BY <1>4, RemoveOne DEF Fails, shown, pay
<1>5. CASE Mount \/ Recheck
  <2>1. StartEffect /\ UNCHANGED order
    BY <1>5 DEF Mount, Recheck
  <2>2. mounts' \in 0..MaxMounts /\ ticks' = 0 /\ latest' = Nothing /\ stage' = "polling"
    BY <2>1 DEF StartEffect
  <2>3. wire' \in Seq(Orders) /\ Len(wire') <= MaxOpen
    BY <2>1 DEF StartEffect, Load
  <2>4. UNCHANGED <<server, paying, phase, fails>>
    BY <2>1 DEF StartEffect, pay
  <2> QED BY <2>1, <2>2, <2>3, <2>4
<1>6. CASE Unmount
  BY <1>6 DEF Unmount
<1>7. CASE TickLoads
  BY <1>7 DEF TickLoads, Load, shown, pay
<1>8. CASE TickWaits
  BY <1>8 DEF TickWaits, Load, pay
<1>9. CASE TickGivesUp
  BY <1>9 DEF TickGivesUp, pay
<1>10. CASE TickStops
  BY <1>10 DEF TickStops, pay
<1>11. CASE PayClick
  BY <1>11 DEF PayClick, shown
<1>12. CASE PayPhase
  BY <1>12 DEF PayPhase, shown
<1>13. CASE PaySubmitted
  <2>1. paying > 0 /\ paying' = paying - 1 /\ phase' = "null" /\ UNCHANGED shown
    BY <1>13 DEF PaySubmitted, PayEnds
  <2>2. paying' \in 0..MaxPays /\ stage # "closed"
    BY <2>1
  <2>3. wire' \in Seq(Orders) /\ Len(wire') <= MaxOpen
    BY <1>13 DEF PaySubmitted, Load
  <2>4. UNCHANGED <<server, fails, mounts>>
    BY <1>13 DEF PaySubmitted, PayEnds
  <2> QED BY <2>1, <2>2, <2>3, <2>4 DEF shown
<1>14. CASE PayFails
  BY <1>14 DEF PayFails, PayEnds, shown
<1>15. CASE UNCHANGED vars
  BY <1>15 DEF vars, shown, pay
<1> QED BY <1>1, <1>2, <1>3, <1>4, <1>5, <1>6, <1>7, <1>8, <1>9, <1>10, <1>11, <1>12,
           <1>13, <1>14, <1>15 DEF Next, Network, Tick

(* The page's variables keep their types, also when answers overtake.      *)
THEOREM TypeCorrect == Spec => []TypeOK
BY InitType, NextType, PTL DEF Spec

-----------------------------------------------------------------------------
(* Answers in order.                                                       *)

(* What the invariant says of the answers under way, after the first of    *)
(* them has left the wire.                                                 *)
LEMMA FirstLeaves ==
    ASSUME PageInv, 1 \in 1..Len(wire), wire' = RemoveAt(wire, 1)
    PROVE  /\ WireInOrder'
           /\ \A i \in 1..Len(wire') :
                 wire'[i] # Nothing =>
                    /\ order <= wire'[i] /\ wire'[i] <= server
                    /\ wire[1] # Nothing /\ wire[1] <= wire'[i]
<1>1. /\ Len(wire') = Len(wire) - 1 /\ Len(wire) \in Nat
      /\ \A j \in 1..(Len(wire) - 1) : wire'[j] = wire[j + 1]
  BY RemoveOne DEF PageInv, TypeOK
<1>2. \A j \in 1..Len(wire') : j + 1 \in 1..Len(wire) /\ 1 < j + 1 /\ wire'[j] = wire[j + 1]
  BY <1>1
<1>3. WireInOrder'
  BY <1>2 DEF WireInOrder, PageInv
<1> QED BY <1>2, <1>3 DEF PageInv, WireInOrder, AnswersBetween

(* A request that is sent goes to the end of the wire.                     *)
LEMMA RequestLast ==
    ASSUME PageInv, Load
    PROVE  /\ WireInOrder'
           /\ \A i \in 1..Len(wire') :
                 wire'[i] # Nothing => order <= wire'[i] /\ wire'[i] <= server
<1>1. /\ Len(wire') = Len(wire) + 1 /\ Len(wire) \in Nat
      /\ wire'[Len(wire')] = Nothing
      /\ \A j \in 1..Len(wire) : wire'[j] = wire[j]
  BY DEF PageInv, TypeOK, Load
<1>2. \A i \in 1..Len(wire') : wire'[i] # Nothing => i \in 1..Len(wire)
  BY <1>1
<1>3. WireInOrder'
  BY <1>1, <1>2 DEF WireInOrder, PageInv
<1> QED BY <1>1, <1>2, <1>3 DEF PageInv, AnswersBetween

(* A new page has nothing under way.                                       *)
LEMMA InitPage == Init => PageInv
BY InitType DEF Init, PageInv, WireInOrder, AnswersBetween, StopsOnlyWhenDone,
   Nothing, Awaiting

(* With answers in order no step turns what the page shows back, and a     *)
(* tick ends the polling only at the end.                                  *)
LEMMA NextPage ==
    ASSUME InOrder, PageInv, [Next]_vars
    PROVE  PageInv' /\ (isSettled(order) /\ stage' # "closed" => order' >= order)
<1> DEFINE Kept == isSettled(order) /\ stage' # "closed" => order' >= order
<1> USE DEF Nothing, Awaiting, Settled, OnChain, isSettled
<1>0. /\ TypeOK'
      /\ order \in 0..3 /\ server \in 1..3 /\ latest \in {Nothing, order}
      /\ \A i \in 1..Len(wire) : wire[i] \in 0..3
  BY NextType DEF PageInv, TypeOK, Orders
<1>1. CASE Advance
  <2>1. UNCHANGED <<wire, stage, order>> /\ server' = server + 1
    BY <1>1 DEF Advance, shown
  <2> QED BY <1>0, <2>1 DEF PageInv, WireInOrder, AnswersBetween, StopsOnlyWhenDone
<1>2. ASSUME NEW i \in 1..Len(wire), Answer(i) PROVE PageInv' /\ Kept
  <2>1. UNCHANGED <<server, stage, order>> /\ Len(wire') = Len(wire)
    BY <1>2 DEF Answer, shown, PageInv, TypeOK
  <2>2. /\ wire'[i] = server
        /\ \A j \in 1..Len(wire) : j # i => wire'[j] = wire[j]
        /\ \A j \in 1..Len(wire) : j < i => wire[j] # Nothing
        /\ wire[i] = Nothing
    BY <1>2 DEF Answer, PageInv, TypeOK
  <2>3. \A j \in 1..Len(wire) : i < j => wire[j] = Nothing
    BY <2>2 DEF PageInv, WireInOrder
  <2>4. WireInOrder'
    BY <1>0, <2>1, <2>2, <2>3 DEF PageInv, WireInOrder, AnswersBetween
  <2>5. AnswersBetween'
    BY <1>0, <2>1, <2>2 DEF PageInv, AnswersBetween
  <2> QED BY <1>0, <2>1, <2>4, <2>5 DEF PageInv, StopsOnlyWhenDone
<1>3. ASSUME NEW i \in 1..Len(wire), Arrive(i) PROVE PageInv' /\ Kept
  <2>1. i = 1 /\ wire' = RemoveAt(wire, 1) /\ order' = wire[1] /\ wire[1] # Nothing
    BY <1>3 DEF Arrive, MayArrive
  <2>2. UNCHANGED <<server, stage>>
    BY <1>3 DEF Arrive
  <2>3. order <= order' /\ order' <= server
    BY <2>1 DEF PageInv, AnswersBetween
  <2>4. WireInOrder' /\ AnswersBetween'
    BY <2>1, <2>2, <2>3, FirstLeaves DEF AnswersBetween
  <2>5. order' \in 0..3 /\ (order = OnChain => order' = OnChain)
                        /\ (isSettled(order) => isSettled(order'))
    BY <1>0, <2>1, <2>3
  <2>6. StopsOnlyWhenDone'
    BY <2>2, <2>5 DEF PageInv, StopsOnlyWhenDone
  <2> QED BY <1>0, <2>3, <2>4, <2>6 DEF PageInv
<1>4. ASSUME NEW i \in 1..Len(wire), Fails(i) PROVE PageInv' /\ Kept
  <2>1. wire' = RemoveAt(wire, 1) /\ UNCHANGED <<server, stage, order>> /\ 1 \in 1..Len(wire)
    BY <1>4 DEF Fails, MayArrive, shown
  <2>2. WireInOrder' /\ AnswersBetween'
    BY <2>1, FirstLeaves DEF AnswersBetween, PageInv
  <2> QED BY <1>0, <2>1, <2>2 DEF PageInv, StopsOnlyWhenDone
<1>5. CASE Mount \/ Recheck
  <2>1. Load /\ UNCHANGED <<server, order>> /\ stage' = "polling"
    BY <1>5 DEF Mount, Recheck, StartEffect
  <2>2. WireInOrder' /\ AnswersBetween'
    BY <2>1, RequestLast DEF AnswersBetween, PageInv
  <2> QED BY <1>0, <2>1, <2>2 DEF PageInv, StopsOnlyWhenDone
<1>6. CASE Unmount
  <2>1. wire' = <<>> /\ order' = Nothing /\ stage' = "closed" /\ UNCHANGED server
    BY <1>6 DEF Unmount
  <2> QED BY <1>0, <2>1 DEF PageInv, WireInOrder, AnswersBetween, StopsOnlyWhenDone
<1>7. CASE TickLoads \/ TickWaits \/ PaySubmitted
  <2>1. Load /\ UNCHANGED <<server, order, stage>>
    BY <1>7 DEF TickLoads, TickWaits, PaySubmitted, PayEnds, shown
  <2>2. WireInOrder' /\ AnswersBetween'
    BY <2>1, RequestLast DEF AnswersBetween, PageInv
  <2> QED BY <1>0, <2>1, <2>2 DEF PageInv, StopsOnlyWhenDone
<1>8. CASE TickGivesUp \/ TickStops
  <2>1. /\ UNCHANGED <<server, wire, order>>
        /\ stage' = "done" => order = OnChain
        /\ stage' = "gaveUp" => order = Settled
        /\ stage' \in {"done", "gaveUp"}
    BY <1>0, <1>8 DEF TickGivesUp, TickStops
  <2> QED BY <1>0, <2>1 DEF PageInv, WireInOrder, AnswersBetween, StopsOnlyWhenDone
<1>9. CASE PayClick \/ PayPhase \/ PayFails \/ UNCHANGED vars
  <2>1. UNCHANGED <<server, wire, stage, order>>
    BY <1>9 DEF PayClick, PayPhase, PayFails, PayEnds, vars, shown
  <2> QED BY <1>0, <2>1 DEF PageInv, WireInOrder, AnswersBetween, StopsOnlyWhenDone
<1> QED BY <1>1, <1>2, <1>3, <1>4, <1>5, <1>6, <1>7, <1>8, <1>9 DEF Next, Network, Tick

(* With answers in order an open page polls until it shows the hash or has *)
(* waited for it in vain.                                                  *)
THEOREM PollsToTheEnd ==
    ASSUME InOrder
    PROVE  Spec => []StopsOnlyWhenDone
<1>1. PageInv => StopsOnlyWhenDone
  BY DEF PageInv
<1>2. PageInv /\ [Next]_vars => PageInv'
  BY NextPage
<1> QED BY <1>1, <1>2, InitPage, PTL DEF Spec

(* With answers in order a page that shows a verdict keeps showing one.    *)
THEOREM VerdictStays ==
    ASSUME InOrder
    PROVE  Spec => VerdictStaysOnPage
<1>1. PageInv /\ [Next]_vars => PageInv'
  BY NextPage
<1>2. PageInv /\ [Next]_vars =>
        [isSettled(order) /\ stage' # "closed" => order' >= order]_vars
  BY NextPage
<1> QED BY <1>1, <1>2, InitPage, PTL DEF Spec, VerdictStaysOnPage
=============================================================================
