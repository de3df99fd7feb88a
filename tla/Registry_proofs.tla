-------------------------- MODULE Registry_proofs --------------------------
(***************************************************************************)
(* Proofs about the contract, for every set of orders.                     *)
(***************************************************************************)
EXTENDS Registry, TLAPS

(* Distinct statuses of the contract and of an order that is not there.    *)
LEMMA StatusNames ==
    /\ \A s \in Statuses : s.status # "none" /\ s # Absent
    /\ Absent.status = "none"
    /\ Status(AwaitingPayment, NoReason) \in Statuses
    /\ \A s \in Statuses : s.status = PaymentDetected => s = Status(PaymentDetected, NoReason)
    /\ \A s \in Statuses : s.status = AwaitingPayment => s = Status(AwaitingPayment, NoReason)
BY DEF Statuses, Status, Absent, AwaitingPayment, PaymentDetected, Validated, Rejected

(* The map orderTransitions, read as a relation.                           *)
LEMMA TransitionTable ==
    ASSUME NEW from \in {AwaitingPayment, PaymentDetected, Validated, Rejected},
           NEW to \in {AwaitingPayment, PaymentDetected, Validated, Rejected}
    PROVE  CanTransition(from, to) <=>
              \/ from = AwaitingPayment /\ to = PaymentDetected
              \/ from = PaymentDetected /\ to = Validated
              \/ from = PaymentDetected /\ to = Rejected
<1>1. CanTransition(from, to) <=>
        to \in CASE from = AwaitingPayment -> {PaymentDetected}
                 [] from = PaymentDetected -> {Validated, Rejected}
                 [] OTHER -> {}
  BY DEF CanTransition, orderTransitions, OrderStatuses
<1>2. CASE from = AwaitingPayment
  BY <1>1, <1>2 DEF AwaitingPayment, PaymentDetected
<1>3. CASE from = PaymentDetected
  BY <1>1, <1>3 DEF AwaitingPayment, PaymentDetected
<1>4. CASE from # AwaitingPayment /\ from # PaymentDetected
  BY <1>1, <1>4
<1> QED BY <1>2, <1>3, <1>4

(* What an invocation does to the storage: it changes one entry at most,   *)
(* which is created, or takes a step of can_transition.                    *)
LEMMA InvokeEffect ==
    ASSUME RegistryTypeOK, NEW c \in Calls, Invoke(c)
    PROVE  /\ RegistryTypeOK'
           /\ \A o \in Orders :
                 \/ storage'[o] = storage[o]
                 \/ /\ storage[o] = Absent
                    /\ storage'[o] = Status(AwaitingPayment, NoReason)
                 \/ /\ storage[o] \in Statuses /\ storage'[o] \in Statuses
                    /\ can_transition(storage[o], storage'[o])
           /\ \E o \in Orders : \A p \in Orders : p # o => storage'[p] = storage[p]
<1>1. PICK o \in Orders : c = CreateCall(o) \/ \E s \in Statuses : c = SetCall(o, s)
  BY DEF Calls
<1>2. c.order = o /\ c.to \in Statuses
  BY <1>1, StatusNames DEF CreateCall, SetCall
<1>3. storage' = IF Answer(storage, c) = "Ok" THEN [storage EXCEPT ![o] = c.to] ELSE storage
  BY <1>2 DEF Invoke, After
<1>4. RegistryTypeOK'
  BY <1>2, <1>3 DEF RegistryTypeOK, Invoke, Answer
<1>5. \A p \in Orders : p # o => storage'[p] = storage[p]
  BY <1>3 DEF RegistryTypeOK
<1>6. CASE c = CreateCall(o)
  <2>1. c.fn = "create_order" /\ c.to = Status(AwaitingPayment, NoReason)
    BY <1>6 DEF CreateCall
  <2>2. Answer(storage, c) = "Ok" => storage[o] = Absent
    BY <2>1, <1>2 DEF Answer
  <2> QED BY <1>3, <1>4, <1>5, <2>1, <2>2 DEF RegistryTypeOK
<1>7. ASSUME NEW s \in Statuses, c = SetCall(o, s)
      PROVE  \/ storage'[o] = storage[o]
             \/ /\ storage[o] \in Statuses /\ storage'[o] \in Statuses
                /\ can_transition(storage[o], storage'[o])
  <2>1. c.fn # "create_order" /\ c.to = s
    BY <1>7 DEF SetCall
  <2>2. Answer(storage, c) = "Ok" => storage[o] # Absent /\ can_transition(storage[o], s)
    BY <2>1, <1>2 DEF Answer
  <2> QED BY <1>3, <2>1, <2>2 DEF RegistryTypeOK
<1> QED BY <1>1, <1>4, <1>5, <1>6, <1>7

(* The storage holds statuses of the enum, the answers are those of the    *)
(* contract.                                                               *)
THEOREM TypeCorrect == RegistrySpec => []RegistryTypeOK
<1>1. RegistryInit => RegistryTypeOK
  BY DEF RegistryInit, RegistryTypeOK
<1>2. RegistryTypeOK /\ [RegistryNext]_registryVars => RegistryTypeOK'
  BY InvokeEffect DEF RegistryNext, registryVars, RegistryTypeOK
<1> QED BY <1>1, <1>2, PTL DEF RegistrySpec

(* The contract and models.CanTransition describe one state machine.       *)
THEOREM OneStateMachine == RegistrySpec => []SameMachineAsBackend
<1>1. RegistryTypeOK => SameMachineAsBackend
  <2> SUFFICES ASSUME RegistryTypeOK, NEW o \in Orders, NEW s \in Statuses, storage[o] # Absent
               PROVE  Answer(storage, SetCall(o, s)) = "Ok"
                        <=> CanTransition(storage[o].status, s.status)
    BY DEF SameMachineAsBackend
  <2>1. storage[o] \in Statuses
    BY DEF RegistryTypeOK
  <2>2. Answer(storage, SetCall(o, s)) = "Ok" <=> can_transition(storage[o], s)
    BY DEF Answer, SetCall
  <2>3. storage[o].status \in {AwaitingPayment, PaymentDetected, Validated, Rejected}
    BY <2>1 DEF Statuses, Status
  <2>4. s.status \in {AwaitingPayment, PaymentDetected, Validated, Rejected}
    BY DEF Statuses, Status
  <2> QED BY <2>2, <2>3, <2>4, TransitionTable DEF can_transition
<1> QED BY <1>1, TypeCorrect, PTL

(* An order is fulfillable only after payment_detected, and for good.      *)
THEOREM FulfillableIsFinal == RegistrySpec => FulfillableOnlyAfterDetected
<1>1. RegistryTypeOK /\ [RegistryNext]_registryVars =>
        [\A o \in Orders :
           /\ is_fulfillable(storage', o) /\ ~ is_fulfillable(storage, o)
                => storage[o] = Status(PaymentDetected, NoReason)
           /\ is_fulfillable(storage, o) => is_fulfillable(storage', o)]_registryVars
  <2> SUFFICES ASSUME RegistryTypeOK, NEW c \in Calls, Invoke(c), NEW o \in Orders
               PROVE  /\ is_fulfillable(storage', o) /\ ~ is_fulfillable(storage, o)
                           => storage[o] = Status(PaymentDetected, NoReason)
                      /\ is_fulfillable(storage, o) => is_fulfillable(storage', o)
    BY DEF RegistryNext
  <2>1. \/ storage'[o] = storage[o]
        \/ /\ storage[o] = Absent
           /\ storage'[o] = Status(AwaitingPayment, NoReason)
        \/ /\ storage[o] \in Statuses /\ storage'[o] \in Statuses
           /\ can_transition(storage[o], storage'[o])
    BY InvokeEffect
  <2>2. CASE storage'[o] = storage[o]
    BY <2>2 DEF is_fulfillable
  <2>3. CASE storage[o] = Absent /\ storage'[o] = Status(AwaitingPayment, NoReason)
    BY <2>3 DEF is_fulfillable, Status, Absent, AwaitingPayment, Validated
  <2>4. CASE /\ storage[o] \in Statuses /\ storage'[o] \in Statuses
             /\ can_transition(storage[o], storage'[o])
    BY <2>4, StatusNames
    DEF is_fulfillable, can_transition, Status, AwaitingPayment, PaymentDetected,
        Validated, Rejected
  <2> QED BY <2>1, <2>2, <2>3, <2>4
<1> QED BY <1>1, TypeCorrect, PTL DEF RegistrySpec, FulfillableOnlyAfterDetected
(* An entry as OrderVerdict sees it.                                       *)
View(e) == IF e = Absent \/ OrderFinal(e.status) THEN e ELSE Status("open", NoReason)

Views(st) == [o \in Orders |-> View(st[o])]

(* A call creates an entry, decides one, or is not seen by OrderVerdict.   *)
LEMMA StepView ==
    ASSUME RegistryTypeOK, NEW c \in Calls, Invoke(c)
    PROVE  \/ Views(storage') = Views(storage)
           \/ \E o \in Orders :
                 /\ View(storage[o]) = Absent
                 /\ Views(storage') = [Views(storage) EXCEPT ![o] = Status("open", NoReason)]
           \/ \E o \in Orders, d \in {s \in Statuses : OrderFinal(s.status)} :
                 /\ View(storage[o]) = Status("open", NoReason)
                 /\ Views(storage') = [Views(storage) EXCEPT ![o] = d]
<1>1. PICK o \in Orders : \A p \in Orders : p # o => storage'[p] = storage[p]
  BY InvokeEffect
<1>2. Views(storage') = [Views(storage) EXCEPT ![o] = View(storage'[o])]
  BY <1>1 DEF Views
<1>3. CASE storage'[o] = storage[o]
  BY <1>1, <1>3 DEF Views
<1>4. CASE storage[o] = Absent /\ storage'[o] = Status(AwaitingPayment, NoReason)
  <2>1. View(storage[o]) = Absent
    BY <1>4 DEF View
  <2>2. View(storage'[o]) = Status("open", NoReason)
    BY <1>4 DEF View, OrderFinal, Status, Absent, AwaitingPayment, Validated, Rejected
  <2> QED BY <1>2, <2>1, <2>2
<1>5. CASE /\ storage[o] \in Statuses /\ storage'[o] \in Statuses
           /\ can_transition(storage[o], storage'[o])
  <2>1. View(storage[o]) = Status("open", NoReason)
    BY <1>5, StatusNames DEF can_transition, View, OrderFinal, AwaitingPayment,
       PaymentDetected, Validated, Rejected
  <2>2. CASE OrderFinal(storage'[o].status)
    <3>1. View(storage'[o]) = storage'[o]
      BY <2>2 DEF View
    <3> QED BY <1>2, <1>5, <2>1, <2>2, <3>1
  <2>3. CASE ~ OrderFinal(storage'[o].status)
    <3>1. View(storage'[o]) = View(storage[o])
      BY <1>5, <2>1, <2>3, StatusNames DEF View
    <3> QED BY <1>1, <3>1 DEF Views
  <2> QED BY <2>2, <2>3
<1> QED BY <1>1, <1>3, <1>4, <1>5, InvokeEffect

(* The contract implements OrderVerdict.                                   *)
THEOREM DecidesOnce == RegistrySpec => DecidedOnce
<1>1. RegistryInit => Promise!Init
  BY DEF RegistryInit, Promise!Init
<1>2. RegistryTypeOK /\ [RegistryNext]_registryVars =>
        [Promise!Next]_([o \in Orders |->
                           IF storage[o] = Absent \/ OrderFinal(storage[o].status)
                             THEN storage[o]
                             ELSE Status("open", NoReason)])
  <2> SUFFICES ASSUME RegistryTypeOK, [RegistryNext]_registryVars, Views(storage') # Views(storage)
               PROVE  Promise!Next
    BY DEF Views, View
  <2>1. PICK c \in Calls : Invoke(c)
    BY DEF RegistryNext, registryVars
  <2>2. CASE \E o \in Orders :
                 /\ View(storage[o]) = Absent
                 /\ Views(storage') = [Views(storage) EXCEPT ![o] = Status("open", NoReason)]
    BY <2>2 DEF Views, View, Promise!Next, Promise!Open
  <2>3. CASE \E o \in Orders, d \in {s \in Statuses : OrderFinal(s.status)} :
                 /\ View(storage[o]) = Status("open", NoReason)
                 /\ Views(storage') = [Views(storage) EXCEPT ![o] = d]
    BY <2>3 DEF Views, View, Promise!Next, Promise!Decide
  <2> QED BY <2>1, <2>2, <2>3, StepView
<1> QED BY <1>1, <1>2, TypeCorrect, PTL DEF RegistrySpec, DecidedOnce, Promise!Spec
=============================================================================
