------------------------------ MODULE Registry ------------------------------
(***************************************************************************)
(* The order-status contract alone, its operator calling it in any order.  *)
(***************************************************************************)
EXTENDS OrderContract

VARIABLES storage, returned

registryVars == <<storage, returned>>

RegistryInit ==
    /\ storage = [o \in Orders |-> Absent]
    /\ returned = "none"

Invoke(c) ==
    /\ returned' = Answer(storage, c)
    /\ storage' = After(storage, c)

RegistryNext == \E c \in Calls : Invoke(c)

RegistrySpec == RegistryInit /\ [][RegistryNext]_registryVars

-----------------------------------------------------------------------------
RegistryTypeOK ==
    /\ storage \in [Orders -> Statuses \union {Absent}]
    /\ returned \in {"none", "Ok", "AlreadyExists", "NotFound", "InvalidTransition"}

(* An order becomes fulfillable only out of payment_detected, and stays so:*)
(* no sequence of calls gets around the step that says a payment was seen. *)
FulfillableOnlyAfterDetected ==
    [][\A o \in Orders :
         /\ is_fulfillable(storage', o) /\ ~ is_fulfillable(storage, o)
              => storage[o] = Status(PaymentDetected, NoReason)
         /\ is_fulfillable(storage, o) => is_fulfillable(storage', o)]_registryVars

(* The Rust enum and the Go map describe the same state machine: the       *)
(* contract takes exactly the status changes models.CanTransition allows.  *)
SameMachineAsBackend ==
    \A o \in Orders, s \in Statuses :
        storage[o] # Absent =>
            (Answer(storage, SetCall(o, s)) = "Ok"
               <=> CanTransition(storage[o].status, s.status))

(* The promise of OrderVerdict: awaiting_payment and payment_detected are  *)
(* both an open order.                                                     *)
Promise ==
    INSTANCE OrderVerdict WITH
        Unknown   <- Absent,
        Opened    <- Status("open", NoReason),
        Decisions <- {s \in Statuses : OrderFinal(s.status)},
        verdict   <- [o \in Orders |->
                        IF storage[o] = Absent \/ OrderFinal(storage[o].status)
                          THEN storage[o]
                          ELSE Status("open", NoReason)]

DecidedOnce == Promise!Spec
=============================================================================
