--------------------------- MODULE OrderContract ---------------------------
(***************************************************************************)
(* The Soroban order-status registry, contracts/order-status/src/lib.rs.   *)
(*                                                                         *)
(* The operators say what an invocation returns and what it leaves in      *)
(* storage; a failed invocation leaves nothing.  Calls by anybody but the  *)
(* operator end at require_auth and are left out.                          *)
(***************************************************************************)
EXTENDS OrderModel

CONSTANT Orders    \* ids used as keys of persistent storage

(* An entry's status with, for Rejected, its reason.                       *)
Status(s, r) == [status |-> s, reason |-> r]

Absent == Status("none", NoReason)

Statuses ==
    {Status(s, NoReason) : s \in {AwaitingPayment, PaymentDetected, Validated}}
      \union {Status(Rejected, r) : r \in AllRejectReasons}

(* Mutant of can_transition: the step over payment_detected is allowed.    *)
can_skip(from, to) ==
    \/ from.status = AwaitingPayment /\ to.status \in {PaymentDetected, Validated, Rejected}
    \/ from.status = PaymentDetected /\ to.status \in {Validated, Rejected}

can_transition(from, to) ==
    \/ from.status = AwaitingPayment /\ to.status = PaymentDetected
    \/ from.status = PaymentDetected /\ to.status = Validated
    \/ from.status = PaymentDetected /\ to.status = Rejected

(* An invocation: create_order, or set_status with the new status.         *)
CreateCall(o) == [fn |-> "create_order", order |-> o, to |-> Status(AwaitingPayment, NoReason)]
SetCall(o, s) == [fn |-> "set_status", order |-> o, to |-> s]

Calls == {CreateCall(o) : o \in Orders} \union {SetCall(o, s) : o \in Orders, s \in Statuses}

(* Mutant of Answer: create_order does not look for the entry first.       *)
AnswerOverwrites(storage, c) ==
    IF c.fn = "create_order" THEN "Ok"
    ELSE IF storage[c.order] = Absent THEN "NotFound"
    ELSE IF ~ can_transition(storage[c.order], c.to) THEN "InvalidTransition"
    ELSE "Ok"

(* The contract's answer.                                                  *)
Answer(storage, c) ==
    IF c.fn = "create_order"
      THEN IF storage[c.order] # Absent THEN "AlreadyExists" ELSE "Ok"
      ELSE IF storage[c.order] = Absent THEN "NotFound"
           ELSE IF ~ can_transition(storage[c.order], c.to) THEN "InvalidTransition"
           ELSE "Ok"

(* The storage after the call.                                             *)
After(storage, c) ==
    IF Answer(storage, c) = "Ok"
      THEN [storage EXCEPT ![c.order] = c.to]
      ELSE storage

is_fulfillable(storage, o) == storage[o] = Status(Validated, NoReason)
=============================================================================
