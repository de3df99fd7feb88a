---------------------------- MODULE OrderVerdict ----------------------------
(***************************************************************************)
(* What Postgres and the contract both promise about an order: it is       *)
(* opened once, decided at most once after that, and the decision stands.  *)
(***************************************************************************)
CONSTANTS
    Orders,
    Unknown,     \* no such order
    Opened,      \* waiting for a payment
    Decisions    \* the final verdicts

VARIABLE verdict

Init == verdict = [o \in Orders |-> Unknown]

Open(o) ==
    /\ verdict[o] = Unknown
    /\ verdict' = [verdict EXCEPT ![o] = Opened]

Decide(o, d) ==
    /\ verdict[o] = Opened
    /\ verdict' = [verdict EXCEPT ![o] = d]

Next == \E o \in Orders : Open(o) \/ \E d \in Decisions : Decide(o, d)

Spec == Init /\ [][Next]_verdict
=============================================================================
