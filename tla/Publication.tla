---------------------------- MODULE Publication ----------------------------
(***************************************************************************)
(* What the watcher's writes to the contract promise: an order is decided  *)
(* once; the contract then hears of the order, and is given this decision, *)
(* once, and never one that was not taken; and a receipt is filed, once,   *)
(* for what the contract was given.  Each of these may be long after the   *)
(* one before, or never be.                                                *)
(***************************************************************************)
CONSTANTS
    Orders,
    Decisions,    \* the final verdicts
    Nothing       \* no decision

VARIABLES
    decided,      \* the decision taken on each order
    announced,    \* orders that are public, with or without a decision
    published,    \* the decision that is public
    receipts      \* orders with a receipt

Init ==
    /\ decided = [o \in Orders |-> Nothing]
    /\ announced = {}
    /\ published = [o \in Orders |-> Nothing]
    /\ receipts = {}

Decide(o, d) ==
    /\ decided[o] = Nothing
    /\ decided' = [decided EXCEPT ![o] = d]
    /\ UNCHANGED <<announced, published, receipts>>

Announce(o) ==
    /\ decided[o] # Nothing
    /\ announced' = announced \union {o}
    /\ UNCHANGED <<decided, published, receipts>>

Publish(o) ==
    /\ o \in announced /\ published[o] = Nothing
    /\ published' = [published EXCEPT ![o] = decided[o]]
    /\ UNCHANGED <<decided, announced, receipts>>

File(o) ==
    /\ published[o] # Nothing /\ o \notin receipts
    /\ receipts' = receipts \union {o}
    /\ UNCHANGED <<decided, announced, published>>

Next ==
    \E o \in Orders :
        (\E d \in Decisions : Decide(o, d)) \/ Announce(o) \/ Publish(o) \/ File(o)

Spec == Init /\ [][Next]_<<decided, announced, published, receipts>>
=============================================================================
