------------------------------- MODULE SqlTxn -------------------------------
(***************************************************************************)
(* database.Txn and OnTxCommit: transactions nested through the context,   *)
(* with callbacks for the commit.  The outermost Txn puts a wrapper in the *)
(* context, which every transaction inside it shares; gorm runs those as   *)
(* savepoints.  One goroutine; a transaction is a frame, numbered in the   *)
(* order of its start.  The work of a frame is its status.                 *)
(***************************************************************************)
EXTENDS Integers, Sequences

CONSTANTS
    MaxFrames,      \* bound: transactions under one wrapper
    MaxCallbacks    \* bound: callbacks registered

ASSUME TxnAssumption == MaxFrames \in Nat \ {0} /\ MaxCallbacks \in Nat

VARIABLES
    stack,      \* the frames that are open, the innermost last
    started,    \* frames started under this wrapper
    status,     \* of a frame's work: "open", "released" to the frame outside
                \* it, "undone", "durable"
    owners,     \* onCommitCallbacks: of each callback, the frame it is of
    ran,        \* of each callback, how often it ran
    next,       \* the callback executeCallbacks is at; 0 when it is not running
    result      \* of the outermost Txn: "open", then "nil" or "error", or "cut" by
                \* a callback that panicked

txnVars == <<stack, started, status, owners, ran, next, result>>

Frames == 1..MaxFrames
Top == stack[Len(stack)]
Outermost == Len(stack) = 1
InBody == next = 0

TxnInit ==
    /\ stack = <<>> /\ started = 0
    /\ status = [f \in Frames |-> "open"]
    /\ owners = <<>> /\ ran = <<>>
    /\ next = 0 /\ result = "open"

(* What frame f did, and what was released to it, ends as s.               *)
EndsWith(f, s) ==
    status' = [g \in Frames |->
                 IF g = f \/ (g > f /\ g <= started /\ status[g] = "released")
                 THEN s ELSE status[g]]

Pop == SubSeq(stack, 1, Len(stack) - 1)

(* Txn without a wrapper in its context starts afresh.                     *)
Txn ==
    /\ stack = <<>>
    /\ stack' = <<1>> /\ started' = 1
    /\ status' = [f \in Frames |-> "open"]
    /\ owners' = <<>> /\ ran' = <<>>
    /\ result' = "open"
    /\ UNCHANGED next

(* Txn inside a transaction: a savepoint, under the same wrapper.          *)
NestedTxn ==
    /\ stack # <<>> /\ InBody /\ started < MaxFrames
    /\ started' = started + 1
    /\ stack' = Append(stack, started + 1)
    /\ UNCHANGED <<status, owners, ran, next, result>>

OnTxCommit ==
    /\ stack # <<>> /\ InBody /\ Len(owners) < MaxCallbacks
    /\ owners' = Append(owners, Top)
    /\ ran' = Append(ran, 0)
    /\ UNCHANGED <<stack, started, status, next, result>>

(* The callback returns no error to an inner Transaction: nothing is       *)
(* written yet, and the callbacks of the whole wrapper run.                *)
Release ==
    /\ stack # <<>> /\ InBody /\ ~ Outermost
    /\ status' = [status EXCEPT ![Top] = "released"]
    /\ next' = 1
    /\ UNCHANGED <<stack, started, owners, ran, result>>

CommitTxn ==
    /\ stack # <<>> /\ InBody /\ Outermost
    /\ EndsWith(Top, "durable")
    /\ next' = 1
    /\ UNCHANGED <<stack, started, owners, ran, result>>

(* Mutant of Rollback: the callbacks run whatever Transaction returned.    *)
RollbackNotices ==
    /\ stack # <<>> /\ InBody
    /\ EndsWith(Top, "undone")
    /\ next' = 1
    /\ UNCHANGED <<stack, started, owners, ran, result>>

(* The outermost Txn ends with its error.                                  *)
Returns(r) == result' = IF Outermost THEN r ELSE result

(* The callback fails or panics, or the COMMIT does.  An inner transaction *)
(* goes back to its savepoint and the outer one may go on; the callbacks   *)
(* registered inside stay registered.                                      *)
Rollback ==
    /\ stack # <<>> /\ InBody
    /\ EndsWith(Top, "undone")
    /\ stack' = Pop
    /\ Returns("error")
    /\ UNCHANGED <<started, owners, ran, next>>

(* The COMMIT takes effect and its answer is lost: Transaction returns an  *)
(* error, and no callback runs.                                            *)
CommitUnheard ==
    /\ stack # <<>> /\ InBody /\ Outermost
    /\ EndsWith(Top, "durable")
    /\ stack' = Pop
    /\ Returns("error")
    /\ UNCHANGED <<started, owners, ran, next>>

(* executeCallbacks: an error of one is logged and the next one runs.      *)
RunCallback ==
    /\ next \in 1..Len(owners)
    /\ ran' = [ran EXCEPT ![next] = @ + 1]
    /\ next' = next + 1
    /\ UNCHANGED <<stack, started, status, owners, result>>

(* Its panic unwinds through every open transaction: those roll back.      *)
CallbackPanics ==
    /\ next \in 1..Len(owners)
    /\ ran' = [ran EXCEPT ![next] = @ + 1]
    /\ status' = IF Outermost THEN status
                 ELSE [f \in Frames |-> IF f <= started THEN "undone" ELSE "open"]
    /\ stack' = <<>> /\ next' = 0 /\ result' = "cut"
    /\ UNCHANGED <<started, owners>>

CallbacksDone ==
    /\ next = Len(owners) + 1
    /\ stack # <<>>
    /\ stack' = Pop
    /\ next' = 0
    /\ Returns("nil")
    /\ UNCHANGED <<started, status, owners, ran>>

TxnNext ==
    \/ Txn \/ NestedTxn \/ OnTxCommit \/ Release \/ CommitTxn \/ Rollback
    \/ CommitUnheard \/ RunCallback \/ CallbackPanics \/ CallbacksDone

TxnSpec == TxnInit /\ [][TxnNext]_txnVars

-----------------------------------------------------------------------------
(* Properties.                                                             *)

(* What a caller of Txn can count on once the outermost one has returned,  *)
(* short of a callback's panic.  A commit it is told of has been noticed:  *)
(* every callback of durable work ran, of inner transactions too.  And in  *)
(* a transaction with none inside, none of them ran but of work that is    *)
(* durable, and each once: after an error none did, though the work may be *)
(* durable (sql_txn.go:45-50).  With a transaction inside, they may run    *)
(* before the commit, again after it, and for undone work (sql_txn.go:51). *)
CommitIsNoticed ==
    stack = <<>> =>
        \A c \in 1..Len(owners) :
            LET heard == status[owners[c]] = "durable" /\ result = "nil"
            IN  /\ heard => ran[c] >= 1
                /\ started = 1 /\ result # "cut" => ran[c] = (IF heard THEN 1 ELSE 0)
=============================================================================
