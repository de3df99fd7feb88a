----------------------------- MODULE ApiErrors -----------------------------
(***************************************************************************)
(* How a request that fails is answered: the middleware of src/api around  *)
(* a handler, the errors of comerr and the status WrapError chooses.  The  *)
(* requests run concurrently and share the sentinels (ErrorTokenExpired,   *)
(* ErrorNotFound): Wrap writes the error of one request into the sentinel, *)
(* as two words and without a lock, and whoever answers reads it there.    *)
(*                                                                         *)
(* The chain runs as the library writes it, RecoverPanic and WrapError     *)
(* outside, then VerifyToken, VerifyRequest and the handler; the routes of *)
(* v1 have the first two and answer their own errors through apierr.       *)
(***************************************************************************)
EXTENDS Integers, Sequences

CONSTANT Requests

Sentinels == {"token_expired", "not_found"}

(* The Go types of the errors that are no Failure; Wrap is given these.    *)
Plain == {"errorString", "structured"}

(* The other Failures, and the error each was made of.                     *)
Cause == [decode |-> "data_invalid", data_invalid |-> "errorString",
          decrypt |-> "errorString"]

Failures == Sentinels \union DOMAIN Cause

VARIABLES
    stage,      \* of each request: "token", "wrap" (in VerifyToken), "body",
                \* "handler", "wrap_handler", "answer", "panic", "done"
    errors,     \* gin's list of the errors of each request
    actual,     \* of each sentinel: the two words of the error it holds
    wraps,      \* the last Wrap of each request
    refused,    \* those a middleware has aborted
    served,     \* those whose handler has started
    answers,    \* the statuses written for each request
    crashed     \* the process died of a torn sentinel

errorVars == <<stage, errors, actual, wraps, refused, served, answers, crashed>>

NoWrap == [error |-> "none", type |-> "none"]

ErrorsInit ==
    /\ stage = [r \in Requests |-> "token"]
    /\ errors = [r \in Requests |-> <<>>]
    /\ actual = [s \in Sentinels |-> [type |-> "errorString", data |-> "errorString"]]
    /\ wraps = [r \in Requests |-> NoWrap]
    /\ refused = {} /\ served = {}
    /\ answers = [r \in Requests |-> <<>>]
    /\ crashed = FALSE

Enter(r, from, to) ==
    ~ crashed /\ stage[r] = from /\ stage' = [stage EXCEPT ![r] = to]

Pass(r, from, to) ==
    /\ Enter(r, from, to)
    /\ UNCHANGED <<errors, actual, wraps, refused, served, answers, crashed>>

(* ctx.Error.                                                              *)
AddError(r, e) == errors' = [errors EXCEPT ![r] = Append(@, e)]

Write(r, status) == answers' = [answers EXCEPT ![r] = Append(@, status)]

-----------------------------------------------------------------------------
(* Wrap, and the middleware.                                               *)

(* The first word of the interface, its type.                              *)
WrapType(r, from, to, s) ==
    /\ Enter(r, from, to)
    /\ \E t \in Plain : /\ actual' = [actual EXCEPT ![s].type = t]
                        /\ wraps' = [wraps EXCEPT ![r] = [error |-> s, type |-> t]]
    /\ UNCHANGED <<errors, refused, served, answers, crashed>>

(* The second, the pointer to its data.                                    *)
WrapData(r) == actual' = [actual EXCEPT ![wraps[r].error].data = wraps[r].type]

(* Mutant of Refuse: ctx.Error without ctx.Abort, and gin goes on.         *)
RefuseGoesOn(r, from, e) ==
    /\ Enter(r, from, IF from = "wrap" THEN "body" ELSE "handler")
    /\ AddError(r, e)
    /\ refused' = refused \union {r}
    /\ served' = IF from = "wrap" THEN served ELSE served \union {r}
    /\ UNCHANGED <<wraps, answers, crashed>>

(* AbortWithErr in a middleware: what follows in the chain does not run.   *)
Refuse(r, from, e) ==
    /\ Enter(r, from, "answer")
    /\ AddError(r, e)
    /\ refused' = refused \union {r}
    /\ UNCHANGED <<wraps, served, answers, crashed>>

(* IsValid: algorithm, signature, times and issuer, or no token at all.    *)
VerifyToken(r) ==
    \/ Pass(r, "token", "body")
    \/ WrapType(r, "token", "wrap", "token_expired")
    \/ Refuse(r, "wrap", "token_expired") /\ WrapData(r)

(* A GET, a form or a body that decrypts and is fresh passes.              *)
VerifyRequest(r) ==
    \/ /\ Enter(r, "body", "handler")
       /\ served' = served \union {r}
       /\ UNCHANGED <<errors, actual, wraps, refused, answers, crashed>>
    \/ \E e \in {"decode", "decrypt"} :
           Refuse(r, "body", e) /\ UNCHANGED actual

-----------------------------------------------------------------------------
(* The handler: it may answer, through Ok or apierr, and add errors by     *)
(* AbortWithErr or by returning one, in any order.                         *)

HandlerWrites(r) ==
    /\ answers[r] = <<>> /\ Enter(r, "handler", "handler")
    /\ \E status \in {200, 400} : Write(r, status)
    /\ UNCHANGED <<errors, actual, wraps, refused, served, crashed>>

(* The bound is that of one AbortWithErr and one error returned.           *)
HandlerFails(r) ==
    /\ Len(errors[r]) < 2
    /\ \/ /\ Enter(r, "handler", "handler")
          /\ \E e \in {"data_invalid", "errorString"} : AddError(r, e)
          /\ UNCHANGED <<actual, wraps, refused, served, answers, crashed>>
       \/ WrapType(r, "handler", "wrap_handler", "not_found")

HandlerWraps(r) ==
    /\ Enter(r, "wrap_handler", "handler")
    /\ WrapData(r)
    /\ AddError(r, "not_found")
    /\ UNCHANGED <<wraps, refused, served, answers, crashed>>

HandlerEnds(r) == Pass(r, "handler", "answer") \/ Pass(r, "handler", "panic")

-----------------------------------------------------------------------------
(* The answer.                                                             *)

(* What Actual() is: for a sentinel what it holds now, whoever wrapped it. *)
Actual(e) == IF e \in Sentinels THEN actual[e].type ELSE Cause[e]

(* Only one Failure deep: what a sentinel or another cause holds is plain. *)
IsSameError(e, code) == e \in Failures /\ code \in {e, Actual(e)}

StatusOf(e) ==
    CASE IsSameError(e, "data_invalid")  -> 400
      [] IsSameError(e, "not_found")     -> 404
      [] IsSameError(e, "token_expired") -> 401
      [] e \notin Failures -> 417
      [] OTHER -> 500

(* The type of one error over the data of another.                         *)
Torn(e) == e \in Sentinels /\ actual[e].type # actual[e].data

(* After the chain: the first error is answered.  Error() of a torn        *)
(* sentinel reads memory as what it is not: it returns some words, panics  *)
(* or kills the process.                                                   *)
WrapError(r) ==
    \/ errors[r] = <<>> /\ Pass(r, "answer", "done")
    \/ /\ errors[r] # <<>> /\ Enter(r, "answer", "done")
       /\ Write(r, StatusOf(Head(errors[r])))
       /\ UNCHANGED <<errors, actual, wraps, refused, served, crashed>>
    \/ errors[r] # <<>> /\ Torn(Head(errors[r])) /\ Pass(r, "answer", "panic")
    \/ /\ errors[r] # <<>> /\ Torn(Head(errors[r])) /\ Enter(r, "answer", "answer")
       /\ crashed' = TRUE
       /\ UNCHANGED <<errors, actual, wraps, refused, served, answers>>

(* The panic passes WrapError by.                                          *)
RecoverPanic(r) ==
    /\ Enter(r, "panic", "done")
    /\ Write(r, 500)
    /\ UNCHANGED <<errors, actual, wraps, refused, served, crashed>>

ErrorsNext ==
    \E r \in Requests :
        \/ VerifyToken(r) \/ VerifyRequest(r)
        \/ HandlerWrites(r) \/ HandlerFails(r) \/ HandlerWraps(r) \/ HandlerEnds(r)
        \/ WrapError(r) \/ RecoverPanic(r)

ErrorsSpec == ErrorsInit /\ [][ErrorsNext]_errorVars

-----------------------------------------------------------------------------
(* Properties.                                                             *)

(* A request the middleware refuses never reaches the handler, and gets    *)
(* one answer, its refusal (middleware/verify_jwt_token.go:34,             *)
(* encryption.go:57-82, wrap_error.go:25-38), however the requests         *)
(* overlap; only two tokens refused at once can make it a 500, by the      *)
(* sentinel they write together (comerr/error.go:120-125).                 *)
RefusedIsNotServed ==
    \A r \in refused :
        /\ r \notin served
        /\ stage[r] = "done" =>
               \/ /\ Len(answers[r]) = 1
                  /\ Head(answers[r]) = CASE Head(errors[r]) = "token_expired" -> 401
                                          [] Head(errors[r]) = "decode" -> 400
                                          [] OTHER -> 500
               \/ /\ answers[r] = <<500>> /\ Head(errors[r]) = "token_expired"
                  /\ \E q \in Requests \ {r} : wraps[q].error = "token_expired"
=============================================================================
