----------------------------- MODULE Singleton -----------------------------
(***************************************************************************)
(* comtypes.Singleton: a value loaded on first use, with isLoaded read     *)
(* before the lock is taken.  The database, the configurations of Stellar  *)
(* and of the cache, the lock store, the message queue and the media       *)
(* stores are such values.                                                 *)
(*                                                                         *)
(* The unlocked reads race with the load.  What a goroutine may find is    *)
(* what Go's memory model lets it: a goroutine that is ordered after the   *)
(* load (`knows`: it loaded, it held the lock since, or it was started     *)
(* since) finds both writes; any other finds, of each, the old or new.     *)
(***************************************************************************)
EXTENDS FiniteSets, Integers

CONSTANTS
    Goroutines,     \* those that use the value
    Main,           \* the one that starts the others
    MaxGets,        \* bound: calls of Get in all
    MaxFailures     \* bound: loads that fail

ASSUME SingletonAssumption ==
    /\ Main \in Goroutines /\ "free" \notin Goroutines
    /\ MaxGets \in Nat /\ MaxFailures \in Nat

VARIABLES
    isLoaded,   \* the flag, as its last writer left it
    instance,   \* the field: "zero" or "value"
    lock,       \* of mux: the goroutine that holds it, or "free"
    alive,      \* the goroutines that have been started
    knows,      \* those that are ordered after the load
    pos,        \* of each goroutine: "idle", "read", "lock", "check", "load", "set"
    got,        \* of each, the answer of its last Get
    preloaded,  \* a Get of Main had returned before it started anyone, without
                \* an error
    loads, gets, failures

singletonVars == <<isLoaded, instance, lock, alive, knows, pos, got, preloaded,
                   loads, gets, failures>>

SingletonInit ==
    /\ isLoaded = FALSE /\ instance = "zero"
    /\ lock = "free"
    /\ alive = {Main} /\ knows = {}
    /\ pos = [g \in Goroutines |-> "idle"]
    /\ got = [g \in Goroutines |-> "none"]
    /\ preloaded = FALSE
    /\ loads = 0 /\ gets = 0 /\ failures = 0

Goes(g, from, to) == pos[g] = from /\ pos' = [pos EXCEPT ![g] = to]

(* What g may find of a field that is v and was `old` before the load.     *)
Seen(g, old, v) == IF g \in knows THEN {v} ELSE {old, v}

(* A `go` statement.  What Main has seen, the goroutine sees.              *)
Spawn(g) ==
    /\ pos[Main] = "idle" /\ g \notin alive
    /\ alive' = alive \union {g}
    /\ knows' = IF Main \in knows THEN knows \union {g} ELSE knows
    /\ preloaded' = (preloaded \/ (alive = {Main} /\ got[Main] \in {"value", "zero"}))
    /\ UNCHANGED <<isLoaded, instance, lock, pos, got, loads, gets, failures>>

(* The first look, without the lock.                                       *)
Get(g) ==
    /\ g \in alive /\ gets < MaxGets
    /\ gets' = gets + 1
    /\ \E flag \in Seen(g, FALSE, isLoaded) :
           Goes(g, "idle", IF flag THEN "read" ELSE "lock")
    /\ UNCHANGED <<isLoaded, instance, lock, alive, knows, got, preloaded,
                   loads, failures>>

(* It found the flag: the field is read without the lock too.              *)
Read(g) ==
    /\ Goes(g, "read", "idle")
    /\ \E v \in Seen(g, "zero", instance) : got' = [got EXCEPT ![g] = v]
    /\ UNCHANGED <<isLoaded, instance, lock, alive, knows, preloaded,
                   loads, gets, failures>>

(* Holding the lock orders g after whoever held it before.                 *)
Lock(g) ==
    /\ lock = "free"
    /\ lock' = g
    /\ Goes(g, "lock", "check")
    /\ knows' = IF isLoaded THEN knows \union {g} ELSE knows
    /\ UNCHANGED <<isLoaded, instance, alive, got, preloaded, loads, gets, failures>>

(* Mutant of Check: no second look, whoever gets the lock loads.           *)
CheckOnce(g) ==
    /\ Goes(g, "check", "load")
    /\ UNCHANGED <<isLoaded, instance, lock, alive, knows, got, preloaded,
                   loads, gets, failures>>

(* The second look, with the lock.                                         *)
Check(g) ==
    /\ IF isLoaded
       THEN /\ Goes(g, "check", "idle")
            /\ got' = [got EXCEPT ![g] = instance]
            /\ lock' = "free"
       ELSE Goes(g, "check", "load") /\ UNCHANGED <<got, lock>>
    /\ UNCHANGED <<isLoaded, instance, alive, knows, preloaded,
                   loads, gets, failures>>

(* The loader returns; the field is written before the flag.               *)
Load(g) ==
    /\ Goes(g, "load", "set")
    /\ instance' = "value"
    /\ loads' = loads + 1
    /\ UNCHANGED <<isLoaded, lock, alive, knows, got, preloaded, gets, failures>>

(* The loader panics, or the safe one returns an error: the deferred       *)
(* Unlock runs, the flag stays down and the next Get tries again.          *)
LoadFails(g) ==
    /\ failures < MaxFailures
    /\ failures' = failures + 1
    /\ Goes(g, "load", "idle")
    /\ lock' = "free"
    /\ got' = [got EXCEPT ![g] = "error"]
    /\ UNCHANGED <<isLoaded, instance, alive, knows, preloaded, loads, gets>>

Set(g) ==
    /\ Goes(g, "set", "idle")
    /\ isLoaded' = TRUE
    /\ knows' = knows \union {g}
    /\ got' = [got EXCEPT ![g] = instance]
    /\ lock' = "free"
    /\ UNCHANGED <<instance, alive, preloaded, loads, gets, failures>>

SingletonNext ==
    \E g \in Goroutines : \/ Spawn(g) \/ Get(g) \/ Read(g) \/ Lock(g) \/ Check(g)
                          \/ Load(g) \/ LoadFails(g) \/ Set(g)

SingletonSpec == SingletonInit /\ [][SingletonNext]_singletonVars

-----------------------------------------------------------------------------
(* Properties.                                                             *)

(* One load succeeds, however the first calls race; and a value that was   *)
(* loaded before its users were started, as apiPrerun does for the         *)
(* database and the Stellar configuration (cmd/api.go:14-21), is whole     *)
(* for each of them, though they read it without the lock.                 *)
OneWholeInstance ==
    /\ loads <= 1
    /\ preloaded => \A g \in Goroutines : got[g] # "zero"
=============================================================================
