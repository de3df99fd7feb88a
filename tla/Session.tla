------------------------------ MODULE Session ------------------------------
(***************************************************************************)
(* The life of a process of shopble (`api http`, `watch`, `serve`): boot,  *)
(* the services of common/comrunner, the signal that ends them, the end.   *)
(* The main goroutine is one sequence of steps; each service has a         *)
(* goroutine of its own, started before the signal handler is installed.   *)
(*                                                                         *)
(* A service is its position in Services, whose elements are kinds.  What  *)
(* a service does is abstracted to being busy or not: with a request, a    *)
(* payment, a message.  Flags, logs, routes and the wording of errors are  *)
(* left out.  GracefulTimeout is zero (ParseDuration("") fails and the     *)
(* error is dropped), so the context of Stop has expired from the start.   *)
(***************************************************************************)
EXTENDS Integers, Sequences

CONSTANTS
    Services,   \* the session: a sequence of kinds
    MaxWork     \* bound: pieces of work begun

Kinds == {"http", "watcher", "consumer", "cron", "grpc"}

ASSUME ServicesAssumption == Services \in Seq(Kinds)
ASSUME MaxWorkAssumption == MaxWork \in Nat

Ids == 1..Len(Services)

(* What can be wrong with STELLAR_CONFIG once the defaults are filled in.  *)
ConfigFaults ==
    {"public_passphrase", "mainnet_horizon", "no_asset", "no_destination"}

VARIABLES
    main,       \* where the main goroutine is
    exit,       \* how the process ended, "no" while it lives
    config,     \* what is wrong with the configuration
    db,         \* the connection: "none", "open" (with its closer), "closed"
    up,         \* of each service: "off", "launched", "serving", "failed",
                \* or "returned" from Start
    told,       \* the services whose Stop has been called
    busy,       \* the services in the middle of something
    work,       \* pieces of work begun
    at,         \* the service End is stopping
    notified,   \* signal.Notify has been called
    signal      \* quitChan, of capacity one

boot == <<config, db>>
svcs == <<up, told, busy, work>>
sessionVars == <<main, exit, boot, svcs, at, notified, signal>>

SessionInit ==
    /\ main = "config" /\ exit = "no"
    /\ config = {} /\ db = "none"
    /\ up = [i \in Ids |-> "off"]
    /\ told = {} /\ busy = {} /\ work = 0
    /\ at = 1
    /\ notified = FALSE /\ signal = FALSE

Alive == exit = "no"

-----------------------------------------------------------------------------
(* Boot.  A panic unwinds to ExecuteRootCmd, whose deferred SafeClose      *)
(* closes what has been opened.                                            *)

Panic ==
    /\ Alive
    /\ main \in {"config", "db", "stellar", "services"}
    /\ exit' = "panic"
    /\ db' = IF db = "open" THEN "closed" ELSE db
    /\ UNCHANGED <<main, config, svcs, at, notified, signal>>

(* config.Init reads the file the environment names.                       *)
ReadConfig(c) ==
    /\ Alive /\ main = "config"
    /\ config' = c
    /\ main' = "db"
    /\ UNCHANGED <<exit, db, svcs, at, notified, signal>>

InitDb ==
    /\ Alive /\ main = "db"
    /\ db' = "open"
    /\ main' = "stellar"
    /\ UNCHANGED <<exit, config, svcs, at, notified, signal>>

validate(c) == c = {}

(* The load in the pre-run; validate panics on a bad configuration, before *)
(* anything serves.                                                        *)
GetStellarConfig ==
    /\ Alive /\ main = "stellar"
    /\ validate(config)
    /\ main' = "services"
    /\ UNCHANGED <<exit, boot, svcs, at, notified, signal>>

(* RunSession starts a goroutine for each service.                         *)
Launch ==
    /\ Alive /\ main = "services"
    /\ up' = [i \in Ids |-> "launched"]
    /\ main' = "notify"
    /\ UNCHANGED <<exit, boot, told, busy, work, at, notified, signal>>

Notify ==
    /\ Alive /\ main = "notify"
    /\ notified' = TRUE
    /\ main' = "wait"
    /\ UNCHANGED <<exit, boot, svcs, at, signal>>

-----------------------------------------------------------------------------
(* The services.                                                           *)

(* Start of a service that has not been told to stop.  A consumer or cron  *)
(* service starts its own goroutines and returns.                          *)
Start(i) ==
    /\ Alive /\ up[i] = "launched" /\ i \notin told
    /\ up' = [up EXCEPT ![i] = "serving"]
    /\ UNCHANGED <<main, exit, boot, told, busy, work, at, notified, signal>>

(* Start after Stop: the HTTP server answers ErrServerClosed and the       *)
(* watcher finds its context cancelled, which is no error; a grpc server   *)
(* answers ErrServerStopped, which Start does not know.  A consumer opens  *)
(* what nobody will close.                                                 *)
StartTooLate(i) ==
    /\ Alive /\ up[i] = "launched" /\ i \in told
    /\ up' = [up EXCEPT ![i] = CASE Services[i] = "grpc" -> "failed"
                                 [] Services[i] \in {"http", "watcher"} -> "returned"
                                 [] OTHER -> "serving"]
    /\ UNCHANGED <<main, exit, boot, told, busy, work, at, notified, signal>>

(* The address is in use, the loader fails.  The watcher's Start never     *)
(* returns an error.                                                       *)
StartFails(i) ==
    /\ Alive /\ up[i] = "launched"
    /\ Services[i] # "watcher"
    /\ up' = [up EXCEPT ![i] = "failed"]
    /\ UNCHANGED <<main, exit, boot, told, busy, work, at, notified, signal>>

(* Log.Fatal ends the process, with no deferred call.                      *)
Fatal(i) ==
    /\ Alive /\ up[i] = "failed"
    /\ exit' = "fatal"
    /\ UNCHANGED <<main, boot, svcs, at, notified, signal>>

(* A request, a payment, a job; none once the service has been told.       *)
Begin(i) ==
    /\ Alive /\ up[i] = "serving" /\ i \notin busy /\ i \notin told
    /\ work < MaxWork
    /\ work' = work + 1
    /\ busy' = busy \union {i}
    /\ UNCHANGED <<main, exit, boot, up, told, at, notified, signal>>

Finish(i) ==
    /\ Alive /\ i \in busy
    /\ busy' = busy \ {i}
    /\ UNCHANGED <<main, exit, boot, up, told, work, at, notified, signal>>

(* The loop of a service that has been told ends at its next look.         *)
Return(i) ==
    /\ Alive /\ up[i] = "serving" /\ i \in told /\ i \notin busy
    /\ up' = [up EXCEPT ![i] = "returned"]
    /\ UNCHANGED <<main, exit, boot, told, busy, work, at, notified, signal>>

-----------------------------------------------------------------------------
(* The end.                                                                *)

(* Before Notify the default action kills the process; a second signal     *)
(* finds the channel full, or nobody who reads it.                         *)
Signal ==
    /\ Alive
    /\ IF notified THEN signal' = TRUE /\ exit' = exit
                   ELSE signal' = signal /\ exit' = "killed"
    /\ UNCHANGED <<main, boot, svcs, at, notified>>

(* BeforeStop does nothing in any service.                                 *)
Receive ==
    /\ Alive /\ main = "wait" /\ signal
    /\ signal' = FALSE
    /\ main' = "tell"
    /\ UNCHANGED <<exit, boot, svcs, at, notified>>

(* Stop is called: the listener is closed, the context cancelled.          *)
Tell ==
    /\ Alive /\ main = "tell" /\ at \in Ids
    /\ told' = told \union {at}
    /\ main' = "stop"
    /\ UNCHANGED <<exit, boot, up, busy, work, at, notified, signal>>

(* Mutant of Stopped: Shutdown waits for the requests.                     *)
StoppedIdle ==
    /\ Alive /\ main = "stop"
    /\ at \notin busy
    /\ at' = at + 1
    /\ main' = "tell"
    /\ UNCHANGED <<exit, boot, svcs, notified, signal>>

(* Mutant of Stopped: the first error ends the loop.                       *)
StoppedOrGivenUp ==
    /\ Alive /\ main = "stop"
    /\ Services[at] = "grpc" => at \notin busy
    /\ IF at \in busy /\ Services[at] = "http"
       THEN at' = Len(Services) + 1
       ELSE at' = at + 1
    /\ main' = "tell"
    /\ UNCHANGED <<exit, boot, svcs, notified, signal>>

(* Stop returns.  Only GracefulStop waits, and has no deadline; Shutdown   *)
(* with a context that has expired returns an error if a request runs, and *)
(* End puts it down and goes on with the next service.                     *)
Stopped ==
    /\ Alive /\ main = "stop"
    /\ Services[at] = "grpc" => at \notin busy
    /\ at' = at + 1
    /\ main' = "tell"
    /\ UNCHANGED <<exit, boot, svcs, notified, signal>>

(* RunSession returns, SafeClose runs the closers, main returns: whatever  *)
(* is busy is cut off.                                                     *)
SafeClose ==
    /\ Alive /\ main = "tell" /\ at \notin Ids
    /\ db' = "closed"
    /\ exit' = "clean"
    /\ UNCHANGED <<main, config, svcs, at, notified, signal>>

-----------------------------------------------------------------------------
Boot == Panic \/ InitDb \/ GetStellarConfig
            \/ (\E c \in {{}} \union {{f} : f \in ConfigFaults} : ReadConfig(c))

End == Receive \/ Tell \/ Stopped \/ SafeClose

(* Gone: the process stays ended.                                          *)
SessionNext ==
    \/ Boot \/ Launch \/ Notify
    \/ \E i \in Ids : \/ Start(i) \/ StartTooLate(i) \/ StartFails(i) \/ Fatal(i)
                      \/ Begin(i) \/ Finish(i) \/ Return(i)
    \/ Signal \/ End

(* The main goroutine and a Fatal go on; an RPC ends, since GracefulStop   *)
(* waits for it.  Nothing is assumed of the other requests.                *)
SessionFairness ==
    /\ WF_sessionVars(Notify \/ End)
    /\ \A i \in Ids : WF_sessionVars(Fatal(i))
    /\ \A i \in Ids : WF_sessionVars(Services[i] = "grpc" /\ Finish(i))

SessionSpec == SessionInit /\ [][SessionNext]_sessionVars /\ SessionFairness

-----------------------------------------------------------------------------
(* Properties.                                                             *)

(* A process that ends by itself has told every service, whatever their    *)
(* answers, and closes the database after the last of them.                *)
EveryServiceTold ==
    /\ exit = "clean" => told = Ids
    /\ db = "closed" => told = Ids \/ exit = "panic"

(* Half a process does not go on: "live together, die together"            *)
(* (cmd/serve.go:16-20).  A signal that was taken, or a service that       *)
(* failed, ends the whole of it, however long requests take.               *)
EndsTogether ==
    (signal \/ \E i \in Ids : up[i] = "failed") ~> ~ Alive
=============================================================================
