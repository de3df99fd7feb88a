---------------------------- MODULE Parts_proofs ----------------------------
(***************************************************************************)
(* Proofs about the parts around the reconciliation of orders: the end of  *)
(* a process, the queue consumer, the commit callbacks of nested           *)
(* transactions, the singleton, the answers to requests that fail, the     *)
(* calls of HTTP services and the ordered sets.                            *)
(* Each has an invariant of its own, for any value of the constants.       *)
(***************************************************************************)
EXTENDS Session, Consumer, SqlTxn, Singleton, ApiErrors, Restful, SetOrder,
        SequenceTheorems, FiniteSetTheorems, TLAPS

-----------------------------------------------------------------------------
(* Session.                                                                *)

(* The services told are those before `at`, and the one being stopped; the *)
(* database is closed only by a panic at boot or after the last of them.   *)
Told ==
    /\ main \in {"config", "db", "stellar", "services", "notify", "wait", "tell", "stop"}
    /\ at \in 1..Len(Services) + 1
    /\ main \notin {"tell", "stop"} => at = 1
    /\ main = "tell" => told = 1..at - 1
    /\ main = "stop" => at \in Ids /\ told = 1..at
    /\ main \notin {"tell", "stop"} => told = {}

Closed ==
    /\ exit = "clean" => told = Ids
    /\ db = "closed" => told = Ids \/ exit = "panic"

SessionInv == Told /\ Closed

(* The number of services is a natural number.                             *)
LEMMA ServicesLength == Len(Services) \in Nat
BY ServicesAssumption DEF Kinds

(* Nobody has been told in the beginning.                                  *)
LEMMA SessionStarts == SessionInit => SessionInv
BY ServicesLength DEF SessionInit, SessionInv, Told, Closed, Ids

(* Every step of the session keeps its invariant.                          *)
LEMMA SessionKeeps == SessionInv /\ [SessionNext]_sessionVars => SessionInv'
<1> SUFFICES ASSUME SessionInv, [SessionNext]_sessionVars PROVE SessionInv'
    OBVIOUS
<1> USE ServicesLength DEF SessionInv, Told, Closed, Ids, Alive, boot, svcs
<1>1. CASE Boot
    BY <1>1 DEF Boot, Panic, ReadConfig, InitDb, GetStellarConfig
<1>2. CASE Launch \/ Notify
    BY <1>2 DEF Launch, Notify
<1>3. ASSUME NEW i \in 1..Len(Services),
             Start(i) \/ StartTooLate(i) \/ StartFails(i) \/ Fatal(i)
                 \/ Begin(i) \/ Finish(i) \/ Return(i)
      PROVE  SessionInv'
    BY <1>3 DEF Start, StartTooLate, StartFails, Fatal, Begin, Finish, Return
<1>4. CASE Signal
    BY <1>4 DEF Signal
<1>5. CASE Receive
    BY <1>5 DEF Receive
<1>6. CASE Tell
    BY <1>6 DEF Tell
<1>7. CASE Stopped
    BY <1>7 DEF Stopped
<1>8. CASE SafeClose
    BY <1>8 DEF SafeClose
<1>9. CASE UNCHANGED sessionVars
    BY <1>9 DEF sessionVars
<1> QED BY <1>1, <1>2, <1>3, <1>4, <1>5, <1>6, <1>7, <1>8, <1>9
        DEF SessionNext, End

(* A process that ends by itself has told every service, and closes the    *)
(* database after the last of them, for any session.                       *)
THEOREM EndTellsAll == SessionSpec => []EveryServiceTold
<1>1. SessionInv => EveryServiceTold
    BY DEF SessionInv, Closed, EveryServiceTold
<1> QED BY <1>1, SessionStarts, SessionKeeps, PTL DEF SessionSpec

-----------------------------------------------------------------------------
(* Singleton.                                                              *)

(* The lock: who is between Lock and its deferred Unlock holds it.         *)
Critical == {"check", "load", "set"}

Locked ==
    /\ pos \in [Goroutines -> {"idle", "read", "lock"} \union Critical]
    /\ \A g \in Goroutines : pos[g] \in Critical => lock = g
    /\ lock \in Goroutines \union {"free"}

(* One load, by the holder of the lock, then the flag.                     *)
LoadedOnce ==
    /\ isLoaded \in BOOLEAN /\ instance \in {"zero", "value"}
    /\ loads \in {0, 1}
    /\ isLoaded => loads = 1 /\ instance = "value"
    /\ loads = 1 /\ ~ isLoaded => lock # "free" /\ pos[lock] = "set"
    /\ \A g \in Goroutines : /\ pos[g] \in {"load", "set"} => ~ isLoaded
                             /\ pos[g] = "load" => loads = 0
                             /\ pos[g] = "set" => loads = 1 /\ instance = "value"

(* As long as Main is alone it knows of a load; once it has the value,     *)
(* whoever it starts knows too.                                            *)
Ordered ==
    /\ Main \in alive /\ alive \subseteq Goroutines
    /\ got \in [Goroutines -> {"none", "zero", "value", "error"}]
    /\ knows \subseteq alive
    /\ \A g \in Goroutines \ alive : pos[g] = "idle" /\ got[g] = "none"
    /\ knows # {} => isLoaded
    /\ alive = {Main} /\ isLoaded => Main \in knows
    /\ alive = {Main} => /\ pos[Main] = "read" => isLoaded
                         /\ got[Main] = "value" => isLoaded
                         /\ got[Main] # "zero"
    /\ preloaded => /\ isLoaded /\ alive \subseteq knows
                    /\ \A g \in Goroutines : got[g] # "zero"

SingletonInv == Locked /\ LoadedOnce /\ Ordered

(* "free" is nobody's name.                                                *)
LEMMA FreeIsNobody == Main \in Goroutines /\ "free" \notin Goroutines
BY SingletonAssumption

(* Nothing is loaded in the beginning.                                     *)
LEMMA SingletonStarts == SingletonInit => SingletonInv
<1> SUFFICES ASSUME SingletonInit PROVE SingletonInv
    OBVIOUS
<1>1. Locked
    BY FreeIsNobody DEF SingletonInit, Locked, Critical
<1>2. knows = {} /\ alive = {Main}
    BY DEF SingletonInit
<1>3. ~ preloaded
    BY DEF SingletonInit
<1>4. ~ isLoaded
    BY DEF SingletonInit
<1>5. isLoaded \in BOOLEAN
    BY Zenon DEF SingletonInit
<1>6. loads = 0 /\ instance = "zero"
    BY DEF SingletonInit
<1>7. \A g \in Goroutines : pos[g] = "idle" /\ got[g] = "none"
    BY DEF SingletonInit
<1>8. got \in [Goroutines -> {"none", "zero", "value", "error"}]
    BY DEF SingletonInit
<1>9. LoadedOnce
    BY <1>4, <1>5, <1>6, <1>7 DEF LoadedOnce
<1>10. Ordered
    BY <1>2, <1>3, <1>4, <1>7, <1>8, FreeIsNobody DEF Ordered
<1> QED BY <1>1, <1>9, <1>10 DEF SingletonInv

(* Every access keeps the invariant.                                       *)
LEMMA SingletonKeeps ==
    SingletonInv /\ [SingletonNext]_singletonVars => SingletonInv'
<1> SUFFICES ASSUME SingletonInv, [SingletonNext]_singletonVars PROVE SingletonInv'
    OBVIOUS
<1> USE FreeIsNobody DEF SingletonInv, Locked, LoadedOnce, Ordered, Critical, Goes, Seen
<1>1. ASSUME NEW g \in Goroutines, Spawn(g) PROVE SingletonInv'
    BY <1>1 DEF Spawn
<1>2. ASSUME NEW g \in Goroutines, Get(g) PROVE SingletonInv'
  <2>1. PICK flag \in Seen(g, FALSE, isLoaded) :
            Goes(g, "idle", IF flag THEN "read" ELSE "lock")
    BY <1>2 DEF Get
  <2>2. flag = FALSE \/ flag = isLoaded
    BY <2>1, Zenon
  <2>3. CASE flag /\ isLoaded
    BY <1>2, <2>1, <2>3 DEF Get
  <2>4. CASE ~ flag
    BY <1>2, <2>1, <2>4 DEF Get
  <2> QED BY <2>2, <2>3, <2>4
<1>3. ASSUME NEW g \in Goroutines, Read(g) PROVE SingletonInv'
  <2>1. PICK v \in Seen(g, "zero", instance) : got' = [got EXCEPT ![g] = v]
    BY <1>3 DEF Read
  <2>2. v \in {"zero", "value"} /\ (g \in knows => v = "value")
    BY <2>1
  <2> QED BY <1>3, <2>1, <2>2 DEF Read
<1>4. ASSUME NEW g \in Goroutines, Lock(g) PROVE SingletonInv'
    BY <1>4 DEF Lock
<1>5. ASSUME NEW g \in Goroutines, Check(g) PROVE SingletonInv'
    BY <1>5 DEF Check
<1>6. ASSUME NEW g \in Goroutines, Load(g) PROVE SingletonInv'
    BY <1>6 DEF Load
<1>7. ASSUME NEW g \in Goroutines, LoadFails(g) PROVE SingletonInv'
    BY <1>7 DEF LoadFails
<1>8. ASSUME NEW g \in Goroutines, Set(g) PROVE SingletonInv'
    BY <1>8 DEF Set
<1>9. CASE UNCHANGED singletonVars
    BY <1>9 DEF singletonVars
<1> QED BY <1>1, <1>2, <1>3, <1>4, <1>5, <1>6, <1>7, <1>8, <1>9 DEF SingletonNext

(* One load succeeds for any number of goroutines, and a value loaded      *)
(* before they were started is whole for each of them.                     *)
THEOREM InstanceIsWhole == SingletonSpec => []OneWholeInstance
<1>1. SingletonInv => OneWholeInstance
    BY DEF SingletonInv, LoadedOnce, Ordered, OneWholeInstance
<1> QED BY <1>1, SingletonStarts, SingletonKeeps, PTL DEF SingletonSpec

-----------------------------------------------------------------------------
(* SqlTxn.                                                                 *)

(* Frames and callbacks: who registers a callback is a frame started under *)
(* this wrapper; callbacks run while a transaction is open.                *)
Shape ==
    /\ started \in 0..MaxFrames
    /\ stack \in Seq(Frames) /\ Len(stack) <= started
    /\ \A i \in 1..Len(stack) : stack[i] <= started
    /\ status \in [Frames -> {"open", "released", "undone", "durable"}]
    /\ owners \in Seq(Frames)
    /\ \A c \in 1..Len(owners) : owners[c] <= started
    /\ ran \in Seq(Nat) /\ Len(ran) = Len(owners)
    /\ next \in 0..Len(owners) + 1
    /\ next > 0 => stack # <<>>
    /\ result \in {"open", "nil", "error", "cut"}
    /\ stack = <<>> /\ result = "open" => Len(owners) = 0

(* Nothing is durable while a body runs, or the callbacks after an inner   *)
(* transaction; the callbacks before `next` have run.                      *)
Noticed ==
    /\ stack # <<>> /\ (next = 0 \/ Len(stack) > 1) =>
           \A f \in Frames : status[f] # "durable"
    /\ \A c \in 1..Len(owners) : next > c => ran[c] >= 1
    /\ stack = <<>> /\ result = "nil" => \A c \in 1..Len(owners) : ran[c] >= 1

(* A transaction with none inside: its callbacks run after a commit it is  *)
(* told of, in order, each once.                                           *)
NoticedOnce ==
    started = 1 =>
        /\ stack # <<>> /\ next = 0 => \A c \in 1..Len(owners) : ran[c] = 0
        /\ next > 0 => /\ \A c \in 1..Len(owners) : ran[c] = (IF c < next THEN 1 ELSE 0)
                       /\ status[1] = "durable"
        /\ stack = <<>> /\ result = "error" => \A c \in 1..Len(owners) : ran[c] = 0
        /\ stack = <<>> /\ result = "nil" =>
               status[1] = "durable" /\ \A c \in 1..Len(owners) : ran[c] = 1

TxnInv == Shape /\ Noticed /\ NoticedOnce

(* No transaction has been started in the beginning.                       *)
LEMMA TxnStarts == TxnInit => TxnInv
BY TxnAssumption DEF TxnInit, TxnInv, Shape, Noticed, NoticedOnce, Frames

(* Popping the innermost frame.                                            *)
LEMMA PopFrame ==
    ASSUME Shape, stack # <<>>
    PROVE  /\ Pop \in Seq(Frames) /\ Len(Pop) = Len(stack) - 1 /\ Len(stack) > 0
           /\ \A i \in 1..Len(Pop) : Pop[i] <= started
<1>1. stack \in Seq(Frames) /\ Len(stack) > 0 /\ Len(stack) \in Nat
    BY EmptySeq DEF Shape
<1>2. \A i \in 1..Len(stack) : stack[i] \in Frames
    BY <1>1, ElementOfSeq
<1>i. Len(stack) - 1 \in Int /\ \A i \in 1..Len(stack) - 1 : stack[i] \in Frames
    BY <1>1, <1>2
<1>3. Pop \in Seq(Frames)
    BY <1>i, SubSeqProperties DEF Pop
<1>4. Len(Pop) = IF 1 <= Len(stack) - 1 THEN Len(stack) - 1 - 1 + 1 ELSE 0
    BY <1>i, SubSeqProperties DEF Pop
<1>5. \A i \in 1..Len(stack) - 1 - 1 + 1 : Pop[i] = stack[1 + i - 1]
    BY <1>i, SubSeqProperties DEF Pop
<1>6. Len(Pop) = Len(stack) - 1
  <2>1. PICK n \in Nat : n = Len(stack) /\ n > 0
    BY <1>1
  <2>2. Len(Pop) = IF 1 <= n - 1 THEN n - 1 - 1 + 1 ELSE 0
    BY <1>4, <2>1
  <2>3. (1 <= n - 1 \/ n = 1) /\ n - 1 - 1 + 1 = n - 1
    BY <2>1
  <2> QED BY <2>1, <2>2, <2>3
<1>7. \A i \in 1..Len(Pop) : Pop[i] <= started
  <2> SUFFICES ASSUME NEW i \in 1..Len(Pop) PROVE Pop[i] <= started
    OBVIOUS
  <2>1. i \in 1..Len(stack) - 1 - 1 + 1 /\ 1 + i - 1 = i /\ i \in 1..Len(stack)
    BY <1>1, <1>6
  <2>2. Pop[i] = stack[i]
    BY <1>5, <2>1
  <2> QED BY <2>1, <2>2 DEF Shape
<1> QED BY <1>1, <1>3, <1>6, <1>7

(* The innermost frame is one of those started.                            *)
LEMMA TopFrame ==
    ASSUME Shape, stack # <<>>
    PROVE  Top \in Frames /\ Top \in 1..started /\ Len(stack) > 0
<1>1. stack \in Seq(Frames) /\ Len(stack) \in 1..Len(stack)
    BY EmptySeq DEF Shape
<1>2. Top \in Frames
    BY <1>1, ElementOfSeq DEF Top
<1> QED BY <1>1, <1>2 DEF Shape, Top, Frames

(* Every step of a transaction keeps the invariant.                        *)
LEMMA TxnKeeps == TxnInv /\ [TxnNext]_txnVars => TxnInv'
<1> SUFFICES ASSUME TxnInv, [TxnNext]_txnVars PROVE TxnInv'
    OBVIOUS
<1> USE DEF TxnInv
<1>s. /\ started \in Nat /\ MaxFrames \in Nat \ {0} /\ Len(stack) \in Nat
      /\ stack # <<>> => Len(stack) > 0
      /\ Len(owners) \in Nat
    BY TxnAssumption, EmptySeq, LenProperties DEF Shape
<1>1. CASE Txn
    BY <1>1, TxnAssumption DEF Txn, Shape, Noticed, NoticedOnce, Frames
<1>2. CASE NestedTxn
  <2>1. /\ started' = started + 1 /\ started + 1 \in Frames /\ stack # <<>> /\ next = 0
        /\ stack' = Append(stack, started + 1)
        /\ UNCHANGED <<status, owners, ran, next, result>>
    BY <1>2, <1>s DEF NestedTxn, Frames, InBody
  <2>2. /\ stack' \in Seq(Frames) /\ Len(stack') = Len(stack) + 1 /\ stack' # <<>>
        /\ \A i \in 1..Len(stack) : stack'[i] = stack[i]
        /\ stack'[Len(stack) + 1] = started + 1
    BY <2>1, AppendProperties DEF Shape
  <2>3. \A i \in 1..Len(stack') : stack'[i] <= started'
    BY <2>1, <2>2, <1>s DEF Shape, Frames
  <2>4. Shape'
    <3>1. /\ started' \in 0..MaxFrames /\ stack' \in Seq(Frames) /\ Len(stack') <= started'
          /\ \A c \in 1..Len(owners') : owners'[c] <= started'
      BY <2>1, <2>2, <1>s DEF Shape, Frames
    <3>2. /\ result' \in {"open", "nil", "error", "cut"} /\ stack' # <<>>
          /\ status' \in [Frames -> {"open", "released", "undone", "durable"}]
          /\ owners' \in Seq(Frames) /\ ran' \in Seq(Nat) /\ Len(ran') = Len(owners')
          /\ next' \in 0..Len(owners') + 1
      BY <2>1, <2>2 DEF Shape
    <3> QED BY <2>3, <3>1, <3>2, Zenon DEF Shape
  <2>5. Noticed'
    BY <2>1, <2>2, <1>s DEF Noticed
  <2>6. started' # 1
    BY <2>1, <1>s DEF Shape
  <2> QED BY <2>4, <2>5, <2>6 DEF NoticedOnce
<1>3. CASE OnTxCommit
  <2>1. /\ Top \in Frames /\ Top <= started
        /\ owners' = Append(owners, Top) /\ ran' = Append(ran, 0)
        /\ stack # <<>> /\ next = 0 /\ UNCHANGED <<stack, started, status, next, result>>
    BY <1>3, TopFrame DEF OnTxCommit, InBody
  <2>2. /\ owners' \in Seq(Frames) /\ Len(owners') = Len(owners) + 1
        /\ \A c \in 1..Len(owners) : owners'[c] = owners[c]
        /\ owners'[Len(owners) + 1] = Top
    BY <2>1, AppendProperties DEF Shape
  <2>3. /\ ran' \in Seq(Nat) /\ Len(ran') = Len(ran) + 1
        /\ \A c \in 1..Len(ran) : ran'[c] = ran[c]
        /\ ran'[Len(ran) + 1] = 0
    BY <2>1, AppendProperties DEF Shape
  <2>4. \A c \in 1..Len(owners') : owners'[c] <= started'
    BY <2>1, <2>2, <1>s DEF Shape
  <2>5. Shape'
    BY <2>1, <2>2, <2>3, <2>4, <1>s DEF Shape
  <2>6. Noticed'
    BY <2>1, <1>s DEF Noticed
  <2>7. NoticedOnce'
    BY <2>1, <2>2, <2>3, <1>s DEF Shape, NoticedOnce
  <2> QED BY <2>5, <2>6, <2>7
<1>4. CASE Release
  <2>1. /\ stack # <<>> /\ ~ (Len(stack) = 1) /\ next = 0 /\ next' = 1
        /\ status' = [status EXCEPT ![Top] = "released"]
        /\ UNCHANGED <<stack, started, owners, ran, result>>
    BY <1>4 DEF Release, Outermost, InBody
  <2>s. stack # <<>>
    BY <2>1
  <2>t. Top \in Frames
    BY <2>s, TopFrame
  <2>n. PICK n \in Nat : n = Len(stack) /\ n > 0 /\ ~ (n = 1)
    BY <2>1, <2>s, <1>s
  <2>l. Len(stack) > 1
    BY <2>n
  <2>2. Shape'
    BY <2>1, <2>t, <2>l, <1>s DEF Shape
  <2>3. Noticed'
    BY <2>1, <2>t, <2>l, <1>s DEF Shape, Noticed
  <2>4. started' # 1
    BY <2>1, <2>t, <2>l, <1>s DEF Shape
  <2> QED BY <2>2, <2>3, <2>4 DEF NoticedOnce
<1>5. CASE CommitTxn
  <2>1. /\ stack # <<>> /\ next = 0 /\ next' = 1
        /\ UNCHANGED <<stack, started, owners, ran, result>>
    BY <1>5 DEF CommitTxn, InBody
  <2>l. ~ (Len(stack) > 1)
    BY <1>5 DEF CommitTxn, Outermost
  <2>t. Top \in Frames /\ Top <= started
    BY <2>1, TopFrame
  <2>2. status' \in [Frames -> {"open", "released", "undone", "durable"}]
    BY <1>5 DEF CommitTxn, EndsWith, Shape
  <2>3. status'[Top] = "durable"
    BY <1>5, <2>t DEF CommitTxn, EndsWith
  <2>4. Shape'
    BY <2>1, <2>2, <1>s DEF Shape
  <2>5. Noticed'
    BY <2>1, <2>l, <1>s DEF Noticed
  <2>6. started = 1 => Top = 1
    BY <2>t, <1>s DEF Frames
  <2>7. NoticedOnce'
    BY <2>1, <2>3, <2>6, <1>s DEF NoticedOnce
  <2> QED BY <2>4, <2>5, <2>7
<1>6. CASE Rollback \/ CommitUnheard
  <2>1. /\ Pop \in Seq(Frames) /\ Len(Pop) = Len(stack) - 1 /\ Len(stack) > 0
        /\ \A i \in 1..Len(Pop) : Pop[i] <= started
    BY <1>6, PopFrame DEF Rollback, CommitUnheard
  <2>2. status' \in [Frames -> {"open", "released", "undone", "durable"}]
    BY <1>6 DEF Rollback, CommitUnheard, EndsWith, Shape
  <2>3. /\ UNCHANGED <<started, owners, ran, next>> /\ stack' = Pop /\ next = 0
        /\ stack # <<>>
        /\ result' = IF Len(stack) = 1 THEN "error" ELSE result
    BY <1>6 DEF Rollback, CommitUnheard, InBody, Returns, Outermost
  <2>4. Pop # <<>> => \A f \in Frames : status'[f] # "durable"
    <3>1. CASE Rollback
      BY <2>3, <3>1 DEF Rollback, EndsWith, Noticed
    <3>2. CASE CommitUnheard
      BY <2>1, <3>2, EmptySeq DEF CommitUnheard, Outermost
    <3> QED BY <1>6, <3>1, <3>2
  <2>5. Pop = <<>> <=> Len(stack) = 1
    BY <2>1, <1>s, EmptySeq
  <2>6. Shape'
    BY <2>1, <2>2, <2>3, <2>5, <1>s DEF Shape
  <2>7. Noticed'
    BY <2>3, <2>4, <2>5, <1>s DEF Noticed
  <2>8. NoticedOnce'
    BY <2>3, <2>5, <1>s DEF NoticedOnce
  <2> QED BY <2>6, <2>7, <2>8
<1>7. CASE RunCallback
  <2>1. /\ next \in 1..Len(owners) /\ next' = next + 1
        /\ ran' = [ran EXCEPT ![next] = @ + 1]
        /\ UNCHANGED <<stack, started, status, owners, result>>
    BY <1>7 DEF RunCallback
  <2>2. \A c \in 1..Len(owners) : ran[c] \in Nat
    BY ElementOfSeq DEF Shape
  <2>3. /\ ran' \in Seq(Nat) /\ Len(ran') = Len(owners)
        /\ \A c \in 1..Len(owners) : ran'[c] = IF c = next THEN ran[c] + 1 ELSE ran[c]
    BY <2>1, <2>2, ExceptSeq DEF Shape
  <2>4. stack # <<>> /\ next > 0
    BY <2>1, <1>s DEF Shape
  <2>5. Shape'
    BY <2>1, <2>3, <2>4, <1>s DEF Shape
  <2>6. Noticed'
    BY <2>1, <2>2, <2>3, <2>4, <1>s DEF Noticed
  <2>7. NoticedOnce'
    BY <2>1, <2>2, <2>3, <2>4, <1>s DEF NoticedOnce
  <2> QED BY <2>5, <2>6, <2>7
<1>8. CASE CallbackPanics
  <2>1. result' = "cut"
    BY <1>8 DEF CallbackPanics
  <2>2. stack' = <<>> /\ next' = 0 /\ started' = started /\ owners' = owners
    BY <1>8 DEF CallbackPanics
  <2>3. next \in 1..Len(owners) /\ ran' = [ran EXCEPT ![next] = @ + 1]
    BY <1>8 DEF CallbackPanics
  <2>4. \A c \in 1..Len(owners) : ran[c] \in Nat
    BY ElementOfSeq DEF Shape
  <2>5. ran' \in Seq(Nat) /\ Len(ran') = Len(owners)
    BY <2>3, <2>4, ExceptSeq DEF Shape
  <2>6. status' \in [Frames -> {"open", "released", "undone", "durable"}]
    BY <1>8 DEF CallbackPanics, Shape
  <2>7. Shape'
    BY <2>1, <2>2, <2>5, <2>6, <1>s DEF Shape
  <2>8. Noticed'
    BY <2>1, <2>2, <1>s DEF Noticed
  <2>9. NoticedOnce'
    BY <2>1, <2>2, <1>s DEF NoticedOnce
  <2> QED BY <2>7, <2>8, <2>9
<1>9. CASE CallbacksDone
  <2>1. /\ Pop \in Seq(Frames) /\ Len(Pop) = Len(stack) - 1 /\ Len(stack) > 0
        /\ \A i \in 1..Len(Pop) : Pop[i] <= started
    BY <1>9, PopFrame DEF CallbacksDone
  <2>2. /\ next = Len(owners) + 1 /\ next' = 0 /\ stack' = Pop /\ stack # <<>>
        /\ result' = IF Len(stack) = 1 THEN "nil" ELSE result
        /\ UNCHANGED <<started, status, owners, ran>>
    BY <1>9 DEF CallbacksDone, Returns, Outermost
  <2>3. \A c \in 1..Len(owners) : ran[c] >= 1
    BY <2>2, <1>s DEF Noticed
  <2>4. Pop = <<>> <=> Len(stack) = 1
    BY <2>1, <1>s, EmptySeq
  <2>5. stack' # <<>> => Len(stack) > 1
    BY <2>1, <2>2, <2>4, <1>s
  <2>6. Shape'
    BY <2>1, <2>2, <2>4, <1>s DEF Shape
  <2>7. Noticed'
    BY <2>2, <2>3, <2>5, <1>s DEF Noticed
  <2>8. started = 1 => stack' = <<>>
    BY <2>5, <1>s DEF Shape
  <2>9. NoticedOnce'
    BY <2>2, <2>4, <2>8, <1>s DEF NoticedOnce
  <2> QED BY <2>6, <2>7, <2>9
<1>10. CASE UNCHANGED txnVars
    BY <1>10 DEF txnVars, Shape, Noticed, NoticedOnce
<1> QED BY <1>1, <1>2, <1>3, <1>4, <1>5, <1>6, <1>7, <1>8, <1>9, <1>10 DEF TxnNext

(* However transactions nest and fail: every callback of the durable work  *)
(* of a Txn that returned nil has run, and if none is nested exactly those *)
(* have, once.                                                             *)
THEOREM CommitsAreNoticed == TxnSpec => []CommitIsNoticed
<1>1. TxnInv => CommitIsNoticed
  <2> SUFFICES ASSUME TxnInv, stack = <<>>, NEW c \in 1..Len(owners)
               PROVE  LET heard == status[owners[c]] = "durable" /\ result = "nil"
                      IN  /\ heard => ran[c] >= 1
                          /\ started = 1 /\ result # "cut" =>
                                 ran[c] = (IF heard THEN 1 ELSE 0)
    BY DEF CommitIsNoticed
  <2>1. owners[c] \in Frames /\ owners[c] <= started
    BY ElementOfSeq DEF TxnInv, Shape
  <2>2. started = 1 => owners[c] = 1
    BY <2>1, TxnAssumption DEF Frames
  <2>3. result \in {"nil", "error", "cut"}
    BY DEF TxnInv, Shape
  <2> QED BY <2>2, <2>3 DEF TxnInv, Noticed, NoticedOnce
<1> QED BY <1>1, TxnStarts, TxnKeeps, PTL DEF TxnSpec

-----------------------------------------------------------------------------
(* Consumer.                                                               *)

Outcomes == {"none", "done", "unhandled", "ignored", "failed", "skipped", "panicked"}

Delivering == {"execute", "decide", "commit", "skip", "dying"}

ConsumerType ==
    /\ loop \in {"off", "dead", "select", "fetch"} \union Delivering
    /\ position \in 0..LastOffset /\ committed \in 0..position
    /\ retries \in 0..MaxRetry + 1
    /\ outcome \in [1..LastOffset -> Outcomes]

(* The message being delivered is not committed yet, and the next stage of *)
(* the loop says how its delivery ended so far.                            *)
Delivered ==
    /\ loop \in Delivering => committed < position
    /\ loop = "decide" => outcome[position] \in {"failed", "skipped"}
    /\ loop = "commit" => outcome[position] \in {"done", "unhandled", "ignored"}
    /\ loop = "skip" => outcome[position] = "skipped"
    /\ loop = "dying" => outcome[position] = "panicked"
    /\ loop \in {"select", "fetch"} /\ position > 0 => outcome[position] # "none"

(* What lies before it was handed out.                                     *)
HandedOut ==
    /\ \A m \in 1..LastOffset : m < position => outcome[m] # "none"
    /\ committed > 0 => outcome[committed] \notin {"none", "failed"}

(* After the message that a closed consumer may still take it only spins.  *)
TakesOneMore ==
    /\ extra \in {0, 1}
    /\ extra = 1 => closed /\ loop # "fetch"

ConsumerInv == ConsumerType /\ Delivered /\ HandedOut /\ TakesOneMore

(* Nothing has been delivered in the beginning.                            *)
LEMMA ConsumerStarts == ConsumerInit => ConsumerInv
<1> SUFFICES ASSUME ConsumerInit PROVE ConsumerInv
    OBVIOUS
<1>1. ConsumerType /\ TakesOneMore
    BY ConsumerAssumption DEF ConsumerInit, ConsumerType, TakesOneMore, Outcomes
<1>2. Delivered /\ HandedOut
    BY ConsumerAssumption DEF ConsumerInit, Delivered, HandedOut, Delivering
<1> QED BY <1>1, <1>2 DEF ConsumerInv

(* Every step of the consumer keeps its invariant.                         *)
LEMMA ConsumerKeeps == ConsumerInv /\ [ConsumerNext]_consumerVars => ConsumerInv'
<1> SUFFICES ASSUME ConsumerInv, [ConsumerNext]_consumerVars PROVE ConsumerInv'
    OBVIOUS
<1> USE ConsumerAssumption DEF ConsumerInv, ConsumerType, Delivered, HandedOut,
        TakesOneMore, Delivering
<1>1. CASE StartConsumer
    BY <1>1 DEF StartConsumer
<1>2. CASE Killed \/ CloseConsumer
    BY <1>2 DEF Killed, CloseConsumer
<1>3. CASE Select \/ FetchNothing
    BY <1>3 DEF Select, FetchNothing
<1>4. CASE Fetch
    BY <1>4 DEF Fetch, Outcomes
<1>5. ASSUME NEW answer \in {"ok", "plain", "failure", "panic"}, Execute(answer)
      PROVE  ConsumerInv'
    BY <1>5 DEF Execute, EndsAs, Outcomes
<1>6. CASE Retry
    BY <1>6 DEF Retry
<1>7. CASE Ignore
    BY <1>7 DEF Ignore, EndsAs, Outcomes
<1>8. CASE Raise
    BY <1>8 DEF Raise
<1>9. ASSUME NEW applied \in BOOLEAN, Commit(applied) PROVE ConsumerInv'
    BY <1>9 DEF Commit
<1>10. CASE UNCHANGED consumerVars
    BY <1>10 DEF consumerVars
<1> QED BY <1>1, <1>2, <1>3, <1>4, <1>5, <1>6, <1>7, <1>8, <1>9, <1>10
        DEF ConsumerNext, Consume

(* Whatever crashes, a commit covers only messages that were handed out,   *)
(* and is never made at one that failed.                                   *)
THEOREM CommitsCoverDeliveries == ConsumerSpec => []CommitDiscipline
<1>1. ConsumerInv => CommitDiscipline
    BY ConsumerAssumption
    DEF ConsumerInv, ConsumerType, HandedOut, TakesOneMore, CommitDiscipline
<1> QED BY <1>1, ConsumerStarts, ConsumerKeeps, PTL DEF ConsumerSpec

-----------------------------------------------------------------------------
(* Restful.                                                                *)

Steps == {"new", "encoded", "attached", "answered", "handed", "done", "panic"}

RestfulType ==
    /\ function \in [HttpCalls -> {"none"} \union Functions]
    /\ options \in [HttpCalls -> Encoders \union Setters]
    /\ step \in [HttpCalls -> Steps]
    /\ contentType \in HttpCalls \union {NoBoundary}
    /\ header \in [HttpCalls -> HttpCalls \union {NoBoundary}]
    /\ met \in [HttpCalls -> BOOLEAN]
    /\ response \in [HttpCalls -> Responses]
    /\ open \subseteq HttpCalls

(* A form waits for its header while its boundary is the encoder's, unless *)
(* another one was encoded since.                                          *)
Bounded(c) ==
    /\ function[c] = "RequestV2" => ~ Multipart(c) /\ step[c] # "encoded"
    /\ function[c] # "RequestV2" => ~ HasForm(options[c])
    /\ step[c] = "encoded" /\ Multipart(c) => contentType = c \/ met[c]
    /\ step[c] \in {"attached", "answered"} /\ Multipart(c) => header[c] = c \/ met[c]
    /\ step[c] \in {"attached", "answered"} /\ HasForm(options[c]) => header[c] = c

RestfulInv ==
    /\ RestfulType
    /\ \A c \in HttpCalls :
           /\ c \in open => step[c] \in {"answered", "handed"}
           /\ Bounded(c)

(* A form of RequestV2 and a form of the shared encoder are different.     *)
LEMMA Forms ==
    /\ \A o \in Encoders : ~ HasForm(o)
    /\ \A o \in Setters : o # <<"multipart">>
    /\ <<>> # <<"multipart">> /\ ~ HasForm(<<>>)
<1>1. \A o \in Encoders : \A i \in DOMAIN o : o[i] \in {"json", "form", "multipart", "unknown"}
    BY DEF Encoders
<1>2. \A o \in Setters : o # <<"multipart">>
    BY DEF Setters
<1> QED BY <1>1, <1>2 DEF HasForm, Encoders

(* Nobody has called in the beginning.                                     *)
LEMMA RestfulStarts == RestfulInit => RestfulInv
BY Forms DEF RestfulInit, RestfulInv, RestfulType, Bounded, Multipart, Encoders, Steps,
   Responses, Functions

(* A step of call c, of which the others see at most a new form in the     *)
(* encoder.                                                                *)
LEMMA RestfulStep ==
    ASSUME RestfulInv, NEW c \in HttpCalls, RestfulType',
           c \in open' => step'[c] \in {"answered", "handed"},
           Bounded(c)',
           \A d \in HttpCalls \ {c} :
               /\ step'[d] = step[d]
               /\ function'[d] = function[d] /\ options'[d] = options[d]
               /\ header'[d] = header[d]
               /\ d \in open' => d \in open
               /\ met[d] => met'[d]
               /\ step[d] = "encoded" /\ contentType' # contentType => met'[d]
    PROVE  RestfulInv'
<1> SUFFICES ASSUME NEW d \in HttpCalls, d # c
             PROVE  /\ d \in open' => step'[d] \in {"answered", "handed"}
                    /\ Bounded(d)'
    BY DEF RestfulInv
<1>1. /\ d \in open => step[d] \in {"answered", "handed"}
      /\ Bounded(d)
    BY DEF RestfulInv
<1>2. Bounded(d)'
    BY <1>1 DEF Bounded, Multipart
<1> QED BY <1>1, <1>2

(* Every step of a call keeps the invariant.                               *)
LEMMA RestfulKeeps == RestfulInv /\ [RestfulNext]_restfulVars => RestfulInv'
<1> SUFFICES ASSUME RestfulInv, [RestfulNext]_restfulVars PROVE RestfulInv'
    OBVIOUS
<1>t. RestfulType /\ \A c \in HttpCalls : Bounded(c)
    BY DEF RestfulInv
<1>1. ASSUME NEW c \in HttpCalls, NEW f \in Functions \ {"RequestV2"}, NEW o \in Encoders,
             Encode(c, f, o)
      PROVE  RestfulInv'
  <2>a. met' \in [HttpCalls -> BOOLEAN]
    <3>1. CASE met' = met
      BY <3>1, <1>t DEF RestfulType
    <3>2. CASE met' = [d \in HttpCalls |-> met[d] \/ (step[d] = "encoded" /\ d # c)]
      BY <3>2, Zenon
    <3> QED BY <1>1, <3>1, <3>2 DEF Encode
  <2>1. RestfulType'
    BY <1>1, <1>t, <2>a DEF Encode, To, RestfulType, Steps, Functions
  <2>2. c \notin open'
    BY <1>1, <1>t DEF Encode, To, RestfulType, RestfulInv
  <2>3. Bounded(c)'
    BY <1>1, <1>t, Forms DEF Encode, To, RestfulType, Bounded, Multipart, Functions
  <2> QED BY <1>1, <1>t, <2>1, <2>2, <2>3, RestfulStep DEF Encode, To, RestfulType
<1>2. ASSUME NEW c \in HttpCalls, Attach(c) PROVE RestfulInv'
  <2>1. RestfulType' /\ Bounded(c)' /\ c \notin open'
    BY <1>2, <1>t DEF Attach, To, RestfulType, Steps, Bounded, Multipart, RestfulInv
  <2> QED BY <1>2, <1>t, <2>1, RestfulStep DEF Attach, To, RestfulType
<1>3. ASSUME NEW c \in HttpCalls, NEW o \in Setters, BuildV2(c, o) PROVE RestfulInv'
  <2>1. RestfulType'
    BY <1>3, <1>t DEF BuildV2, To, RestfulType, Steps, Functions
  <2>2. c \notin open'
    BY <1>3, <1>t DEF BuildV2, To, RestfulType, RestfulInv
  <2>3. Bounded(c)'
    BY <1>3, <1>t, Forms DEF BuildV2, To, RestfulType, Bounded, Multipart
  <2> QED BY <1>3, <1>t, <2>1, <2>2, <2>3, RestfulStep DEF BuildV2, To, RestfulType
<1>4. ASSUME NEW c \in HttpCalls, CallFails(c) PROVE RestfulInv'
  <2>1. RestfulType' /\ Bounded(c)' /\ c \notin open'
    BY <1>4, <1>t DEF CallFails, To, RestfulType, Steps, Bounded, Multipart, RestfulInv
  <2> QED BY <1>4, <1>t, <2>1, RestfulStep DEF CallFails, To, RestfulType
<1>5. ASSUME NEW c \in HttpCalls, NEW a \in Responses, Respond(c, a) PROVE RestfulInv'
  <2>1. RestfulType' /\ Bounded(c)' /\ step'[c] = "answered"
    BY <1>5, <1>t DEF Respond, To, RestfulType, Steps, Bounded, Multipart
  <2> QED BY <1>5, <1>t, <2>1, RestfulStep DEF Respond, To, RestfulType
<1>6. ASSUME NEW c \in HttpCalls, ReadAll(c) PROVE RestfulInv'
  <2>2. /\ step'[c] \in {"done", "panic"} /\ c \notin open' /\ open' \subseteq open
        /\ UNCHANGED <<function, options, contentType, header, met, response>>
        /\ step' \in [HttpCalls -> Steps]
        /\ \A d \in HttpCalls \ {c} : step'[d] = step[d]
    BY <1>6, <1>t DEF ReadAll, To, RestfulType, Steps
  <2>3. RestfulType' /\ Bounded(c)'
    BY <1>t, <2>2 DEF RestfulType, Bounded, Multipart
  <2> QED BY <1>t, <2>2, <2>3, RestfulStep
<1>7. ASSUME NEW c \in HttpCalls, HandOver(c) PROVE RestfulInv'
  <2>1. /\ step'[c] \in {"done", "handed"} /\ open' \subseteq open
        /\ c \in open' => step'[c] = "handed"
        /\ UNCHANGED <<function, options, contentType, header, met, response>>
        /\ step' \in [HttpCalls -> Steps]
        /\ \A d \in HttpCalls \ {c} : step'[d] = step[d]
    BY <1>7, <1>t DEF HandOver, To, RestfulType, Steps
  <2>2. RestfulType' /\ Bounded(c)'
    BY <1>t, <2>1 DEF RestfulType, Bounded, Multipart
  <2> QED BY <1>t, <2>1, <2>2, RestfulStep
<1>8. ASSUME NEW c \in HttpCalls, Close(c) PROVE RestfulInv'
  <2>1. RestfulType' /\ Bounded(c)' /\ c \notin open'
    BY <1>8, <1>t DEF Close, To, RestfulType, Steps, Bounded, Multipart
  <2> QED BY <1>8, <1>t, <2>1, RestfulStep DEF Close, To, RestfulType
<1>9. ASSUME NEW c \in HttpCalls, NEW f \in Functions, NEW o \in Encoders \union Setters,
             NEW ok \in BOOLEAN, Panics(c, f, o, ok),
             f = "RequestV2" => o \in Setters, f # "RequestV2" => o \in Encoders
      PROVE  RestfulInv'
  <2>1. RestfulType' /\ Bounded(c)' /\ c \notin open'
    BY <1>9, <1>t, Forms DEF Panics, To, RestfulType, Steps, Bounded, Multipart, RestfulInv
  <2> QED BY <1>9, <1>t, <2>1, RestfulStep DEF Panics, To, RestfulType
<1>10. CASE UNCHANGED restfulVars
    BY <1>10 DEF restfulVars, RestfulInv, RestfulType, Bounded, Multipart
<1>11. ASSUME NEW c \in HttpCalls, NEW f \in Functions \ {"RequestV2"}, NEW o \in Encoders,
              NEW ok \in BOOLEAN, Panics(c, f, o, ok)
       PROVE  RestfulInv'
    BY <1>9, <1>11
<1>12. ASSUME NEW c \in HttpCalls, NEW o \in Setters, NEW ok \in BOOLEAN,
              Panics(c, "RequestV2", o, ok)
       PROVE  RestfulInv'
    BY <1>9, <1>12 DEF Functions
<1> QED BY <1>1, <1>2, <1>3, <1>4, <1>5, <1>6, <1>7, <1>8, <1>10, <1>11, <1>12
        DEF RestfulNext

(* No response stays open, however a call ends, and a form goes out with   *)
(* its own boundary unless another was encoded meanwhile.                  *)
THEOREM CallersAreServed == RestfulSpec => []CallerIsServed
<1>1. RestfulInv => CallerIsServed
    BY DEF RestfulInv, Bounded, CallerIsServed
<1> QED BY <1>1, RestfulStarts, RestfulKeeps, PTL DEF RestfulSpec

-----------------------------------------------------------------------------
(* ApiErrors.                                                              *)

ErrorNames == Failures \union {"errorString"}

Stages == {"token", "wrap", "body", "handler", "wrap_handler", "answer", "panic", "done"}

ErrorsType ==
    /\ stage \in [Requests -> Stages]
    /\ errors \in [Requests -> Seq(ErrorNames)]
    /\ actual \in [Sentinels -> [type : Plain, data : Plain]]
    /\ wraps \in [Requests -> [error : Sentinels \union {"none"}, type : Plain \union {"none"}]]
    /\ \A r \in Requests : wraps[r].error # "none" => wraps[r].type \in Plain
    /\ answers \in [Requests -> Seq(Nat)]
    /\ refused \subseteq Requests

(* Another request has written the sentinel of refused tokens.             *)
TwoTokens(r) == \E q \in Requests \ {r} : wraps[q].error = "token_expired"

Refusal(e) == CASE e = "token_expired" -> 401 [] e = "decode" -> 400 [] OTHER -> 500

(* A request that has not been refused, or has been with error e, on its   *)
(* way to the answer.                                                      *)
Unrefused(r) ==
    /\ r \notin refused
    /\ stage[r] \in {"token", "wrap", "body"} =>
           r \notin served /\ errors[r] = <<>> /\ answers[r] = <<>>
    /\ stage[r] = "wrap" <=> wraps[r].error = "token_expired"
    /\ stage[r] = "wrap_handler" => wraps[r].error = "not_found"

RefusedWith(r, e) ==
    /\ r \in refused /\ r \notin served /\ errors[r] = <<e>>
    /\ wraps[r].error = "token_expired" <=> e = "token_expired"
    /\ \/ stage[r] = "answer" /\ answers[r] = <<>>
       \/ stage[r] = "panic" /\ answers[r] = <<>> /\ e = "token_expired" /\ TwoTokens(r)
       \/ stage[r] = "done" /\ answers[r] = <<Refusal(e)>>
       \/ stage[r] = "done" /\ answers[r] = <<500>> /\ e = "token_expired" /\ TwoTokens(r)

Course(r) == Unrefused(r) \/ \E e \in {"token_expired", "decode", "decrypt"} : RefusedWith(r, e)

(* A refused token that nobody else writes over is whole.                  *)
Whole(r) ==
    wraps[r].error = "token_expired" /\ ~ TwoTokens(r) =>
        /\ actual["token_expired"].type = wraps[r].type
        /\ stage[r] # "wrap" => actual["token_expired"].data = wraps[r].type

ErrorsInv == ErrorsType /\ \A r \in Requests : Course(r) /\ Whole(r)

LEMMA StatusIsNat == ASSUME NEW e PROVE StatusOf(e) \in Nat
BY DEF StatusOf

(* The status of a refusal, whatever the sentinels hold.                   *)
LEMMA RefusalStatus ==
    ASSUME ErrorsType, NEW e \in {"token_expired", "decode", "decrypt"}
    PROVE  StatusOf(e) = Refusal(e)
<1>1. actual["token_expired"].type \in Plain
    BY DEF ErrorsType, Sentinels
<1>2. CASE e = "token_expired"
  <2>1. e \in Failures /\ Actual(e) \in Plain
    BY <1>1, <1>2 DEF Actual, Failures, Sentinels
  <2>2. /\ ~ IsSameError(e, "data_invalid") /\ ~ IsSameError(e, "not_found")
        /\ IsSameError(e, "token_expired")
    BY <1>2, <2>1 DEF IsSameError, Plain
  <2>3. StatusOf(e) = 401
    BY <2>1, <2>2 DEF StatusOf
  <2>4. Refusal(e) = 401
    BY <1>2 DEF Refusal
  <2> QED BY <2>3, <2>4
<1>3. CASE e = "decode"
  <2>1. e \in Failures /\ Actual(e) = "data_invalid"
    BY <1>3 DEF Actual, Failures, Sentinels, Cause
  <2>2. /\ IsSameError(e, "data_invalid") /\ ~ IsSameError(e, "not_found")
        /\ ~ IsSameError(e, "token_expired")
    BY <1>3, <2>1 DEF IsSameError
  <2>3. StatusOf(e) = 400
    BY <2>1, <2>2 DEF StatusOf
  <2>4. Refusal(e) = 400
    BY <1>3 DEF Refusal
  <2> QED BY <2>3, <2>4
<1>4. CASE e = "decrypt"
  <2>1. e \in Failures /\ Actual(e) = "errorString"
    BY <1>4 DEF Actual, Failures, Sentinels, Cause
  <2>2. /\ ~ IsSameError(e, "data_invalid") /\ ~ IsSameError(e, "not_found")
        /\ ~ IsSameError(e, "token_expired")
    BY <1>4, <2>1 DEF IsSameError
  <2>3. StatusOf(e) = 500
    BY <2>1, <2>2 DEF StatusOf
  <2>4. Refusal(e) = 500
    BY <1>4 DEF Refusal
  <2> QED BY <2>3, <2>4
<1> QED BY <1>2, <1>3, <1>4

(* No request has been made in the beginning.                              *)
LEMMA ErrorsStart == ErrorsInit => ErrorsInv
BY DEF ErrorsInit, ErrorsInv, ErrorsType, Stages, Course, Unrefused, Whole, NoWrap, Plain

(* A step of request r, of which the others see at most the sentinels.     *)
LEMMA ErrorsStep ==
    ASSUME ErrorsInv, NEW r \in Requests, ErrorsType', Course(r)', Whole(r)',
           wraps[r].error = "token_expired" => wraps'[r].error = "token_expired",
           actual'["token_expired"] = actual["token_expired"]
               \/ wraps'[r].error = "token_expired",
           \A q \in Requests \ {r} :
               /\ stage'[q] = stage[q] /\ errors'[q] = errors[q] /\ wraps'[q] = wraps[q]
               /\ answers'[q] = answers[q]
               /\ (q \in refused' <=> q \in refused) /\ (q \in served' <=> q \in served)
    PROVE  ErrorsInv'
<1> SUFFICES ASSUME NEW q \in Requests, q # r PROVE Course(q)' /\ Whole(q)'
    BY DEF ErrorsInv
<1>1. Course(q) /\ Whole(q)
    BY DEF ErrorsInv
<1>2. TwoTokens(q) => TwoTokens(q)'
    BY DEF TwoTokens
<1>3. wraps'[r].error = "token_expired" => TwoTokens(q)'
    BY DEF TwoTokens
<1>4. Unrefused(q) => Unrefused(q)'
    BY DEF Unrefused
<1>5. ASSUME NEW e \in {"token_expired", "decode", "decrypt"}, RefusedWith(q, e)
      PROVE  RefusedWith(q, e)'
    BY <1>2, <1>5 DEF RefusedWith
<1>6. Course(q)'
    BY <1>1, <1>4, <1>5 DEF Course
<1>7. Whole(q)'
    BY <1>1, <1>2, <1>3 DEF Whole
<1> QED BY <1>6, <1>7

(* A request that goes on or ends, and writes no sentinel.                 *)
LEMMA QuietStep ==
    ASSUME ErrorsInv, NEW r \in Requests, NEW to \in Stages,
           stage' = [stage EXCEPT ![r] = to], to # "wrap", stage[r] # "wrap",
           errors' \in [Requests -> Seq(ErrorNames)],
           answers' \in [Requests -> Seq(Nat)],
           UNCHANGED <<actual, wraps>>, Course(r)',
           \A q \in Requests \ {r} :
               /\ errors'[q] = errors[q] /\ answers'[q] = answers[q]
               /\ (q \in refused' <=> q \in refused) /\ (q \in served' <=> q \in served),
           refused' \subseteq Requests
    PROVE  ErrorsInv'
<1>1. ErrorsType /\ Whole(r)
    BY DEF ErrorsInv
<1>2. ErrorsType' /\ \A q \in Requests \ {r} : stage'[q] = stage[q]
    BY <1>1 DEF ErrorsType
<1>3. Whole(r)'
    BY <1>1 DEF Whole, TwoTokens
<1> QED BY <1>2, <1>3, ErrorsStep

(* The first word of a Wrap.                                               *)
LEMMA WrapTypeKeeps ==
    ASSUME ErrorsInv, NEW r \in Requests,
           \/ WrapType(r, "token", "wrap", "token_expired")
           \/ WrapType(r, "handler", "wrap_handler", "not_found")
    PROVE  ErrorsInv'
<1>1. ErrorsType /\ Course(r) /\ stage[r] \in {"token", "handler"}
    BY DEF ErrorsInv, WrapType, Enter
<1>2. Unrefused(r)
    BY <1>1 DEF Course, RefusedWith
<1>3. CASE WrapType(r, "token", "wrap", "token_expired")
  <2>1. PICK t \in Plain :
            /\ actual' = [actual EXCEPT !["token_expired"].type = t]
            /\ wraps' = [wraps EXCEPT ![r] = [error |-> "token_expired", type |-> t]]
    BY <1>3 DEF WrapType
  <2>2. /\ stage' = [stage EXCEPT ![r] = "wrap"] /\ stage[r] = "token"
        /\ UNCHANGED <<errors, refused, served, answers>>
    BY <1>3 DEF WrapType, Enter
  <2>3. ErrorsType'
    BY <1>1, <2>1, <2>2 DEF ErrorsType, Stages, Sentinels
  <2>4. Course(r)' /\ wraps'[r].error = "token_expired" /\ stage'[r] = "wrap"
    BY <1>1, <1>2, <2>1, <2>2 DEF ErrorsType, Course, Unrefused
  <2>5. Whole(r)'
    BY <1>1, <2>1, <2>4 DEF ErrorsType, Whole, Sentinels
  <2> QED BY <1>1, <2>1, <2>2, <2>3, <2>4, <2>5, ErrorsStep DEF ErrorsType
<1>4. CASE WrapType(r, "handler", "wrap_handler", "not_found")
  <2>1. PICK t \in Plain :
            /\ actual' = [actual EXCEPT !["not_found"].type = t]
            /\ wraps' = [wraps EXCEPT ![r] = [error |-> "not_found", type |-> t]]
    BY <1>4 DEF WrapType
  <2>2. /\ stage' = [stage EXCEPT ![r] = "wrap_handler"] /\ stage[r] = "handler"
        /\ UNCHANGED <<errors, refused, served, answers>>
    BY <1>4 DEF WrapType, Enter
  <2>3. ErrorsType'
    BY <1>1, <2>1, <2>2 DEF ErrorsType, Stages, Sentinels
  <2>4. Course(r)' /\ wraps'[r].error = "not_found"
    BY <1>1, <1>2, <2>1, <2>2 DEF ErrorsType, Course, Unrefused
  <2>5. Whole(r)' /\ wraps[r].error # "token_expired"
    BY <1>2, <2>2, <2>4 DEF Whole, Unrefused
  <2>6. actual'["token_expired"] = actual["token_expired"]
    BY <1>1, <2>1 DEF ErrorsType, Sentinels
  <2> QED BY <1>1, <2>1, <2>2, <2>3, <2>4, <2>5, <2>6, ErrorsStep DEF ErrorsType
<1> QED BY <1>3, <1>4

(* The second word, by a middleware that refuses or by a handler.          *)
LEMMA WrapDataKeeps ==
    ASSUME ErrorsInv, NEW r \in Requests,
           \/ Refuse(r, "wrap", "token_expired") /\ WrapData(r)
           \/ HandlerWraps(r)
    PROVE  ErrorsInv'
<1>1. ErrorsType /\ Course(r) /\ Whole(r) /\ stage[r] \in {"wrap", "wrap_handler"}
    BY DEF ErrorsInv, Refuse, HandlerWraps, Enter
<1>2. Unrefused(r)
    BY <1>1 DEF Course, RefusedWith
<1>3. wraps[r].error # "none" /\ wraps[r].type \in Plain
    BY <1>1, <1>2 DEF Unrefused, ErrorsType
<1>4. CASE Refuse(r, "wrap", "token_expired") /\ WrapData(r)
  <2>1. /\ stage' = [stage EXCEPT ![r] = "answer"] /\ stage[r] = "wrap"
        /\ errors' = [errors EXCEPT ![r] = Append(@, "token_expired")]
        /\ refused' = refused \union {r}
        /\ UNCHANGED <<wraps, served, answers>>
    BY <1>4 DEF Refuse, Enter, AddError
  <2>2. wraps[r].error = "token_expired"
    BY <1>2, <2>1 DEF Unrefused
  <2>3. actual' = [actual EXCEPT !["token_expired"].data = wraps[r].type]
    BY <1>4, <2>2 DEF WrapData
  <2>4. errors[r] = <<>> /\ answers[r] = <<>> /\ r \notin served
    BY <1>2, <2>1 DEF Unrefused
  <2>5. errors'[r] = <<"token_expired">>
    BY <1>1, <2>1, <2>4 DEF ErrorsType
  <2>6. RefusedWith(r, "token_expired")'
    BY <1>1, <2>1, <2>2, <2>4, <2>5 DEF RefusedWith, ErrorsType
  <2>7. Whole(r)'
    BY <1>1, <2>1, <2>2, <2>3 DEF Whole, ErrorsType, TwoTokens, Sentinels
  <2>8. actual' \in [Sentinels -> [type : Plain, data : Plain]]
    BY <1>1, <1>3, <2>3 DEF ErrorsType
  <2>9. errors' \in [Requests -> Seq(ErrorNames)]
    BY <1>1, <2>1, <2>4 DEF ErrorsType, ErrorNames, Failures, Sentinels
  <2>10. ErrorsType'
    BY <1>1, <2>1, <2>8, <2>9 DEF ErrorsType, Stages
  <2>11. Course(r)'
    BY <2>6 DEF Course
  <2> QED BY <1>1, <2>1, <2>2, <2>7, <2>10, <2>11, ErrorsStep DEF ErrorsType
<1>5. CASE HandlerWraps(r)
  <2>1. /\ stage' = [stage EXCEPT ![r] = "handler"] /\ stage[r] = "wrap_handler"
        /\ errors' = [errors EXCEPT ![r] = Append(@, "not_found")]
        /\ UNCHANGED <<wraps, refused, served, answers>>
    BY <1>5 DEF HandlerWraps, Enter, AddError
  <2>2. wraps[r].error = "not_found"
    BY <1>2, <2>1 DEF Unrefused
  <2>3. actual' = [actual EXCEPT !["not_found"].data = wraps[r].type]
    BY <1>5, <2>2 DEF HandlerWraps, WrapData
  <2>4. actual' \in [Sentinels -> [type : Plain, data : Plain]]
        /\ actual'["token_expired"] = actual["token_expired"]
    BY <1>1, <1>3, <2>3 DEF ErrorsType, Sentinels
  <2>5. "not_found" \in ErrorNames
    BY DEF ErrorNames, Failures, Sentinels
  <2>6. Append(errors[r], "not_found") \in Seq(ErrorNames)
    BY <1>1, <2>5 DEF ErrorsType
  <2>7. ErrorsType'
    BY <1>1, <2>1, <2>4, <2>6 DEF ErrorsType, Stages
  <2>8. Course(r)'
    BY <1>1, <1>2, <2>1, <2>2 DEF Course, Unrefused, ErrorsType
  <2>9. Whole(r)'
    BY <2>1, <2>2 DEF Whole
  <2> QED BY <1>1, <2>1, <2>2, <2>4, <2>7, <2>8, <2>9, ErrorsStep DEF ErrorsType
<1> QED BY <1>4, <1>5

(* A body that is refused.                                                 *)
LEMMA RefuseBodyKeeps ==
    ASSUME ErrorsInv, NEW r \in Requests, NEW e \in {"decode", "decrypt"},
           Refuse(r, "body", e), UNCHANGED actual
    PROVE  ErrorsInv'
<1>1. /\ stage' = [stage EXCEPT ![r] = "answer"] /\ stage[r] = "body"
      /\ errors' = [errors EXCEPT ![r] = Append(@, e)]
      /\ refused' = refused \union {r}
      /\ UNCHANGED <<wraps, served, answers>>
    BY DEF Refuse, Enter, AddError
<1>2. ErrorsType /\ Course(r)
    BY DEF ErrorsInv
<1>3. Unrefused(r)
    BY <1>1, <1>2 DEF Course, RefusedWith
<1>4. errors[r] = <<>> /\ answers[r] = <<>> /\ r \notin served
      /\ wraps[r].error # "token_expired"
    BY <1>1, <1>3 DEF Unrefused
<1>5. errors' = [errors EXCEPT ![r] = <<e>>]
    BY <1>1, <1>4
<1>6. errors' \in [Requests -> Seq(ErrorNames)] /\ errors'[r] = <<e>>
    BY <1>2, <1>5 DEF ErrorsType, ErrorNames, Failures, Cause
<1>7. RefusedWith(r, e)'
    BY <1>1, <1>2, <1>4, <1>6 DEF RefusedWith, ErrorsType
<1>8. Course(r)'
    BY <1>7 DEF Course
<1>9. \A q \in Requests \ {r} : errors'[q] = errors[q]
    BY <1>2, <1>5 DEF ErrorsType
<1>10. "answer" \in Stages /\ answers' \in [Requests -> Seq(Nat)] /\ refused' \subseteq Requests
    BY <1>1, <1>2 DEF Stages, ErrorsType
<1> QED BY <1>1, <1>6, <1>8, <1>9, <1>10, QuietStep

(* What the handler does, but for a Wrap.                                  *)
LEMMA HandlerKeeps ==
    ASSUME ErrorsInv, NEW r \in Requests,
           stage[r] \in {"token", "body", "handler"}, NEW to \in Stages,
           to = "body" => stage[r] = "token",
           to \notin {"token", "wrap", "wrap_handler"},
           stage' = [stage EXCEPT ![r] = to], UNCHANGED <<actual, wraps, refused>>,
           errors' \in [Requests -> Seq(ErrorNames)],
           answers' \in [Requests -> Seq(Nat)],
           to = "body" => UNCHANGED <<errors, answers, served>>,
           \A q \in Requests \ {r} :
               /\ errors'[q] = errors[q] /\ answers'[q] = answers[q]
               /\ (q \in served' <=> q \in served)
    PROVE  ErrorsInv'
<1>1. ErrorsType /\ Course(r)
    BY DEF ErrorsInv
<1>2. Unrefused(r)
    BY <1>1 DEF Course, RefusedWith
<1>3. stage'[r] = to
    BY <1>1 DEF ErrorsType
<1>4. Unrefused(r)'
    BY <1>2, <1>3 DEF Unrefused
<1>5. refused' \subseteq Requests /\ Course(r)'
    BY <1>1, <1>4 DEF ErrorsType, Course
<1> QED BY <1>5, QuietStep

(* The answer to the first error.                                          *)
LEMMA WrapErrorKeeps ==
    ASSUME ErrorsInv, NEW r \in Requests, WrapError(r)
    PROVE  ErrorsInv'
<1>1. ErrorsType /\ Course(r) /\ Whole(r) /\ stage[r] = "answer"
    BY DEF ErrorsInv, WrapError, Pass, Enter
<1>2. UNCHANGED <<errors, actual, wraps, refused, served>>
    BY DEF WrapError, Pass
<1>3. PICK to \in {"answer", "panic", "done"} :
          /\ stage' = [stage EXCEPT ![r] = to]
          /\ \/ to = "done" /\ errors[r] = <<>> /\ UNCHANGED answers
             \/ to = "done" /\ errors[r] # <<>> /\ Write(r, StatusOf(Head(errors[r])))
             \/ to = "panic" /\ errors[r] # <<>> /\ Torn(Head(errors[r])) /\ UNCHANGED answers
             \/ to = "answer" /\ UNCHANGED answers
    BY DEF WrapError, Pass, Enter
<1>4. StatusOf(Head(errors[r])) \in Nat
    BY StatusIsNat
<1>5. answers' \in [Requests -> Seq(Nat)]
  <2>1. Append(answers[r], StatusOf(Head(errors[r]))) \in Seq(Nat)
    BY <1>1, <1>4 DEF ErrorsType
  <2> QED BY <1>1, <1>3, <2>1 DEF ErrorsType, Write
<1>6. \A q \in Requests \ {r} : answers'[q] = answers[q]
    BY <1>1, <1>3 DEF ErrorsType, Write
<1>7. stage'[r] = to
    BY <1>1, <1>3 DEF ErrorsType
<1>8. ASSUME Unrefused(r) PROVE Unrefused(r)'
    BY <1>1, <1>2, <1>7, <1>8 DEF Unrefused
<1>9. ASSUME NEW e \in {"token_expired", "decode", "decrypt"}, RefusedWith(r, e)
      PROVE  RefusedWith(r, e)'
  <2>1. errors[r] = <<e>> /\ errors[r] # <<>> /\ Head(errors[r]) = e /\ answers[r] = <<>>
    BY <1>1, <1>9 DEF RefusedWith
  <2>2. StatusOf(e) = Refusal(e)
    BY RefusalStatus, <1>1
  <2>3. Torn(e) => e = "token_expired" /\ TwoTokens(r)
    BY <1>1, <1>9 DEF Torn, RefusedWith, Whole, Sentinels
  <2>4. TwoTokens(r)' <=> TwoTokens(r)
    BY <1>2 DEF TwoTokens
  <2>5. CASE Write(r, StatusOf(Head(errors[r]))) /\ to = "done"
    <3>1. answers'[r] = <<Refusal(e)>>
      BY <1>1, <2>1, <2>2, <2>5 DEF Write, ErrorsType
    <3> QED BY <1>2, <1>7, <1>9, <2>5, <3>1 DEF RefusedWith
  <2>6. CASE UNCHANGED answers /\ to \in {"panic", "answer"}
    BY <1>2, <1>3, <1>7, <1>9, <2>1, <2>3, <2>4, <2>6 DEF RefusedWith
  <2> QED BY <1>3, <2>1, <2>5, <2>6
<1>10. Course(r)'
    BY <1>1, <1>8, <1>9 DEF Course
<1>11. to \in Stages /\ errors' \in [Requests -> Seq(ErrorNames)] /\ refused' \subseteq Requests
    BY <1>1, <1>2 DEF Stages, ErrorsType
<1> QED BY <1>1, <1>2, <1>3, <1>5, <1>6, <1>10, <1>11, QuietStep

(* The answer to a panic.                                                  *)
LEMMA RecoverPanicKeeps ==
    ASSUME ErrorsInv, NEW r \in Requests, RecoverPanic(r)
    PROVE  ErrorsInv'
<1>1. /\ stage[r] = "panic" /\ stage' = [stage EXCEPT ![r] = "done"]
      /\ answers' = [answers EXCEPT ![r] = Append(@, 500)]
      /\ UNCHANGED <<errors, actual, wraps, refused, served>>
    BY DEF RecoverPanic, Enter, Write
<1>2. ErrorsType /\ Course(r)
    BY DEF ErrorsInv
<1>3. answers' \in [Requests -> Seq(Nat)] /\ stage'[r] = "done"
      /\ answers'[r] = Append(answers[r], 500)
      /\ \A q \in Requests \ {r} : answers'[q] = answers[q]
    BY <1>1, <1>2 DEF ErrorsType
<1>4. Unrefused(r) => Unrefused(r)'
    BY <1>1, <1>3 DEF Unrefused
<1>5. TwoTokens(r)' <=> TwoTokens(r)
    BY <1>1 DEF TwoTokens
<1>6. ASSUME NEW e \in {"token_expired", "decode", "decrypt"}, RefusedWith(r, e)
      PROVE  RefusedWith(r, e)'
  <2>1. answers[r] = <<>> /\ e = "token_expired" /\ TwoTokens(r)
    BY <1>1, <1>6 DEF RefusedWith
  <2>2. answers'[r] = <<500>>
    BY <1>3, <2>1
  <2> QED BY <1>1, <1>3, <1>5, <1>6, <2>1, <2>2 DEF RefusedWith
<1>7. Course(r)'
    BY <1>2, <1>4, <1>6 DEF Course
<1>8. "done" \in Stages /\ errors' \in [Requests -> Seq(ErrorNames)] /\ refused' \subseteq Requests
    BY <1>1, <1>2 DEF Stages, ErrorsType
<1> QED BY <1>1, <1>3, <1>7, <1>8, QuietStep

(* Every step of a request keeps the invariant.                            *)
LEMMA ErrorsKeep == ErrorsInv /\ [ErrorsNext]_errorVars => ErrorsInv'
<1> SUFFICES ASSUME ErrorsInv, [ErrorsNext]_errorVars PROVE ErrorsInv'
    OBVIOUS
<1>t. ErrorsType
    BY DEF ErrorsInv
<1>1. ASSUME NEW r \in Requests, VerifyToken(r) PROVE ErrorsInv'
  <2>1. CASE Pass(r, "token", "body")
    BY <1>t, <2>1, HandlerKeeps DEF Pass, Enter, ErrorsType, Stages
  <2> QED BY <1>1, <2>1, WrapTypeKeeps, WrapDataKeeps DEF VerifyToken
<1>2. ASSUME NEW r \in Requests, VerifyRequest(r) PROVE ErrorsInv'
  <2>1. CASE /\ Enter(r, "body", "handler") /\ served' = served \union {r}
             /\ UNCHANGED <<errors, actual, wraps, refused, answers, crashed>>
    BY <1>t, <2>1, HandlerKeeps DEF Enter, ErrorsType, Stages
  <2> QED BY <1>2, <2>1, RefuseBodyKeeps DEF VerifyRequest
<1>3. ASSUME NEW r \in Requests, HandlerWrites(r) PROVE ErrorsInv'
  <2>1. PICK code \in {200, 400} : answers' = [answers EXCEPT ![r] = Append(@, code)]
    BY <1>3 DEF HandlerWrites, Write
  <2>2. answers' \in [Requests -> Seq(Nat)]
    BY <1>t, <2>1 DEF ErrorsType
  <2>3. /\ stage[r] = "handler" /\ stage' = [stage EXCEPT ![r] = "handler"]
        /\ UNCHANGED <<errors, actual, wraps, refused, served>>
    BY <1>3 DEF HandlerWrites, Enter
  <2>4. /\ errors' \in [Requests -> Seq(ErrorNames)] /\ "handler" \in Stages
        /\ \A q \in Requests \ {r} : errors'[q] = errors[q] /\ answers'[q] = answers[q]
    BY <1>t, <2>1, <2>3 DEF ErrorsType, Stages
  <2>5. \A q \in Requests \ {r} :
            /\ errors'[q] = errors[q] /\ answers'[q] = answers[q]
            /\ (q \in served' <=> q \in served)
    BY <2>3, <2>4
  <2>6. "handler" \notin {"token", "wrap", "wrap_handler"} /\ "handler" # "body"
    OBVIOUS
  <2> QED BY <2>2, <2>3, <2>4, <2>5, <2>6, HandlerKeeps, Zenon
<1>4. ASSUME NEW r \in Requests, HandlerFails(r) PROVE ErrorsInv'
  <2>1. CASE WrapType(r, "handler", "wrap_handler", "not_found")
    BY <2>1, WrapTypeKeeps
  <2>2. CASE /\ Enter(r, "handler", "handler")
             /\ \E e \in {"data_invalid", "errorString"} : AddError(r, e)
             /\ UNCHANGED <<actual, wraps, refused, served, answers, crashed>>
    <3>1. PICK e \in {"data_invalid", "errorString"} : errors' = [errors EXCEPT ![r] = Append(@, e)]
      BY <2>2 DEF AddError
    <3>2. e \in ErrorNames
      BY DEF ErrorNames, Failures, Cause
    <3>3. errors' \in [Requests -> Seq(ErrorNames)]
      BY <1>t, <3>1, <3>2 DEF ErrorsType
    <3>4. /\ stage[r] = "handler" /\ stage' = [stage EXCEPT ![r] = "handler"]
          /\ UNCHANGED <<actual, wraps, refused, served, answers>>
      BY <2>2 DEF Enter
    <3>5. /\ answers' \in [Requests -> Seq(Nat)] /\ "handler" \in Stages
          /\ \A q \in Requests \ {r} : errors'[q] = errors[q] /\ answers'[q] = answers[q]
      BY <1>t, <3>1, <3>4 DEF ErrorsType, Stages
    <3> QED BY <3>3, <3>4, <3>5, HandlerKeeps
  <2> QED BY <1>4, <2>1, <2>2 DEF HandlerFails
<1>5. ASSUME NEW r \in Requests, HandlerEnds(r) PROVE ErrorsInv'
  <2>1. PICK to \in {"answer", "panic"} : stage' = [stage EXCEPT ![r] = to]
    BY <1>5 DEF HandlerEnds, Pass, Enter
  <2>2. /\ stage[r] = "handler"
        /\ UNCHANGED <<errors, actual, wraps, refused, served, answers>>
    BY <1>5 DEF HandlerEnds, Pass, Enter
  <2>3. /\ errors' \in [Requests -> Seq(ErrorNames)] /\ answers' \in [Requests -> Seq(Nat)]
        /\ to \in Stages
    BY <1>t, <2>2 DEF ErrorsType, Stages
  <2> QED BY <2>1, <2>2, <2>3, HandlerKeeps
<1>6. ASSUME NEW r \in Requests, HandlerWraps(r) \/ WrapError(r) \/ RecoverPanic(r)
      PROVE  ErrorsInv'
    BY <1>6, WrapDataKeeps, WrapErrorKeeps, RecoverPanicKeeps
<1>7. CASE UNCHANGED errorVars
    BY <1>7 DEF errorVars, ErrorsInv, ErrorsType, Course, Unrefused, RefusedWith, Whole, TwoTokens
<1> QED BY <1>1, <1>2, <1>3, <1>4, <1>5, <1>6, <1>7 DEF ErrorsNext

(* For any number of concurrent requests: who is refused by a middleware   *)
(* is not served, and gets the answer of the refusal and no other, unless  *)
(* two tokens are refused at once.                                         *)
THEOREM RefusalsAreFinal == ErrorsSpec => []RefusedIsNotServed
<1>1. ErrorsInv => RefusedIsNotServed
  <2> SUFFICES ASSUME ErrorsInv, NEW r \in Requests, r \in refused,
                      NEW e \in {"token_expired", "decode", "decrypt"}, RefusedWith(r, e)
               PROVE  /\ r \notin served
                      /\ stage[r] = "done" =>
                           \/ /\ Len(answers[r]) = 1
                              /\ Head(answers[r]) = CASE Head(errors[r]) = "token_expired" -> 401
                                                      [] Head(errors[r]) = "decode" -> 400
                                                      [] OTHER -> 500
                           \/ /\ answers[r] = <<500>> /\ Head(errors[r]) = "token_expired"
                              /\ \E q \in Requests \ {r} : wraps[q].error = "token_expired"
    BY DEF ErrorsInv, ErrorsType, Course, Unrefused, RefusedIsNotServed
  <2>1. Head(errors[r]) = e
    BY DEF RefusedWith
  <2>2. ASSUME answers[r] = <<Refusal(e)>>
        PROVE  Len(answers[r]) = 1 /\ Head(answers[r]) = Refusal(e)
    BY <2>2
  <2> QED BY <2>1, <2>2 DEF RefusedWith, Refusal, TwoTokens
<1> QED BY <1>1, ErrorsStart, ErrorsKeep, PTL DEF ErrorsSpec

-----------------------------------------------------------------------------
(* SetOrder.                                                               *)

(* The map, whose positions are those of the keys until one is removed.    *)
SetOrderType ==
    /\ size \in Nat
    /\ IsFiniteSet(DOMAIN entries) /\ DOMAIN entries \subseteq Nat
    /\ entries = [i \in DOMAIN entries |-> entries[i]]
    /\ added \in Seq(Keys)
    /\ ~ made => DOMAIN entries = {}

InPlace ==
    ~ removed =>
        /\ DOMAIN entries = 0..Len(added) - 1
        /\ \A i \in 1..Len(added) :
               /\ added[i] \in DOMAIN latest
               /\ entries[i - 1] = [key |-> added[i], value |-> latest[added[i]]]

SetOrderInv ==
    /\ SetOrderType /\ InPlace
    /\ \A i, j \in DOMAIN entries : entries[i].key = entries[j].key => i = j
    /\ size > 0 /\ ~ replaced => Length <= size + 1

(* The new map is empty.                                                   *)
LEMMA SetOrderStarts == SetOrderInit => SetOrderInv
<1> SUFFICES ASSUME SetOrderInit PROVE SetOrderInv
    OBVIOUS
<1>1. DOMAIN entries = {} /\ IsFiniteSet(DOMAIN entries) /\ Length = 0
    BY FS_EmptySet DEF SetOrderInit, Length
<1>2. SetOrderType
    BY <1>1 DEF SetOrderInit, SetOrderType
<1>3. InPlace
    BY <1>1 DEF SetOrderInit, InPlace
<1> QED BY <1>1, <1>2, <1>3 DEF SetOrderInv, SetOrderInit

(* Writing an entry at a position.                                         *)
LEMMA PutAtPuts ==
    ASSUME SetOrderType, NEW p \in Nat, NEW k, NEW v, PutAt(p, k, v)
    PROVE  /\ DOMAIN entries' = DOMAIN entries \union {p}
           /\ entries'[p] = [key |-> k, value |-> v]
           /\ \A i \in DOMAIN entries : i # p => entries'[i] = entries[i]
           /\ entries' = [i \in DOMAIN entries' |-> entries'[i]]
           /\ IsFiniteSet(DOMAIN entries') /\ DOMAIN entries' \subseteq Nat
           /\ Length' \in Nat /\ Length \in Nat
           /\ p \in DOMAIN entries => Length' = Length
           /\ Length' <= Length + 1
<1>1. /\ DOMAIN entries' = DOMAIN entries \union {p}
      /\ entries'[p] = [key |-> k, value |-> v]
      /\ \A i \in DOMAIN entries : i # p => entries'[i] = entries[i]
      /\ entries' = [i \in DOMAIN entries' |-> entries'[i]]
    BY DEF PutAt
<1>2. /\ IsFiniteSet(DOMAIN entries \union {p})
      /\ Cardinality(DOMAIN entries \union {p}) =
             IF p \in DOMAIN entries THEN Cardinality(DOMAIN entries)
                                     ELSE Cardinality(DOMAIN entries) + 1
    BY FS_AddElement DEF SetOrderType
<1>3. Length \in Nat
    BY FS_CardinalityType DEF SetOrderType, Length
<1>4. Length' = IF p \in DOMAIN entries THEN Length ELSE Length + 1
    BY <1>1, <1>2 DEF Length
<1> QED BY <1>1, <1>2, <1>3, <1>4 DEF SetOrderType

(* Until something is removed there is one entry for each key.             *)
LEMMA LengthIsAdded == ASSUME SetOrderInv, ~ removed PROVE Length = Len(added)
<1>1. DOMAIN entries = 0..Len(added) - 1 /\ Len(added) \in Nat
    BY DEF SetOrderInv, InPlace, SetOrderType
<1>2. Cardinality(0..Len(added) - 1) = Len(added)
    BY <1>1, FS_Interval
<1> QED BY <1>1, <1>2 DEF Length

(* A key that is not there yet.                                            *)
LEMMA AppendKeeps ==
    ASSUME SetOrderInv, NEW k \in Keys, NEW v, ~ Contains(k),
           made, AppendEntry(k, v), Kept(k, v), UNCHANGED <<size, removed, made>>,
           size > 0 /\ ~ replaced' => ~ replaced /\ Length <= size
    PROVE  SetOrderInv'
<1> USE DEF SetOrderInv
<1>1. /\ PutAt(Length, k, v) /\ Length \in Nat
      /\ added' = (IF removed THEN added ELSE Append(added, k))
    BY FS_CardinalityType DEF AppendEntry, SetOrderType, Length
<1>2. /\ DOMAIN entries' = DOMAIN entries \union {Length}
      /\ entries'[Length] = [key |-> k, value |-> v]
      /\ \A i \in DOMAIN entries : i # Length => entries'[i] = entries[i]
      /\ entries' = [i \in DOMAIN entries' |-> entries'[i]]
      /\ IsFiniteSet(DOMAIN entries') /\ DOMAIN entries' \subseteq Nat
      /\ Length' \in Nat /\ Length' <= Length + 1
  <2>1. PICK p \in Nat : p = Length
    BY <1>1
  <2>2. PutAt(p, k, v) /\ SetOrderType
    BY <1>1, <2>1
  <2> HIDE DEF SetOrderInv
  <2> QED BY <2>1, <2>2, PutAtPuts
<1>3. added' \in Seq(Keys)
    BY <1>1 DEF SetOrderType
<1>4. SetOrderType'
    BY <1>2, <1>3 DEF SetOrderType
<1>5. \A i, j \in DOMAIN entries' : entries'[i].key = entries'[j].key => i = j
    BY <1>2 DEF Contains
<1>6. size > 0 /\ ~ replaced' => Length' <= size + 1
    BY <1>1, <1>2 DEF SetOrderType
<1>7. ASSUME ~ removed PROVE InPlace'
  <2> DEFINE n == Len(added)
  <2>1. n \in Nat /\ Length = n /\ DOMAIN entries = 0..n - 1
    BY <1>7, LengthIsAdded DEF InPlace, SetOrderType
  <2>2. /\ added' = Append(added, k) /\ Len(added') = n + 1 /\ added'[n + 1] = k
        /\ \A i \in 1..n : added'[i] = added[i]
    BY <1>1, <1>7 DEF SetOrderType
  <2>3. /\ DOMAIN latest' = DOMAIN latest \union {k} /\ latest'[k] = v
        /\ \A j \in DOMAIN latest : j # k => latest'[j] = latest[j]
    BY <1>7 DEF Kept
  <2>4. DOMAIN entries' = 0..Len(added') - 1
    BY <1>2, <2>1, <2>2
  <2>5. ASSUME NEW i \in 1..n
        PROVE  /\ i - 1 \in DOMAIN entries /\ i - 1 # Length
               /\ entries[i - 1] = [key |-> added[i], value |-> latest[added[i]]]
               /\ added[i] \in DOMAIN latest /\ added[i] # k
    <3>1. i - 1 \in DOMAIN entries /\ i - 1 # Length
      BY <2>1
    <3>2. /\ entries[i - 1] = [key |-> added[i], value |-> latest[added[i]]]
          /\ added[i] \in DOMAIN latest
      BY <1>7 DEF InPlace
    <3>3. entries[i - 1].key # k
      BY <3>1 DEF Contains
    <3> QED BY <3>1, <3>2, <3>3
  <2>6. ASSUME NEW i \in 1..n
        PROVE  /\ added'[i] \in DOMAIN latest'
               /\ entries'[i - 1] = [key |-> added'[i], value |-> latest'[added'[i]]]
    <3>1. entries'[i - 1] = entries[i - 1]
      BY <1>2, <2>5
    <3>2. added'[i] = added[i] /\ latest'[added[i]] = latest[added[i]]
      BY <2>2, <2>3, <2>5
    <3>3. added'[i] \in DOMAIN latest'
      BY <2>3, <2>5, <3>2
    <3> QED BY <2>5, <3>1, <3>2, <3>3
  <2>7. /\ added'[n + 1] \in DOMAIN latest'
        /\ entries'[n] = [key |-> added'[n + 1], value |-> latest'[added'[n + 1]]]
    BY <1>2, <2>1, <2>2, <2>3
  <2>8. \A i \in 1..n + 1 : i \in 1..n \/ (i = n + 1 /\ i - 1 = n)
    BY <2>1
  <2> HIDE DEF n
  <2> QED BY <2>2, <2>4, <2>6, <2>7, <2>8 DEF InPlace
<1>8. InPlace'
    BY <1>7 DEF InPlace
<1> QED BY <1>4, <1>5, <1>6, <1>8

(* A key that is replaced stays where it is.                               *)
LEMMA ReplaceKeeps ==
    ASSUME SetOrderInv, NEW k \in Keys, NEW v, Contains(k),
           PutAt(PositionOf(k), k, v), Kept(k, v),
           UNCHANGED <<added, size, removed, made>>, replaced' = TRUE
    PROVE  SetOrderInv'
<1> USE DEF SetOrderInv
<1> DEFINE p == PositionOf(k)
<1>1. p \in DOMAIN entries /\ entries[p].key = k /\ p \in Nat
    BY DEF Contains, PositionOf, SetOrderType
<1>a. PutAt(p, k, v)
    OBVIOUS
<1> HIDE DEF p
<1>2. /\ DOMAIN entries' = DOMAIN entries
      /\ entries'[p] = [key |-> k, value |-> v]
      /\ \A i \in DOMAIN entries : i # p => entries'[i] = entries[i]
      /\ entries' = [i \in DOMAIN entries' |-> entries'[i]]
    BY <1>1, <1>a, PutAtPuts
<1>3. SetOrderType'
    BY <1>2 DEF SetOrderType, Kept
<1>4. \A i, j \in DOMAIN entries' : entries'[i].key = entries'[j].key => i = j
    BY <1>1, <1>2
<1>5. ASSUME ~ removed PROVE InPlace'
  <2> DEFINE n == Len(added)
  <2>1. /\ DOMAIN latest' = DOMAIN latest \union {k} /\ latest'[k] = v
        /\ \A j \in DOMAIN latest : j # k => latest'[j] = latest[j]
    BY <1>5 DEF Kept
  <2>2. n \in Nat /\ DOMAIN entries = 0..n - 1
    BY <1>5 DEF InPlace, SetOrderType
  <2>3. ASSUME NEW i \in 1..n
        PROVE  /\ added[i] \in DOMAIN latest'
               /\ entries'[i - 1] = [key |-> added[i], value |-> latest'[added[i]]]
    <3>1. i - 1 \in DOMAIN entries
      BY <2>2
    <3>2. entries[i - 1] = [key |-> added[i], value |-> latest[added[i]]]
          /\ added[i] \in DOMAIN latest
      BY <1>5 DEF InPlace
    <3>3. CASE i - 1 = p
      BY <1>1, <1>2, <2>1, <3>2, <3>3
    <3>4. CASE i - 1 # p
      <4>1. added[i] # k
        BY <1>1, <3>1, <3>2, <3>4
      <4> QED BY <1>2, <2>1, <3>1, <3>2, <3>4, <4>1
    <3> QED BY <3>3, <3>4
  <2> QED BY <1>2, <1>5, <2>2, <2>3 DEF InPlace
<1>6. InPlace'
    BY <1>5 DEF InPlace
<1> QED BY <1>3, <1>4, <1>6

(* Removing a key leaves the other entries as they are.                    *)
LEMMA RemoveKeeps == ASSUME SetOrderInv, NEW k \in Keys, Remove(k) PROVE SetOrderInv'
<1> USE DEF SetOrderInv
<1> DEFINE p == PositionOf(k)
<1>1. /\ DOMAIN entries' = DOMAIN entries \ {p}
      /\ \A i \in DOMAIN entries' : entries'[i] = entries[i]
      /\ entries' = [i \in DOMAIN entries' |-> entries'[i]]
      /\ removed' = TRUE /\ added' = <<>> /\ latest' = <<>>
      /\ UNCHANGED <<size, made, replaced>>
    BY DEF Remove
<1> HIDE DEF p
<1>2. /\ IsFiniteSet(DOMAIN entries') /\ Length \in Nat /\ Length' \in Nat
      /\ Length' <= Length
    BY <1>1, FS_Subset, FS_CardinalityType DEF SetOrderType, Length
<1>3. SetOrderType'
    BY <1>1, <1>2 DEF SetOrderType
<1>4. size > 0 /\ ~ replaced' => Length' <= size + 1
    BY <1>1, <1>2 DEF SetOrderType
<1> QED BY <1>1, <1>3, <1>4 DEF InPlace

(* Every call keeps the invariant.                                         *)
LEMMA SetOrderKeeps == SetOrderInv /\ [SetOrderNext]_setOrderVars => SetOrderInv'
<1> SUFFICES ASSUME SetOrderInv, [SetOrderNext]_setOrderVars PROVE SetOrderInv'
    OBVIOUS
<1>1. CASE UNCHANGED setOrderVars
    BY <1>1 DEF setOrderVars, SetOrderInv, SetOrderType, InPlace, Length
<1>2. ASSUME NEW n \in Sizes, NewSetOrder(n) PROVE SetOrderInv'
  <2>1. /\ n \in Nat /\ DOMAIN entries = {} /\ size' = n
        /\ UNCHANGED <<entries, added, latest, removed, replaced>>
    BY <1>2, SetOrderAssumption DEF NewSetOrder, SetOrderInv, SetOrderType
  <2>2. Length' = 0
    BY <2>1, FS_EmptySet DEF Length
  <2> QED BY <2>1, <2>2 DEF SetOrderInv, SetOrderType, InPlace
<1>3. ASSUME NEW k \in Keys, NEW v \in Values, Add(k, v) PROVE SetOrderInv'
  <2>1. /\ ~ Contains(k) /\ AppendEntry(k, v) /\ Kept(k, v)
        /\ made /\ UNCHANGED <<size, removed, made, replaced>> /\ (size > 0 => ~ (Length > size))
    BY <1>3 DEF Add
  <2>2. size \in Nat /\ Length \in Nat
    BY FS_CardinalityType DEF SetOrderInv, SetOrderType, Length
  <2> QED BY <2>1, <2>2, AppendKeeps
<1>4. ASSUME NEW k \in Keys, NEW v \in Values, AddOrReplace(k, v) PROVE SetOrderInv'
  <2>1. made /\ Kept(k, v) /\ UNCHANGED <<size, removed, made>> /\ replaced' = TRUE
    BY <1>4 DEF AddOrReplace
  <2>2. CASE Contains(k)
    BY <1>4, <2>1, <2>2, ReplaceKeeps DEF AddOrReplace
  <2>3. CASE ~ Contains(k)
    BY <1>4, <2>1, <2>3, AppendKeeps DEF AddOrReplace
  <2> QED BY <2>2, <2>3
<1>5. ASSUME NEW k \in Keys, Remove(k) PROVE SetOrderInv'
    BY <1>5, RemoveKeeps
<1> QED BY <1>1, <1>2, <1>3, <1>4, <1>5 DEF SetOrderNext

(* Until a key is removed the list has every key once, in the order of the *)
(* first Set and with the value of the last; the size bound the map was    *)
(* made with is exceeded by one entry at most, unless a Set replaced.      *)
THEOREM ListIsInOrder == SetOrderSpec => []ListKeepsOrder
<1>1. SetOrderInv => ListKeepsOrder
  <2> SUFFICES ASSUME SetOrderInv PROVE ListKeepsOrder
    OBVIOUS
  <2>1. ASSUME ~ removed
        PROVE  AsList = [i \in DOMAIN added |-> [key |-> added[i], value |-> latest[added[i]]]]
    <3>1. /\ Length = Len(added) /\ DOMAIN added = 1..Len(added) /\ Len(added) \in Nat
          /\ DOMAIN entries = 0..Len(added) - 1
      BY <2>1, LengthIsAdded DEF SetOrderInv, SetOrderType, InPlace
    <3>2. ASSUME NEW i \in 1..Len(added)
          PROVE  /\ i - 1 \in DOMAIN entries
                 /\ entries[i - 1] = [key |-> added[i], value |-> latest[added[i]]]
      BY <2>1, <3>1 DEF SetOrderInv, InPlace
    <3> QED BY <3>1, <3>2 DEF AsList
  <2> QED BY <2>1 DEF ListKeepsOrder, SetOrderInv
<1>2. SetOrderInit => SetOrderInv
    BY SetOrderStarts
<1> QED BY <1>1, <1>2, SetOrderKeeps, PTL DEF SetOrderSpec
=============================================================================
