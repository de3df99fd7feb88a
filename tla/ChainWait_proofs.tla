------------------------- MODULE ChainWait_proofs -------------------------
(***************************************************************************)
(* How long the page would have to wait so that it never gives up while    *)
(* the watcher still tries, for any timeout, sleep and number of attempts. *)
(***************************************************************************)
EXTENDS ChainWait, TLAPS

(* What the watcher may need for an order that is alone: the call of       *)
(* process, its attempts, and a sleep between each two of them.            *)
Enough == (MaxAttempts + 1) * CallTicks + (MaxAttempts - 1) * SleepTicks

(* What it may have needed when a call begins, the c-th since process's.   *)
Needed(c) == c * CallTicks + (IF c = 0 THEN 0 ELSE c - 1) * SleepTicks

(* A call that runs has attempts left, and so has a sleep; neither has     *)
(* begun later than the calls before it can explain.                       *)
WaitIs(now, age, c, t, done, stopped) ==
    /\ now \in {"call", "sleep", "over"} /\ c \in Nat /\ age \in Nat /\ t \in Nat
    /\ now = "call" => c <= MaxAttempts /\ age <= CallTicks /\ t <= Needed(c) + age
    /\ now = "sleep" =>
           /\ c \in 2..MaxAttempts /\ age <= SleepTicks
           /\ t + SleepTicks <= Needed(c) + age
    /\ now = "over" => done \/ c > MaxAttempts
    /\ stopped => t > WaitTicks

WaitInv == WaitIs(doing, spent, calls, ticks, written, gaveUp)

(* Each call adds its timeout, and from the second attempt on a sleep.     *)
LEMMA NeededGrows ==
    ASSUME CallTicks \in Nat, SleepTicks \in Nat, NEW c \in Nat
    PROVE  /\ Needed(c) \in Nat
           /\ Needed(0) = 0
           /\ c > 0 => Needed(c + 1) = Needed(c) + CallTicks + SleepTicks
           /\ c = 0 => Needed(c + 1) = Needed(c) + CallTicks
<1>1. \A x, y \in Nat : x * y \in Nat /\ (x + 1) * y = x * y + y /\ 0 * y = 0
    OBVIOUS
<1>2. CASE c = 0
    BY <1>1, <1>2 DEF Needed
<1>3. CASE c > 0
  <2>1. PICK b \in Nat : b = c - 1 /\ b + 1 = c
    BY <1>3
  <2>2. Needed(c + 1) = (c + 1) * CallTicks + (b + 1) * SleepTicks
    BY <1>3, <2>1 DEF Needed
  <2>3. Needed(c) = c * CallTicks + b * SleepTicks
    BY <1>3, <2>1 DEF Needed
  <2>4. /\ (c + 1) * CallTicks = c * CallTicks + CallTicks
        /\ (b + 1) * SleepTicks = b * SleepTicks + SleepTicks
        /\ c * CallTicks \in Nat /\ b * SleepTicks \in Nat
    BY <1>1
  <2>5. Needed(0) = 0
    BY <1>1 DEF Needed
  <2> QED BY <1>3, <2>2, <2>3, <2>4, <2>5
<1> QED BY <1>2, <1>3

(* No call begins later than the last one may.                             *)
LEMMA NeededIsEnough ==
    ASSUME CallTicks \in Nat, SleepTicks \in Nat, MaxAttempts \in Nat \ {0},
           NEW c \in Nat, c <= MaxAttempts
    PROVE  Needed(c) + CallTicks <= Enough
<1> DEFINE k == IF c = 0 THEN 0 ELSE c - 1
<1>1. k \in Nat /\ k <= MaxAttempts - 1 /\ MaxAttempts - 1 \in Nat
    OBVIOUS
<1>2. \A x, y, z \in Nat : x <= y => x * z <= y * z /\ x * z \in Nat /\ y * z \in Nat
    OBVIOUS
<1>3. \A x, z \in Nat : (x + 1) * z = x * z + z
    OBVIOUS
<1>4. Needed(c) = c * CallTicks + k * SleepTicks
    BY DEF Needed
<1> HIDE DEF k
<1>5. /\ c * CallTicks <= MaxAttempts * CallTicks
      /\ k * SleepTicks <= (MaxAttempts - 1) * SleepTicks
      /\ c * CallTicks \in Nat /\ MaxAttempts * CallTicks \in Nat
      /\ k * SleepTicks \in Nat /\ (MaxAttempts - 1) * SleepTicks \in Nat
    BY <1>1, <1>2
<1>6. (MaxAttempts + 1) * CallTicks = MaxAttempts * CallTicks + CallTicks
    BY <1>3
<1> QED BY <1>4, <1>5, <1>6 DEF Enough

(* Every step keeps the account of the time.                               *)
LEMMA WaitKeeps ==
    ASSUME CallTicks \in Nat, SleepTicks \in Nat, MaxAttempts \in Nat \ {0}, WaitTicks \in Nat,
           WaitInv, [Next]_vars
    PROVE  WaitInv'
<1>0. PICK age, c, t \in Nat : age = spent /\ c = calls /\ t = ticks
    BY DEF WaitInv, WaitIs
<1>n. WaitIs(doing, age, c, t, written, gaveUp) /\ Needed(c) \in Nat
    BY <1>0, NeededGrows DEF WaitInv
<1>1. CASE Succeeds
  <2>1. /\ doing' = "over" /\ spent' = 0 /\ calls' = c + 1 /\ written' = TRUE
        /\ ticks' = t /\ gaveUp' = gaveUp
    BY <1>0, <1>1 DEF Succeeds, Begin
  <2>2. WaitIs("over", 0, c + 1, t, TRUE, gaveUp)
    BY <1>n DEF WaitIs
  <2> QED BY <2>1, <2>2 DEF WaitInv
<1>2. CASE FailsFirst
  <2>1. /\ doing = "call" /\ c = 0 /\ doing' = "call" /\ spent' = 0 /\ calls' = 1
        /\ written' = written /\ ticks' = t /\ gaveUp' = gaveUp
    BY <1>0, <1>2 DEF FailsFirst, Begin, Attempts
  <2>2. WaitIs("call", 0, 1, t, written, gaveUp)
    BY <1>n, <2>1, NeededGrows DEF WaitIs
  <2> QED BY <2>1, <2>2 DEF WaitInv
<1>3. CASE FailsInRound
  <2> DEFINE next == IF c < MaxAttempts THEN "sleep" ELSE "over"
  <2>1. /\ doing = "call" /\ c > 0 /\ doing' = next /\ spent' = 0 /\ calls' = c + 1
        /\ written' = written /\ ticks' = t /\ gaveUp' = gaveUp
    BY <1>0, <1>3 DEF FailsInRound, Begin, Attempts
  <2>2. WaitIs(next, 0, c + 1, t, written, gaveUp)
    BY <1>n, <2>1, NeededGrows DEF WaitIs
  <2> HIDE DEF next
  <2> QED BY <2>1, <2>2 DEF WaitInv
<1>4. CASE Wake
  <2>1. /\ doing = "sleep" /\ doing' = "call" /\ spent' = 0 /\ calls' = c
        /\ written' = written /\ ticks' = t /\ gaveUp' = gaveUp
    BY <1>0, <1>4 DEF Wake, Begin
  <2>2. WaitIs("call", 0, c, t, written, gaveUp)
    BY <1>n, <2>1 DEF WaitIs
  <2> QED BY <2>1, <2>2 DEF WaitInv
<1>5. CASE Tick
  <2> DEFINE longer == IF doing = "over" THEN 0 ELSE age + 1
  <2>1. /\ doing = "call" => age < CallTicks
        /\ doing = "sleep" => age < SleepTicks
        /\ doing' = doing /\ spent' = longer /\ calls' = c /\ written' = written
        /\ ticks' = t + 1 /\ gaveUp' = (t + 1 > WaitTicks)
    BY <1>0, <1>5 DEF Tick, InTime
  <2>2. WaitIs(doing, longer, c, t + 1, written, t + 1 > WaitTicks)
    BY <1>n, <2>1 DEF WaitIs
  <2> HIDE DEF longer
  <2> QED BY <2>1, <2>2 DEF WaitInv
<1>6. CASE UNCHANGED vars
    BY <1>6 DEF vars, WaitInv
<1> QED BY <1>1, <1>2, <1>3, <1>4, <1>5, <1>6 DEF Next

(* A page that waits as long as the watcher may need does not give up      *)
(* while an attempt is to come.  With the constants of the code that is    *)
(* 182 polls; CHAIN_WAIT_TICKS is 140 (api.ts:48), and 137 would do if     *)
(* there were only the three attempts it counts.                           *)
THEOREM LongEnough ==
    ASSUME CallTicks \in Nat, SleepTicks \in Nat, MaxAttempts \in Nat \ {0},
           WaitTicks \in Nat, WaitTicks >= Enough
    PROVE  Spec => []OutlivesRetries
<1>1. Init => WaitInv
    BY NeededGrows DEF Init, WaitInv, WaitIs
<1>2. WaitInv /\ [Next]_vars => WaitInv'
    BY WaitKeeps
<1>3. WaitInv => OutlivesRetries
  <2> SUFFICES ASSUME WaitInv, gaveUp, ~ written, ~ (calls - 1 >= MaxAttempts)
               PROVE  FALSE
    BY DEF OutlivesRetries, Attempts
  <2>1. calls <= MaxAttempts /\ ticks > WaitTicks
    BY DEF WaitInv, WaitIs
  <2>2. doing # "over"
    BY <2>1 DEF WaitInv, WaitIs
  <2>3. ticks <= Needed(calls) + CallTicks
    BY <2>2, NeededGrows DEF WaitInv, WaitIs
  <2>4. Needed(calls) + CallTicks <= Enough /\ Needed(calls) \in Nat
    BY <2>1, NeededIsEnough, NeededGrows DEF WaitInv, WaitIs
  <2>5. Enough \in Int
    BY DEF Enough
  <2> QED BY <2>1, <2>3, <2>4, <2>5 DEF WaitInv, WaitIs
<1> QED BY <1>1, <1>2, <1>3, PTL DEF Spec
=============================================================================
