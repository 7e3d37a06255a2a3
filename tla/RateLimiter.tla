---------------------------- MODULE RateLimiter ----------------------------
(***************************************************************************)
(* The token bucket of internal/rate/limiter.go that all users of the bot  *)
(* share.  It is refilled when it is asked, by whole intervals, and then   *)
(* forgets the fraction of an interval that has passed as well.            *)
(***************************************************************************)
EXTENDS Integers

CONSTANTS
  Burst,      \* max, and the tokens at the start
  Refill,     \* tokens an interval is worth
  Interval,   \* in ticks of the clock
  MaxTime     \* bound: ticks

ASSUME LimiterAssumption ==
  /\ Burst \in Nat /\ Refill \in Nat /\ MaxTime \in Nat
  /\ Interval \in Nat \ {0}

VARIABLES
  now,        \* the clock
  tokens,
  last,       \* when the bucket was last refilled
  passed,     \* ghost: requests let through
  passedBy    \* ghost: the same, before each tick so far

limiterVars == <<now, tokens, last, passed, passedBy>>

LimiterTypeOK ==
  /\ now \in 0..MaxTime /\ last \in 0..now
  /\ tokens \in 0..Burst
  /\ passed \in Nat /\ passedBy \in [0..MaxTime -> 0..passed]

LimiterInit ==
  /\ now = 0 /\ tokens = Burst /\ last = 0
  /\ passed = 0 /\ passedBy = [t \in 0..MaxTime |-> 0]

Tick ==
  /\ now < MaxTime
  /\ now' = now + 1
  /\ passedBy' = [passedBy EXCEPT ![now'] = passed]
  /\ UNCHANGED <<tokens, last, passed>>

Lesser(a, b) == IF a < b THEN a ELSE b

Steps == (now - last) \div Interval

\* Mutant: the bucket takes more than it holds.
RefilledOverTheBrim(t, l) ==
  IF now - last >= Interval
  THEN t = tokens + Steps * Refill /\ l = now
  ELSE t = tokens /\ l = last

\* Mutant: the time of the refill is not noted.
RefilledUnnoted(t, l) ==
  IF now - last >= Interval
  THEN t = Lesser(Burst, tokens + Steps * Refill) /\ l = last
  ELSE t = tokens /\ l = last

(* What AllowKind finds in the bucket, and the time it notes. *)
Refilled(t, l) ==
  IF now - last >= Interval
  THEN t = Lesser(Burst, tokens + Steps * Refill) /\ l = now
  ELSE t = tokens /\ l = last

Allow ==
  \E t \in 1..(tokens + Steps * Refill), l \in {last, now} :
    /\ Refilled(t, l)
    /\ tokens' = t - 1 /\ last' = l
    /\ passed' = passed + 1
    /\ UNCHANGED <<now, passedBy>>

Deny ==
  \E l \in {last, now} :
    /\ Refilled(0, l)
    /\ tokens' = 0 /\ last' = l
    /\ UNCHANGED <<now, passed, passedBy>>

LimiterNext == Tick \/ Allow \/ Deny

LimiterSpec == LimiterInit /\ [][LimiterNext]_limiterVars

(* However the requests fall between the intervals, no more of them pass   *)
(* than the burst and what whole intervals since the start are worth; and  *)
(* in a stretch of time that begins at any tick, however long the bucket   *)
(* has rested before, no more than the burst and one interval more than    *)
(* have passed.  (AllowKind.)                                              *)
RateKept ==
  /\ passed <= Burst + Refill * (now \div Interval)
  /\ \A t \in 0..now : passed - passedBy[t] <= Burst + Refill * ((now - t) \div Interval + 1)
=============================================================================
