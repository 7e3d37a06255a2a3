-------------------------- MODULE References_proofs --------------------------
(***************************************************************************)
(* Proofs about References and its rate limiter, for any photos, texts,    *)
(* albums, handlers and limits: types, the rate, and, unless a message     *)
(* comes between reading and clearing the pending photos, that no photo    *)
(* goes with two prompts and none gets lost.                               *)
(***************************************************************************)
EXTENDS References, SequenceTheorems, TLAPS

-----------------------------------------------------------------------------
(* The rate limiter.                                                       *)

(* What is known of a quotient. *)
LEMMA Quotient ==
  ASSUME NEW a \in Nat, NEW n \in Nat \ {0}
  PROVE  a \div n \in Nat /\ n * (a \div n) <= a /\ a < n * (a \div n) + n
OBVIOUS

(* It is the largest number of intervals that fit. *)
LEMMA QuotientIsMost ==
  ASSUME NEW a \in Nat, NEW n \in Nat \ {0}, NEW q \in Nat, n * q <= a
  PROVE  q <= a \div n
<1> DEFINE d == a \div n
<1>1. d \in Nat /\ a < n * d + n
  BY Quotient
<1> HIDE DEF d
<1>2. SUFFICES ASSUME d + 1 <= q PROVE FALSE
  BY <1>1 DEF d
<1>3. n * (d + 1) <= n * q
  BY <1>1, <1>2
<1>4. n * (d + 1) = n * d + n
  BY <1>1
<1> QED
  BY <1>1, <1>3, <1>4

(* Two stretches of time hold no more whole intervals than both together. *)
LEMMA QuotientsAdd ==
  ASSUME NEW a \in Nat, NEW b \in Nat, NEW n \in Nat \ {0}
  PROVE  (a \div n) + (b \div n) <= (a + b) \div n
<1> DEFINE c == a \div n
           d == b \div n
<1>1. c \in Nat /\ d \in Nat /\ n * c <= a /\ n * d <= b
  BY Quotient
<1> HIDE DEF c, d
<1>2. n * (c + d) = n * c + n * d
  BY <1>1
<1>3. n * c \in Nat /\ n * d \in Nat
  BY <1>1
<1>4. n * (c + d) <= a + b
  BY <1>1, <1>2, <1>3
<1>5. c + d <= (a + b) \div n
  BY <1>1, <1>4, QuotientIsMost
<1> QED
  BY <1>5 DEF c, d

(* A part of a stretch of time that falls short of one more interval adds  *)
(* at most one to its intervals. *)
LEMMA QuotientsOverlap ==
  ASSUME NEW a \in Nat, NEW b \in Nat, NEW n \in Nat \ {0}, b < n
  PROVE  (a + b) \div n <= a \div n + 1
<1> DEFINE c == a \div n
           d == (a + b) \div n
<1>1. c \in Nat /\ d \in Nat /\ a < n * c + n /\ n * d <= a + b
  BY Quotient
<1> HIDE DEF c, d
<1>2. SUFFICES ASSUME c + 2 <= d PROVE FALSE
  BY <1>1 DEF c, d
<1>3. n * (c + 2) <= n * d
  BY <1>1, <1>2
<1>4. n * (c + 2) = n * c + n + n /\ n * c \in Nat /\ n * d \in Nat
  BY <1>1
<1> QED
  BY <1>1, <1>3, <1>4

(* The same amounts, with a rate. *)
LEMMA WorthOf ==
  ASSUME NEW r \in Nat, NEW a \in Nat, NEW b \in Nat, NEW c \in Nat, a + b <= c
  PROVE  r * a + r * b <= r * c /\ r * a \in Nat /\ r * b \in Nat /\ r * c \in Nat
<1>1. r * (a + b) <= r * c
  OBVIOUS
<1>2. r * (a + b) = r * a + r * b
  OBVIOUS
<1> QED
  BY <1>1, <1>2

(* What was at hand, and what came. *)
LEMMA Chain ==
  ASSUME NEW c \in Nat, NEW k \in Nat, NEW t \in Nat, NEW x \in Nat, NEW y \in Nat, NEW z \in Nat,
         NEW u \in Nat, c + k <= u + x, t <= k + y, x + y <= z
  PROVE  c + t <= u + z
OBVIOUS

(* With p requests passed and k tokens left after a refill at l: what      *)
(* passed since tick t, and what is left, was in the bucket at that time   *)
(* or came with a refill since.  The first of these may be worth one       *)
(* interval more than fits in between, but only if requests have passed    *)
(* shortly after the refill before it; else it fills up what was there.    *)
Window(p, k, l, t) ==
  /\ l < t => /\ p - passedBy[t] + k <= Burst
              /\ p > passedBy[t] => t - l < Interval
  /\ l >= t => p - passedBy[t] + k <= Burst + Refill * ((l - t) \div Interval + 1)

(* What passed and what is left was there or came by the last refill, of   *)
(* any stretch of time. *)
LimiterInv ==
  /\ LimiterTypeOK
  /\ passed + tokens <= Burst + Refill * (last \div Interval)
  /\ \A t \in 0 .. now : Window(passed, tokens, last, t)

(* The numbers. *)
LEMMA LimiterNumbers ==
  ASSUME LimiterTypeOK
  PROVE  /\ Refill \in Nat /\ Burst \in Nat /\ Interval \in Nat \ {0} /\ MaxTime \in Nat
         /\ now \in Nat /\ last \in Nat /\ last <= now /\ tokens \in Nat /\ tokens <= Burst
         /\ now <= MaxTime
         /\ passed \in Nat /\ passedBy \in [0 .. MaxTime -> 0 .. passed]
         /\ \A t \in 0 .. now : passedBy[t] \in Nat /\ passedBy[t] <= passed
BY LimiterAssumption DEF LimiterAssumption, LimiterTypeOK

(* A refill gives no more than the intervals since the last one are worth, *)
(* and no more than the bucket holds. *)
LEMMA RefillGives ==
  ASSUME LimiterTypeOK, NEW t \in Nat, NEW l \in {last, now}, Refilled(t, l)
  PROVE  /\ l \in 0 .. now /\ l \in Nat /\ t <= Burst
         /\ \/ now - last < Interval /\ t = tokens /\ l = last
            \/ l = now /\ t <= tokens + Refill * ((now - last) \div Interval)
<1> USE LimiterNumbers
<1> DEFINE since == (now - last) \div Interval
<1>0. now - last \in Nat
  OBVIOUS
<1>1. since \in Nat
  BY <1>0, Quotient
<1> HIDE DEF since
<1>2. Refill * since \in Nat /\ since * Refill = Refill * since
  BY <1>1
<1>3. CASE now - last >= Interval
  <2>1. l = now /\ t = Lesser(Burst, tokens + since * Refill)
    BY <1>3 DEF Refilled, Steps, since
  <2>2. t <= Burst /\ t <= tokens + Refill * since
    BY <1>2, <2>1 DEF Lesser
  <2> QED
    BY <2>1, <2>2 DEF since
<1>4. CASE ~(now - last >= Interval)
  BY <1>4 DEF Refilled
<1> QED
  BY <1>3, <1>4

(* The bound since the start, after a refill. *)
LEMMA RefillBound ==
  ASSUME LimiterInv, NEW t \in Nat, NEW l \in {last, now}, Refilled(t, l)
  PROVE  passed + t <= Burst + Refill * (l \div Interval)
<1> LimiterTypeOK
  BY DEF LimiterInv
<1> USE LimiterNumbers
<1> DEFINE before == last \div Interval
           since == (now - last) \div Interval
           all == now \div Interval
<1>1. before \in Nat /\ all \in Nat /\ since \in Nat /\ before + since <= all
  <2>1. now - last \in Nat /\ last + (now - last) = now
    OBVIOUS
  <2> QED
    BY <2>1, Quotient, QuotientsAdd
<1>2. passed + tokens <= Burst + Refill * before
  BY DEF LimiterInv
<1>3. CASE l = now /\ t <= tokens + Refill * since
  <2> HIDE DEF before, since, all
  <2>1. /\ Refill * before + Refill * since <= Refill * all
        /\ Refill * before \in Nat /\ Refill * since \in Nat /\ Refill * all \in Nat
    BY <1>1, WorthOf
  <2>2. passed + t <= Burst + Refill * all
    BY <1>2, <1>3, <2>1
  <2> QED
    BY <1>3, <2>2 DEF all
<1>4. CASE t = tokens /\ l = last
  BY <1>2, <1>4
<1> QED
  BY <1>3, <1>4, RefillGives

(* The bound since any tick, after a refill; if none came since then, the  *)
(* one before is less than an interval old. *)
LEMMA RefillWindow ==
  ASSUME LimiterInv, NEW t \in Nat, NEW l \in {last, now}, Refilled(t, l), NEW s \in 0 .. now
  PROVE  Window(passed, t, l, s) /\ (l < s => s - l < Interval)
<1> LimiterTypeOK
  BY DEF LimiterInv
<1> USE LimiterNumbers
<1> DEFINE c == passed - passedBy[s]
<1>1. c \in Nat /\ s \in Nat /\ s <= now
  OBVIOUS
<1>2. Window(passed, tokens, last, s)
  BY DEF LimiterInv
<1>3. CASE now - last < Interval /\ t = tokens /\ l = last
  <2>1. l < s => s - l < Interval
    BY <1>3
  <2> QED
    BY <1>2, <1>3, <2>1
<1>4. CASE l = now /\ t <= tokens + Refill * ((now - last) \div Interval)
  <2> DEFINE since == (now - last) \div Interval
             q == (now - s) \div Interval
             b == (last - s) \div Interval
  <2>0. now - last \in Nat /\ now - s \in Nat
    BY <1>1
  <2>1. since \in Nat /\ q \in Nat
    BY <2>0, Quotient
  <2>2. t <= Burst /\ t <= tokens + Refill * since
    BY <1>4, RefillGives
  <2>3. c + t <= Burst + Refill * (q + 1)
    <3>1. CASE last < s /\ c = 0
      <4> HIDE DEF q, since
      <4>1. Refill * (q + 1) \in Nat
        BY <2>1
      <4> QED
        BY <2>2, <3>1, <4>1
    <3>2. CASE last < s /\ c # 0
      <4>1. c + tokens <= Burst /\ s - last < Interval /\ s - last \in Nat
        BY <1>2, <3>2 DEF Window
      <4>2. since <= q + 1
        <5>1. now - s \in Nat /\ (now - s) + (s - last) = now - last
          BY <3>2
        <5> QED
          BY <4>1, <5>1, QuotientsOverlap
      <4> HIDE DEF q, since, c
      <4>3. Refill * since <= Refill * (q + 1) /\ Refill * since \in Nat /\ Refill * (q + 1) \in Nat
        BY <2>1, <4>2
      <4> QED
        BY <1>1, <2>2, <4>1, <4>3
    <3>3. CASE last >= s
      <4>1. b \in Nat /\ c + tokens <= Burst + Refill * (b + 1)
        BY <1>2, <3>3, Quotient DEF Window
      <4>2. b + since <= q
        <5>1. last - s \in Nat /\ now - last \in Nat /\ (last - s) + (now - last) = now - s
          BY <3>3
        <5> QED
          BY <5>1, QuotientsAdd
      <4> HIDE DEF q, since, b, c
      <4>3. /\ Refill * (b + 1) + Refill * since <= Refill * (q + 1)
            /\ Refill * (b + 1) \in Nat /\ Refill * since \in Nat /\ Refill * (q + 1) \in Nat
        <5>1. (b + 1) + since <= q + 1 /\ b + 1 \in Nat /\ q + 1 \in Nat
          BY <2>1, <4>1, <4>2
        <5> QED
          BY <2>1, <5>1, WorthOf
      <4>4. c \in Nat /\ c + tokens <= Burst + Refill * (b + 1) /\ t <= tokens + Refill * since
        BY <1>1, <2>2, <4>1
      <4> QED
        BY <4>3, <4>4, Chain
    <3> QED
      BY <1>1, <3>1, <3>2, <3>3
  <2> HIDE DEF since
  <2>4. ~(l < s) /\ (l - s) \div Interval = q
    BY <1>4
  <2> QED
    BY <2>3, <2>4 DEF Window
<1> QED
  BY <1>3, <1>4, RefillGives

(* A request that passes keeps the bounds. *)
LEMMA AllowStep ==
  ASSUME LimiterInv, NEW t \in Nat \ {0}, NEW l \in {last, now}, Refilled(t, l),
         tokens' = t - 1, last' = l, passed' = passed + 1, UNCHANGED <<now, passedBy>>
  PROVE  LimiterInv'
<1> LimiterTypeOK
  BY DEF LimiterInv
<1> USE LimiterNumbers
<1>1. l \in 0 .. now /\ l \in Nat /\ t <= Burst
  BY RefillGives
<1>2. passed + t <= Burst + Refill * (l \div Interval)
  BY RefillBound
<1>3. passed' + tokens' = passed + t /\ tokens' \in 0 .. Burst
  <2>1. passed \in Nat /\ Burst \in Nat
    OBVIOUS
  <2>2. tokens' = t - 1 /\ passed' = passed + 1
    OBVIOUS
  <2> QED
    BY ONLY <1>1, <2>1, <2>2, t \in Nat \ {0}
<1>4. LimiterTypeOK'
  <2>1. passedBy' \in [0 .. MaxTime -> 0 .. passed'] /\ passed' \in Nat
    OBVIOUS
  <2> QED
    BY <1>1, <1>3, <2>1 DEF LimiterTypeOK
<1>5. ASSUME NEW s \in 0 .. now PROVE Window(passed', tokens', l, s)
  <2>1. Window(passed, t, l, s) /\ (l < s => s - l < Interval)
    BY RefillWindow
  <2>2. passedBy[s] \in Nat /\ passed \in Nat /\ passed' = passed + 1 /\ tokens' = t - 1
    OBVIOUS
  <2>3. passed' - passedBy[s] + tokens' = passed - passedBy[s] + t
    BY ONLY <2>2, t \in Nat
  <2> QED
    BY <2>1, <2>3 DEF Window
<1> QED
  BY <1>2, <1>3, <1>4, <1>5 DEF LimiterInv, Window

(* Every step keeps the bounds. *)
LEMMA LimiterStep == LimiterInv /\ [LimiterNext]_limiterVars => LimiterInv'
<1> SUFFICES ASSUME LimiterInv, [LimiterNext]_limiterVars PROVE LimiterInv'
  OBVIOUS
<1> LimiterTypeOK
  BY DEF LimiterInv
<1> USE LimiterNumbers
<1>1. CASE Tick
  <2>1. /\ now' = now + 1 /\ now' \in 0 .. MaxTime /\ UNCHANGED <<tokens, last, passed>>
        /\ passedBy' = [passedBy EXCEPT ![now'] = passed]
    BY <1>1 DEF Tick
  <2>2. /\ passedBy' \in [0 .. MaxTime -> 0 .. passed] /\ passedBy'[now'] = passed
        /\ \A t \in 0 .. now : passedBy'[t] = passedBy[t]
    BY <2>1
  <2>3. LimiterTypeOK'
    BY <2>1, <2>2 DEF LimiterTypeOK
  <2>4. ASSUME NEW t \in 0 .. now' PROVE Window(passed, tokens, last, t)'
    <3>1. CASE t \in 0 .. now
      BY <2>1, <2>2, <3>1 DEF LimiterInv, Window
    <3>2. CASE t = now'
      <4>1. last < t /\ passed - passedBy'[t] = 0 /\ ~(passed > passedBy'[t])
        BY <2>1, <2>2, <3>2
      <4> QED
        BY <2>1, <4>1 DEF Window
    <3> QED
      BY <2>1, <3>1, <3>2
  <2> QED
    BY <2>1, <2>3, <2>4 DEF LimiterInv
<1>2. CASE Allow
  <2>1. PICK t \in 1 .. (tokens + Steps * Refill), l \in {last, now} :
          /\ Refilled(t, l) /\ tokens' = t - 1 /\ last' = l /\ passed' = passed + 1
          /\ now' = now /\ passedBy' = passedBy
    BY <1>2 DEF Allow
  <2>2. now - last \in Nat /\ Steps \in Nat
    <3>1. now - last \in Nat
      OBVIOUS
    <3> QED
      BY <3>1, Quotient DEF Steps
  <2>3. t \in Nat \ {0}
    BY <2>2
  <2> QED
    BY <2>1, <2>3, AllowStep
<1>3. CASE Deny
  <2>1. PICK l \in {last, now} :
          /\ Refilled(0, l) /\ tokens' = 0 /\ last' = l /\ passed' = passed /\ now' = now
          /\ passedBy' = passedBy
    BY <1>3 DEF Deny
  <2>2. l \in 0 .. now /\ passed + 0 <= Burst + Refill * (l \div Interval)
    BY <2>1, RefillGives, RefillBound
  <2>3. LimiterTypeOK'
    BY <2>1, <2>2 DEF LimiterTypeOK
  <2>4. \A s \in 0 .. now : Window(passed, 0, l, s)
    BY <2>1, RefillWindow
  <2> QED
    BY <2>1, <2>2, <2>3, <2>4 DEF LimiterInv, Window
<1>4. CASE UNCHANGED limiterVars
  BY <1>4 DEF limiterVars, LimiterInv, LimiterTypeOK, Window
<1> QED
  BY <1>1, <1>2, <1>3, <1>4 DEF LimiterNext

(* They hold at the start. *)
LEMMA LimiterStarts == LimiterInit => LimiterInv
<1> SUFFICES ASSUME LimiterInit PROVE LimiterInv
  OBVIOUS
<1> USE LimiterAssumption DEF LimiterAssumption
<1>1. 0 \div Interval \in Nat
  BY Quotient
<1>2. Refill * (0 \div Interval) \in Nat /\ Refill * (0 \div Interval + 1) \in Nat
  BY <1>1
<1>3. LimiterTypeOK
  BY DEF LimiterInit, LimiterTypeOK
<1>4. ASSUME NEW t \in 0 .. now PROVE Window(passed, tokens, last, t)
  <2>1. t = 0 /\ passedBy[t] = 0 /\ passed = 0 /\ tokens = Burst /\ last = 0
    BY DEF LimiterInit
  <2>2. passed - passedBy[t] + tokens = Burst /\ last - t = 0 /\ ~(last < t)
    BY <2>1
  <2> QED
    BY <1>2, <2>2 DEF Window
<1> QED
  BY <1>2, <1>3, <1>4 DEF LimiterInit, LimiterInv

(* The bounds by the last refill are bounds by the time. *)
LEMMA LimiterInvKeepsRate == LimiterInv => RateKept
<1> SUFFICES ASSUME LimiterInv PROVE RateKept
  OBVIOUS
<1> LimiterTypeOK
  BY DEF LimiterInv
<1> USE LimiterNumbers
<1>1. ASSUME NEW t \in Nat, t <= last
      PROVE  /\ (last - t) \div Interval \in Nat /\ (now - t) \div Interval \in Nat
             /\ (last - t) \div Interval <= (now - t) \div Interval
  <2>1. last - t \in Nat /\ now - last \in Nat /\ now - t \in Nat /\ (last - t) + (now - last) = now - t
    BY <1>1
  <2>2. /\ (last - t) \div Interval \in Nat /\ (now - last) \div Interval \in Nat
        /\ (now - t) \div Interval \in Nat
    BY <2>1, Quotient
  <2>3. (last - t) \div Interval + (now - last) \div Interval <= (now - t) \div Interval
    BY <2>1, QuotientsAdd
  <2> QED
    BY <2>2, <2>3
<1>2. passed <= Burst + Refill * (now \div Interval)
  <2> DEFINE before == last \div Interval
             all == now \div Interval
  <2>1. before \in Nat /\ all \in Nat /\ before <= all
    <3>1. last - 0 = last /\ now - 0 = now
      OBVIOUS
    <3> QED
      BY <1>1, <3>1
  <2>2. passed + tokens <= Burst + Refill * before
    BY DEF LimiterInv
  <2> HIDE DEF before, all
  <2>3. Refill * before <= Refill * all /\ Refill * before \in Nat /\ Refill * all \in Nat
    BY <2>1
  <2>4. passed <= Burst + Refill * all
    BY <2>2, <2>3
  <2> QED
    BY <2>4 DEF all
<1>3. ASSUME NEW t \in 0 .. now
      PROVE  passed - passedBy[t] <= Burst + Refill * ((now - t) \div Interval + 1)
  <2> DEFINE b == (last - t) \div Interval
             q == (now - t) \div Interval
  <2>1. Window(passed, tokens, last, t) /\ passed - passedBy[t] \in Nat
    BY DEF LimiterInv
  <2>2. q \in Nat
    BY Quotient
  <2>3. CASE last < t
    <3> HIDE DEF q
    <3>1. Refill * (q + 1) \in Nat
      BY <2>2
    <3>2. passed - passedBy[t] <= Burst
      BY <2>1, <2>3 DEF Window
    <3>3. passed - passedBy[t] <= Burst + Refill * (q + 1)
      BY <2>1, <3>1, <3>2
    <3> QED
      BY <3>3 DEF q
  <2>4. CASE last >= t
    <3>1. b \in Nat /\ b <= q
      BY <1>1, <2>4
    <3>2. passed - passedBy[t] + tokens <= Burst + Refill * (b + 1)
      BY <2>1, <2>4 DEF Window
    <3> HIDE DEF b, q
    <3>3. Refill * (b + 1) <= Refill * (q + 1) /\ Refill * (b + 1) \in Nat /\ Refill * (q + 1) \in Nat
      BY <2>2, <3>1
    <3>4. passed - passedBy[t] <= Burst + Refill * (q + 1)
      BY <2>1, <3>2, <3>3
    <3> QED
      BY <3>4 DEF q
  <2> QED
    BY <2>3, <2>4
<1> QED
  BY <1>2, <1>3 DEF RateKept

-----------------------------------------------------------------------------
(* Sequences of photos.                                                    *)

(* What the sequences that the steps build consist of. *)
LEMMA InSeqFacts ==
  /\ InSeq(<<>>) = {}
  /\ \A p \in Photos : <<p>> \in Seq(Photos) /\ InSeq(<<p>>) = {p}
  /\ \A s \in Seq(Photos), p \in Photos :
       Append(s, p) \in Seq(Photos) /\ InSeq(Append(s, p)) = InSeq(s) \cup {p}
  /\ \A s, t \in Seq(Photos) :
       s \o t \in Seq(Photos) /\ InSeq(s \o t) = InSeq(s) \cup InSeq(t)
<1>1. InSeq(<<>>) = {}
  BY DEF InSeq
<1>2. ASSUME NEW p \in Photos PROVE <<p>> \in Seq(Photos) /\ InSeq(<<p>>) = {p}
  BY DEF InSeq
<1>3. ASSUME NEW s \in Seq(Photos), NEW p \in Photos
      PROVE  Append(s, p) \in Seq(Photos) /\ InSeq(Append(s, p)) = InSeq(s) \cup {p}
  <2>1. /\ Append(s, p) \in Seq(Photos) /\ Len(s) \in Nat /\ Len(Append(s, p)) = Len(s) + 1
        /\ \A i \in 1 .. Len(s) : Append(s, p)[i] = s[i]
        /\ Append(s, p)[Len(s) + 1] = p
    OBVIOUS
  <2>2. DOMAIN s = 1 .. Len(s) /\ DOMAIN Append(s, p) = 1 .. Len(s) + 1
    BY <2>1
  <2> QED
    BY <2>1, <2>2 DEF InSeq
<1>4. ASSUME NEW s \in Seq(Photos), NEW t \in Seq(Photos)
      PROVE  s \o t \in Seq(Photos) /\ InSeq(s \o t) = InSeq(s) \cup InSeq(t)
  <2>1. /\ s \o t \in Seq(Photos) /\ Len(s) \in Nat /\ Len(t) \in Nat
        /\ Len(s \o t) = Len(s) + Len(t)
        /\ \A i \in 1 .. Len(s) + Len(t) : (s \o t)[i] = IF i <= Len(s) THEN s[i] ELSE t[i - Len(s)]
    OBVIOUS
  <2>2. DOMAIN s = 1 .. Len(s) /\ DOMAIN t = 1 .. Len(t) /\ DOMAIN (s \o t) = 1 .. Len(s) + Len(t)
    BY <2>1
  <2>3. ASSUME NEW x \in InSeq(s \o t) PROVE x \in InSeq(s) \cup InSeq(t)
    <3>1. PICK i \in 1 .. Len(s) + Len(t) : x = (s \o t)[i]
      BY <2>2, <2>3 DEF InSeq
    <3>2. CASE i <= Len(s)
      BY <2>1, <2>2, <3>1, <3>2 DEF InSeq
    <3>3. CASE ~(i <= Len(s))
      <4>1. i - Len(s) \in 1 .. Len(t) /\ x = t[i - Len(s)]
        BY <2>1, <3>1, <3>3
      <4> QED
        BY <2>2, <4>1 DEF InSeq
    <3> QED
      BY <3>2, <3>3
  <2>4. ASSUME NEW x \in InSeq(s) PROVE x \in InSeq(s \o t)
    <3>1. PICK i \in 1 .. Len(s) : x = s[i]
      BY <2>2 DEF InSeq
    <3>2. i \in 1 .. Len(s) + Len(t) /\ (s \o t)[i] = x
      BY <2>1, <3>1
    <3> QED
      BY <2>2, <3>2 DEF InSeq
  <2>5. ASSUME NEW x \in InSeq(t) PROVE x \in InSeq(s \o t)
    <3>1. PICK i \in 1 .. Len(t) : x = t[i]
      BY <2>2 DEF InSeq
    <3>2. i + Len(s) \in 1 .. Len(s) + Len(t) /\ ~(i + Len(s) <= Len(s)) /\ (i + Len(s)) - Len(s) = i
      BY <2>1
    <3>3. (s \o t)[i + Len(s)] = x
      BY <2>1, <3>1, <3>2
    <3> QED
      BY <2>2, <3>2, <3>3 DEF InSeq
  <2> QED
    BY <2>1, <2>3, <2>4, <2>5
<1> QED
  BY <1>1, <1>2, <1>3, <1>4

(* A sequence of photos consists of photos. *)
LEMMA InSeqPhotos ==
  ASSUME NEW s \in Seq(Photos)
  PROVE  InSeq(s) \subseteq Photos
BY DEF InSeq

(* The photos that are used are among those at hand. *)
LEMMA UsedAreHeld ==
  ASSUME RefTypeOK, NEW g \in Goroutines
  PROVE  referenceFileIDs(g) \subseteq InSeq(held[g])
<1> DEFINE s == held[g]
           n == Lesser(Limit, Len(s))
<1>1. s \in Seq(Photos) /\ Len(s) \in Nat
  BY DEF RefTypeOK
<1>2. n \in Nat /\ n <= Len(s)
  BY <1>1, ReferencesAssumption DEF ReferencesAssumption, Lesser
<1> HIDE DEF s, n
<1>3. DOMAIN SubSeq(s, 1, n) = 1 .. n /\ \A i \in 1 .. n : SubSeq(s, 1, n)[i] = s[i] /\ i \in DOMAIN s
  BY <1>1, <1>2
<1>4. InSeq(SubSeq(s, 1, n)) \subseteq InSeq(s)
  BY <1>3 DEF InSeq
<1> QED
  BY <1>4 DEF s, n, referenceFileIDs

-----------------------------------------------------------------------------
(* Types.                                                                  *)

(* The stages of a goroutine that works for a message. *)
Prompted == {"clearing", "loading", "encoding", "admitting", "moderating", "submitting", "restoring"}

PromptKnown == \A g \in Goroutines : stage[g] \in Prompted => prompt[g] # None

WorkOK ==
  /\ stage \in [Goroutines -> DialogueStages]
  /\ held \in [Goroutines -> Seq(Photos)]
  /\ prompt \in [Goroutines -> Prompts \cup {None}]
  /\ PromptKnown

AlbumsOK ==
  /\ group \in [Albums -> Seq(Photos)]
  /\ caption \in [Albums -> Captioned \cup {None}]
  /\ timer \in [Albums -> AlbumPhotos \cup {None}]

FatesOK ==
  /\ used \in [Photos -> SUBSET Prompts]
  /\ told \subseteq Photos /\ doubtful \subseteq Photos

Typed ==
  /\ inbox \subseteq Photos \cup Texts /\ chosen \in BOOLEAN /\ pending \in Seq(Photos)
  /\ AlbumsOK /\ WorkOK /\ FatesOK

(* The constants. *)
LEMMA Messages ==
  /\ Captioned \subseteq Photos /\ Captioned \subseteq Prompts /\ Texts \subseteq Prompts
  /\ None \notin Prompts /\ None \notin Photos
  /\ \A p \in AlbumPhotos : p \in Photos /\ p \in Goroutines /\ p \notin Handlers /\ AlbumOf[p] \in Albums
  /\ Handlers \subseteq Goroutines /\ Handlers \cap Photos = {}
  /\ Photos \cap Texts = {}
BY ReferencesAssumption DEF ReferencesAssumption, Prompts, AlbumPhotos, Goroutines

(* The typed state is the one of the module. *)
LEMMA TypedIsTypeOK == Typed => RefTypeOK
BY DEF Typed, RefTypeOK, AlbumsOK, WorkOK, FatesOK

(* Parts that do not change keep their types. *)
LEMMA FrameWork == WorkOK /\ UNCHANGED work => WorkOK'
BY DEF WorkOK, PromptKnown, work

(* The same for the albums, *)
LEMMA FrameAlbums == AlbumsOK /\ UNCHANGED albums => AlbumsOK'
BY DEF AlbumsOK, albums

(* and for the fates. *)
LEMMA FrameFates == FatesOK /\ UNCHANGED fates => FatesOK'
BY DEF FatesOK, fates

(* A goroutine goes on with what it has. *)
LEMMA MovesType ==
  ASSUME WorkOK, NEW g \in Goroutines, NEW next \in DialogueStages, Moves(g, next),
         next \in Prompted => stage[g] \in Prompted
  PROVE  WorkOK'
BY DEF WorkOK, PromptKnown, Moves

(* A goroutine begins with something else. *)
LEMMA BeginsType ==
  ASSUME WorkOK, NEW g \in Goroutines, NEW next \in DialogueStages, NEW photos \in Seq(Photos),
         NEW message \in Prompts \cup {None}, Begins(g, next, photos, message),
         next \in Prompted => message # None
  PROVE  WorkOK'
<1>1. stage' \in [Goroutines -> DialogueStages] /\ held' \in [Goroutines -> Seq(Photos)]
  BY DEF WorkOK, Begins
<1>2. prompt' \in [Goroutines -> Prompts \cup {None}]
  BY DEF WorkOK, Begins
<1>3. PromptKnown'
  BY DEF WorkOK, PromptKnown, Begins
<1> QED
  BY <1>1, <1>2, <1>3 DEF WorkOK

(* A goroutine is done. *)
LEMMA DoneType ==
  ASSUME WorkOK, NEW g \in Goroutines, Done(g)
  PROVE  WorkOK'
<1>1. "idle" \in DialogueStages /\ "idle" \notin Prompted /\ <<>> \in Seq(Photos)
  BY DEF DialogueStages, Prompted
<1> QED
  BY <1>1, BeginsType DEF Done

(* Telling keeps the types. *)
LEMMA TellsType ==
  ASSUME FatesOK, NEW S, Tells(S), UNCHANGED doubtful, used' \in [Photos -> SUBSET Prompts],
         S \subseteq Photos
  PROVE  FatesOK'
BY DEF FatesOK, Tells

(* Photos that are given up. *)
LEMMA GivenUpType ==
  ASSUME Typed, NEW g \in Goroutines, GivenUp(g)
  PROVE  WorkOK' /\ FatesOK'
<1>1. held[g] \in Seq(Photos) /\ used \in [Photos -> SUBSET Prompts]
  BY DEF Typed, WorkOK, FatesOK
<1>2. InSeq(held[g]) \subseteq Photos
  BY <1>1, InSeqPhotos
<1> QED
  BY <1>1, <1>2, DoneType, TellsType DEF GivenUp, Typed

(* An error. *)
LEMMA FailsType ==
  ASSUME Typed, NEW g \in Goroutines, stage[g] \in Prompted, Fails(g)
  PROVE  WorkOK' /\ FatesOK'
<1>1. CASE Moves(g, "restoring") /\ UNCHANGED fates
  BY <1>1, MovesType, FrameFates DEF Typed, DialogueStages
<1>2. CASE GivenUp(g)
  BY <1>2, GivenUpType
<1> QED
  BY <1>1, <1>2 DEF Fails

(* Photos that are put back. *)
LEMMA AppendType ==
  ASSUME Typed, NEW s \in Seq(Photos), appendPendingReferences(s)
  PROVE  pending' \in Seq(Photos) /\ InSeq(pending') = InSeq(pending) \cup InSeq(s)
BY InSeqFacts DEF Typed, appendPendingReferences

(* A message arrives. *)
LEMMA ArrivesType ==
  ASSUME Typed, NEW h \in Handlers, Arrives(h)
  PROVE  Typed'
<1> h \in Goroutines
  BY Messages
<1>1. CASE \E p \in Photos : collectMediaGroupPhoto(h, p)
  <2>1. PICK p \in Photos : collectMediaGroupPhoto(h, p)
    BY <1>1
  <2>2. p \in AlbumPhotos /\ AlbumOf[p] \in Albums
    BY <2>1, Messages DEF collectMediaGroupPhoto
  <2>3. stage' = ResetTimer(p, AlbumOf[p])
    BY <2>1 DEF collectMediaGroupPhoto
  <2>4. WorkOK'
    <3>1. stage' \in [Goroutines -> DialogueStages]
      BY <2>3 DEF ResetTimer, Typed, WorkOK, DialogueStages
    <3>2. \A g \in Goroutines : stage'[g] \in Prompted => stage'[g] = stage[g]
      BY <2>3 DEF ResetTimer, Prompted
    <3>3. UNCHANGED <<held, prompt>>
      BY <2>1 DEF collectMediaGroupPhoto
    <3> QED
      BY <3>1, <3>2, <3>3 DEF Typed, WorkOK, PromptKnown
  <2>5. group' \in [Albums -> Seq(Photos)]
    <3>1. group' = [group EXCEPT ![AlbumOf[p]] = Append(group[AlbumOf[p]], p)]
      BY <2>1 DEF collectMediaGroupPhoto
    <3>2. Append(group[AlbumOf[p]], p) \in Seq(Photos)
      BY <2>2, InSeqFacts DEF Typed, AlbumsOK
    <3> QED
      BY <3>1, <3>2 DEF Typed, AlbumsOK
  <2>6. AlbumsOK'
    <3>1. FirstPrompt(p, AlbumOf[p]) \in Captioned \cup {None}
      BY <2>2 DEF FirstPrompt, Typed, AlbumsOK
    <3> QED
      BY <2>1, <2>2, <2>5, <3>1 DEF collectMediaGroupPhoto, Typed, AlbumsOK
  <2>7. inbox' \subseteq inbox /\ UNCHANGED <<chosen, pending, fates>>
    BY <2>1 DEF collectMediaGroupPhoto, Receives
  <2> QED
    BY <2>4, <2>6, <2>7, FrameFates DEF Typed
<1>2. CASE \E p \in Photos : KeepSingle(h, p)
  <2>1. PICK p \in Photos : KeepSingle(h, p)
    BY <1>2
  <2>2. pending' \in Seq(Photos)
    BY <2>1, InSeqFacts, AppendType DEF KeepSingle
  <2>3. inbox' \subseteq inbox /\ UNCHANGED <<chosen, albums, work, fates>>
    BY <2>1 DEF KeepSingle, Receives
  <2> QED
    BY <2>2, <2>3, FrameFates, FrameAlbums, FrameWork DEF Typed
<1>3. CASE \E p \in Photos : TakeCaptioned(h, p)
  <2>1. PICK p \in Photos : TakeCaptioned(h, p)
    BY <1>3
  <2>2. p \in Prompts /\ p # None /\ <<p>> \in Seq(Photos) /\ "loading" \in DialogueStages
    BY <2>1, Messages, InSeqFacts DEF TakeCaptioned, DialogueStages
  <2>3. inbox' \subseteq inbox /\ UNCHANGED <<chosen, pending, albums, fates>> /\ Begins(h, "loading", <<p>>, p)
    BY <2>1 DEF TakeCaptioned, Receives
  <2>4. WorkOK'
    BY <2>2, <2>3, BeginsType DEF Typed
  <2> QED
    BY <2>3, <2>4, FrameFates, FrameAlbums DEF Typed
<1>4. CASE \E t \in Texts : TakeText(h, t)
  <2>1. PICK t \in Texts : TakeText(h, t)
    BY <1>4
  <2>2. inbox' \subseteq inbox /\ UNCHANGED <<chosen, pending, albums, fates>>
    BY <2>1 DEF TakeText, Receives
  <2>3. WorkOK'
    <3>1. t \in Prompts /\ t # None /\ {"admitting", "clearing"} \subseteq DialogueStages
      BY Messages DEF DialogueStages
    <3>2. UNCHANGED work \/ \E n \in {"admitting", "clearing"} : Begins(h, n, pending, t)
      BY <2>1 DEF TakeText
    <3> QED
      BY <3>1, <3>2, BeginsType, FrameWork DEF Typed
  <2> QED
    BY <2>2, <2>3, FrameFates, FrameAlbums DEF Typed
<1> QED
  BY <1>1, <1>2, <1>3, <1>4 DEF Arrives

(* A timer fires. *)
LEMMA FlushesType ==
  ASSUME Typed, NEW p \in AlbumPhotos, Flushes(p)
  PROVE  Typed'
<1> p \in Goroutines /\ AlbumOf[p] \in Albums
  BY Messages
<1>1. CASE Fire(p)
  <2>1. Moves(p, "flushing") /\ UNCHANGED <<inbox, chosen, pending, albums, fates>>
    BY <1>1 DEF Fire
  <2>2. WorkOK'
    BY <2>1, MovesType DEF Typed, DialogueStages, Prompted
  <2> QED
    BY <2>1, <2>2, FrameFates, FrameAlbums DEF Typed
<1>2. CASE TakeGroup(p)
  <2> DEFINE a == AlbumOf[p]
  <2>1. /\ UNCHANGED <<inbox, chosen, pending, fates>>
        /\ group' = [group EXCEPT ![a] = <<>>] /\ caption' = [caption EXCEPT ![a] = None]
        /\ timer' = [timer EXCEPT ![a] = None]
        /\ \/ Done(p)
           \/ Begins(p, "keeping", group[a], caption[a])
           \/ caption[a] # None /\ Begins(p, "loading", group[a], caption[a])
    BY <1>2 DEF TakeGroup
  <2>2. AlbumsOK'
    BY <2>1 DEF Typed, AlbumsOK
  <2>3. group[a] \in Seq(Photos) /\ caption[a] \in Prompts \cup {None}
    BY Messages DEF Typed, AlbumsOK
  <2>4. WorkOK'
    <3>1. {"keeping", "loading"} \subseteq DialogueStages /\ "keeping" \notin Prompted
      BY DEF DialogueStages, Prompted
    <3> HIDE DEF a
    <3> QED
      BY <2>1, <2>3, <3>1, BeginsType, DoneType DEF Typed
  <2> QED
    BY <2>1, <2>2, <2>4, FrameFates DEF Typed
<1> QED
  BY <1>1, <1>2 DEF Flushes

(* A goroutine prepares a prompt, or puts photos back. *)
LEMMA PreparesType ==
  ASSUME Typed, NEW g \in Goroutines, Prepares(g)
  PROVE  Typed'
<1>1. CASE ClearPending(g)
  <2>1. Moves(g, "loading") /\ stage[g] = "clearing" /\ pending' = <<>> /\ UNCHANGED <<inbox, chosen, albums, fates>>
    BY <1>1 DEF ClearPending
  <2>2. WorkOK'
    BY <2>1, MovesType DEF Typed, DialogueStages, Prompted
  <2> QED
    BY <2>1, <2>2, FrameFates, FrameAlbums DEF Typed
<1>2. CASE KeepGroup(g) \/ Restore(g)
  <2>1. appendPendingReferences(held[g]) /\ Done(g) /\ UNCHANGED <<inbox, chosen, albums, fates>>
    BY <1>2 DEF KeepGroup, Restore
  <2>2. pending' \in Seq(Photos)
    BY <2>1, AppendType DEF Typed, WorkOK
  <2>3. WorkOK'
    BY <2>1, DoneType DEF Typed
  <2> QED
    BY <2>1, <2>2, <2>3, FrameFates, FrameAlbums DEF Typed
<1>3. CASE LoadSession(g)
  <2>1. stage[g] = "loading" /\ UNCHANGED <<inbox, chosen, albums>>
    BY <1>3 DEF LoadSession
  <2>2. CASE Moves(g, "encoding") /\ UNCHANGED <<pending, fates>>
    <3>1. WorkOK'
      BY <2>1, <2>2, MovesType DEF Typed, DialogueStages, Prompted
    <3> QED
      BY <2>1, <2>2, <3>1, FrameFates, FrameAlbums DEF Typed
  <2>3. CASE appendPendingReferences(held[g]) /\ Done(g) /\ UNCHANGED fates
    <3>1. pending' \in Seq(Photos)
      BY <2>3, AppendType DEF Typed, WorkOK
    <3>2. WorkOK'
      BY <2>3, DoneType DEF Typed
    <3> QED
      BY <2>1, <2>3, <3>1, <3>2, FrameFates, FrameAlbums DEF Typed
  <2>4. CASE Fails(g) /\ UNCHANGED pending
    <3>1. WorkOK' /\ FatesOK'
      BY <2>1, <2>4, FailsType DEF Prompted
    <3> QED
      BY <2>1, <2>4, <3>1, FrameAlbums DEF Typed
  <2> QED
    BY <1>3, <2>2, <2>3, <2>4 DEF LoadSession
<1>4. CASE Encode(g) \/ Moderate(g)
  <2>1. stage[g] \in Prompted /\ UNCHANGED <<inbox, chosen, pending, albums>>
    BY <1>4 DEF Encode, Moderate, Prompted
  <2>2. \/ \E n \in {"admitting", "submitting"} : Moves(g, n) /\ UNCHANGED fates
        \/ GivenUp(g) \/ Fails(g)
    BY <1>4 DEF Encode, Moderate
  <2>3. WorkOK' /\ FatesOK'
    <3>1. {"admitting", "submitting"} \subseteq DialogueStages
      BY DEF DialogueStages
    <3> QED
      BY <2>1, <2>2, <3>1, MovesType, GivenUpType, FailsType, FrameFates DEF Typed
  <2> QED
    BY <2>1, <2>3, FrameAlbums DEF Typed
<1> QED
  BY <1>1, <1>2, <1>3, <1>4 DEF Prepares

(* A goroutine passes the limiter and submits. *)
LEMMA SubmitsType ==
  ASSUME Typed, NEW g \in Goroutines, Admit(g) \/ Submits(g)
  PROVE  Typed'
<1>1. stage[g] \in Prompted /\ UNCHANGED <<inbox, chosen, pending, albums>>
  BY DEF Admit, Submits, Accepted, TurnedDown, NotSubmitted, SubmittedInDoubt, Prompted
<1>2. {"moderating", "restoring"} \subseteq DialogueStages
  BY DEF DialogueStages
<1>3. CASE Accepted(g)
  <2>1. Done(g) /\ UNCHANGED doubtful /\ Uses(g) /\ Tells(InSeq(held[g]) \ referenceFileIDs(g))
    BY <1>3 DEF Accepted
  <2>2. used' \in [Photos -> SUBSET Prompts]
    <3>1. prompt[g] \in Prompts /\ used \in [Photos -> SUBSET Prompts]
      BY <1>1 DEF Typed, WorkOK, PromptKnown, FatesOK
    <3> QED
      BY <2>1, <3>1 DEF Uses
  <2>3. InSeq(held[g]) \ referenceFileIDs(g) \subseteq Photos
    BY InSeqPhotos DEF Typed, WorkOK
  <2>4. FatesOK'
    BY <2>1, <2>2, <2>3, TellsType DEF Typed
  <2> QED
    BY <1>1, <2>1, <2>4, DoneType, FrameAlbums DEF Typed
<1>4. CASE SubmittedInDoubt(g)
  <2>1. FatesOK'
    <3>1. InSeq(held[g]) \subseteq Photos
      BY InSeqPhotos DEF Typed, WorkOK
    <3> QED
      BY <1>4, <3>1 DEF SubmittedInDoubt, Typed, FatesOK
  <2>2. WorkOK'
    <3>1. Moves(g, "restoring") \/ Done(g)
      BY <1>4 DEF SubmittedInDoubt
    <3> QED
      BY <1>1, <1>2, <3>1, MovesType, DoneType DEF Typed
  <2> QED
    BY <1>1, <2>1, <2>2, FrameAlbums DEF Typed
<1>5. CASE Admit(g) \/ TurnedDown(g) \/ NotSubmitted(g)
  <2>1. (Moves(g, "moderating") /\ UNCHANGED fates) \/ GivenUp(g) \/ Fails(g)
    BY <1>5 DEF Admit, TurnedDown, NotSubmitted
  <2>2. WorkOK' /\ FatesOK'
    BY <1>1, <1>2, <2>1, MovesType, GivenUpType, FailsType, FrameFates DEF Typed
  <2> QED
    BY <1>1, <2>2, FrameAlbums DEF Typed
<1> QED
  BY <1>3, <1>4, <1>5 DEF Submits

(* Every step keeps the types. *)
LEMMA TypedStep == Typed /\ [RefNext]_dialogueVars => Typed'
<1> SUFFICES ASSUME Typed, [RefNext]_dialogueVars PROVE Typed'
  OBVIOUS
<1>1. CASE ChooseModel \/ UNCHANGED refVars
  <2>1. UNCHANGED <<inbox, pending, albums, work, fates>> /\ chosen' \in BOOLEAN
    BY <1>1 DEF ChooseModel, refVars, Typed
  <2> QED
    BY <2>1, FrameAlbums, FrameWork, FrameFates DEF Typed
<1>2. CASE \E h \in Handlers : Arrives(h)
  BY <1>2, ArrivesType
<1>3. CASE \E p \in AlbumPhotos : Flushes(p)
  BY <1>3, FlushesType
<1>4. CASE \E g \in Goroutines : Goes(g)
  BY <1>4, PreparesType, SubmitsType DEF Goes
<1>5. CASE UNCHANGED dialogueVars
  BY <1>1, <1>5 DEF dialogueVars
<1> QED
  BY <1>1, <1>2, <1>3, <1>4, <1>5 DEF RefNext

-----------------------------------------------------------------------------
(* Where the photos are.                                                   *)

Pend    == InSeq(pending)
In(a)   == InSeq(group[a])
Has(g)  == InSeq(held[g])

Nowhere(p) ==
  p \notin Pend /\ (\A a \in Albums : p \notin In(a)) /\ (\A g \in Goroutines : p \notin Has(g))

(* A photo in the inbox is nowhere else and was not used, *)
Waits(p) ==
  p \in inbox => Nowhere(p) /\ used[p] = {} /\ (p \in AlbumPhotos => stage[p] = "idle")

(* one that is here is in one place, or about to be taken from the pending *)
(* ones,                                                                   *)
OnePlace(p) ==
  /\ \A a \in Albums : p \in In(a) =>
       /\ p \notin Pend
       /\ \A b \in Albums : p \in In(b) => a = b
       /\ \A g \in Goroutines : p \notin Has(g)
  /\ \A g \in Goroutines : p \in Has(g) =>
       /\ p \in Pend => stage[g] = "clearing"
       /\ \A h \in Goroutines : p \in Has(h) => g = h

(* and was not used, unless nobody knows. *)
Fresh(p) == Nowhere(p) \/ p \in doubtful \/ used[p] = {}

Once(p) == \A s, t \in used[p] : s = t

Accounted(p) == p \in inbox \/ ~Nowhere(p) \/ Settled(p)

Fine(p) == Waits(p) /\ OnePlace(p) /\ Fresh(p) /\ Once(p) /\ Accounted(p)

(* A goroutine that has nothing to do has no photos, *)
Resting == \A g \in Goroutines : stage[g] \in {"idle", "armed", "flushing"} => Has(g) = {}

(* and one that clears the pending photos has the same ones. *)
Clearing == \A g \in Goroutines : stage[g] = "clearing" => g \in Handlers /\ Has(g) = Pend

PlaceInv == (\A p \in Photos : Fine(p)) /\ Resting /\ Clearing

(* Without the gap nobody appends to the pending photos while a handler    *)
(* is about to clear them.                                                 *)
Gapless == "gap" \notin Mishaps

(* A goroutine goes on with the same photos. *)
LEMMA MovesPlace ==
  ASSUME PlaceInv, Typed, NEW g \in Goroutines, NEW n, Moves(g, n), n \notin {"idle", "clearing"},
         stage[g] \notin {"idle", "clearing"}, n \in {"armed", "flushing"} => stage[g] = "armed",
         UNCHANGED <<inbox, pending, group, fates>>
  PROVE  PlaceInv'
<1>1. /\ UNCHANGED <<held, used, told, doubtful>>
      /\ \A h \in Goroutines : stage'[h] = IF h = g THEN n ELSE stage[h]
  BY DEF Moves, fates, Typed, WorkOK
<1>2. Pend' = Pend /\ (\A a : In(a)' = In(a)) /\ (\A h : Has(h)' = Has(h))
  BY <1>1 DEF Pend, In, Has
<1>3. ASSUME NEW p \in Photos PROVE Fine(p)'
  <2>1. Fine(p)
    BY DEF PlaceInv
  <2>2. Nowhere(p)' <=> Nowhere(p)
    BY <1>2 DEF Nowhere
  <2>3. Waits(p)'
    BY <1>1, <2>1, <2>2, Messages DEF Fine, Waits
  <2>4. OnePlace(p)'
    BY <1>1, <1>2, <2>1 DEF Fine, OnePlace
  <2>5. Fresh(p)' /\ Once(p)' /\ Accounted(p)'
    BY <1>1, <2>1, <2>2 DEF Fine, Fresh, Once, Accounted, Settled
  <2> QED
    BY <2>3, <2>4, <2>5 DEF Fine
<1>4. Resting' /\ Clearing'
  BY <1>1, <1>2 DEF PlaceInv, Resting, Clearing
<1> QED
  BY <1>3, <1>4 DEF PlaceInv

(* A goroutine is done with its photos: each of them is settled. *)
LEMMA LeavesPlace ==
  ASSUME PlaceInv, Typed, NEW g \in Goroutines, Done(g), stage[g] \notin {"idle", "clearing"},
         UNCHANGED <<inbox, pending, group>>,
         \A p \in Has(g) : Settled(p)',
         told \subseteq told', doubtful \subseteq doubtful',
         \A p \in Photos \ Has(g) : used'[p] = used[p],
         \A p \in Photos : used'[p] = used[p] \/ (used[p] = {} /\ \E m : used'[p] = {m})
  PROVE  PlaceInv'
<1>1. \A h \in Goroutines : stage'[h] = IF h = g THEN "idle" ELSE stage[h]
  BY DEF Done, Begins, Typed, WorkOK
<1>2. Pend' = Pend /\ (\A a : In(a)' = In(a)) /\ \A h \in Goroutines : Has(h)' = IF h = g THEN {} ELSE Has(h)
  BY InSeqFacts DEF Pend, In, Has, Done, Begins, Typed, WorkOK
<1>3. ASSUME NEW p \in Photos PROVE Fine(p)'
  <2>1. Fine(p)
    BY DEF PlaceInv
  <2>2. Nowhere(p) => Nowhere(p)'
    BY <1>2 DEF Nowhere
  <2>3. ASSUME p \notin Has(g) PROVE Nowhere(p)' <=> Nowhere(p)
    BY <1>2, <2>3 DEF Nowhere
  <2>4. ASSUME p \in Has(g) PROVE Nowhere(p)'
    BY <1>2, <2>1, <2>4 DEF Nowhere, Fine, OnePlace
  <2>5. Waits(p)'
    <3>1. CASE p \in inbox
      <4>1. Nowhere(p) /\ used[p] = {} /\ (p \in AlbumPhotos => stage[p] = "idle")
        BY <2>1, <3>1 DEF Fine, Waits
      <4>2. p \notin Has(g)
        BY <4>1 DEF Nowhere
      <4>3. p \in AlbumPhotos => p \in Goroutines
        BY Messages
      <4> QED
        BY <1>1, <2>2, <4>1, <4>2, <4>3 DEF Waits
    <3>2. CASE p \notin inbox
      BY <3>2 DEF Waits
    <3> QED
      BY <3>1, <3>2
  <2>6. OnePlace(p)'
    BY <1>1, <1>2, <2>1 DEF Fine, OnePlace
  <2>7. Fresh(p)'
    BY <2>1, <2>2, <2>3, <2>4 DEF Fine, Fresh
  <2>8. Once(p)'
    BY <2>1 DEF Fine, Once
  <2>9. Accounted(p)'
    <3>1. CASE p \in Has(g)
      BY <3>1 DEF Accounted
    <3>2. CASE p \notin Has(g)
      BY <2>1, <2>3, <3>2 DEF Fine, Accounted, Settled
    <3> QED
      BY <3>1, <3>2
  <2> QED
    BY <2>5, <2>6, <2>7, <2>8, <2>9 DEF Fine
<1>4. Resting' /\ Clearing'
  BY <1>1, <1>2 DEF PlaceInv, Resting, Clearing
<1> QED
  BY <1>3, <1>4 DEF PlaceInv

(* A goroutine puts its photos back. *)
LEMMA PutsBack ==
  ASSUME Gapless, PlaceInv, Typed, NEW g \in Goroutines, Done(g), appendPendingReferences(held[g]),
         stage[g] \notin {"idle", "clearing"}, UNCHANGED <<inbox, group, fates>>
  PROVE  PlaceInv'
<1>1. /\ \A h \in Goroutines : stage'[h] = IF h = g THEN "idle" ELSE stage[h]
      /\ UNCHANGED <<used, told, doubtful>>
  BY DEF Done, Begins, Typed, WorkOK, fates
<1>2. Pend' = Pend \cup Has(g)
  BY AppendType DEF Pend, Has, Typed, WorkOK
<1>3. (\A a : In(a)' = In(a)) /\ \A h \in Goroutines : Has(h)' = IF h = g THEN {} ELSE Has(h)
  BY InSeqFacts DEF In, Has, Done, Begins, Typed, WorkOK
<1>4. \A h \in Goroutines : stage[h] # "clearing"
  BY DEF Gapless, appendPendingReferences, NoGap, PlaceInv, Clearing
<1>5. ASSUME NEW p \in Photos PROVE Fine(p)'
  <2>1. Fine(p)
    BY DEF PlaceInv
  <2>2. Nowhere(p)' <=> Nowhere(p)
    BY <1>2, <1>3 DEF Nowhere
  <2>3. Waits(p)'
    <3>1. p \in AlbumPhotos => p \in Goroutines
      BY Messages
    <3> QED
      BY <1>1, <2>1, <2>2, <3>1 DEF Fine, Waits
  <2>4. OnePlace(p)'
    BY <1>1, <1>2, <1>3, <1>4, <2>1 DEF Fine, OnePlace
  <2>5. Fresh(p)' /\ Once(p)' /\ Accounted(p)'
    BY <1>1, <2>1, <2>2 DEF Fine, Fresh, Once, Accounted, Settled
  <2> QED
    BY <2>3, <2>4, <2>5 DEF Fine
<1>6. Resting' /\ Clearing'
  BY <1>1, <1>3, <1>4 DEF PlaceInv, Resting, Clearing
<1> QED
  BY <1>5, <1>6 DEF PlaceInv

(* Photos that are given up are settled. *)
LEMMA GivenUpPlace ==
  ASSUME PlaceInv, Typed, NEW g \in Goroutines, GivenUp(g), stage[g] \notin {"idle", "clearing"},
         UNCHANGED <<inbox, pending, group>>
  PROVE  PlaceInv'
<1>1. /\ Done(g) /\ UNCHANGED <<used, doubtful>>
      /\ told' = told \cup {p \in Has(g) : used[p] = {} /\ p \notin doubtful}
  BY DEF GivenUp, Tells, Has
<1>2. Has(g) \subseteq Photos
  BY InSeqPhotos DEF Has, Typed, WorkOK
<1>3. \A p \in Has(g) : Settled(p)'
  BY <1>1 DEF Settled
<1> QED
  BY <1>1, <1>3, LeavesPlace

(* An error. *)
LEMMA FailsPlace ==
  ASSUME PlaceInv, Typed, NEW g \in Goroutines, Fails(g), stage[g] \notin {"idle", "clearing"},
         UNCHANGED <<inbox, pending, group>>
  PROVE  PlaceInv'
BY MovesPlace, GivenUpPlace DEF Fails

(* A message arrives. *)
LEMMA CollectPlace ==
  ASSUME PlaceInv, Typed, NEW h \in Handlers, NEW p \in Photos, collectMediaGroupPhoto(h, p)
  PROVE  PlaceInv'
<1> DEFINE a == AlbumOf[p]
<1>1. p \in AlbumPhotos /\ a \in Albums /\ p \in Goroutines /\ p \in inbox /\ inbox' = inbox \ {p}
  BY Messages DEF collectMediaGroupPhoto, Receives
<1>2. /\ group' = [group EXCEPT ![a] = Append(group[a], p)] /\ stage' = ResetTimer(p, a)
      /\ UNCHANGED <<pending, held, used, told, doubtful>>
  BY DEF collectMediaGroupPhoto, fates
<1> HIDE DEF a
<1>3. In(a)' = In(a) \cup {p} /\ \A b \in Albums : b # a => In(b)' = In(b)
  BY <1>1, <1>2, InSeqFacts DEF In, Typed, AlbumsOK
<1>4. Pend' = Pend /\ \A g : Has(g)' = Has(g)
  BY <1>2 DEF Pend, Has
<1>5. Nowhere(p) /\ used[p] = {} /\ stage[p] = "idle"
  BY <1>1 DEF PlaceInv, Fine, Waits
<1>6. \A g \in Goroutines :
        stage'[g] = IF g = p THEN "armed" ELSE IF g = timer[a] /\ stage[g] = "armed" THEN "idle" ELSE stage[g]
  BY <1>2 DEF ResetTimer
<1>7. ASSUME NEW q \in Photos PROVE Fine(q)'
  <2>1. Fine(q)
    BY DEF PlaceInv
  <2>2. CASE q = p
    <3>1. ~Nowhere(q)'
      BY <1>1, <1>3, <2>2 DEF Nowhere
    <3>2. OnePlace(q)'
      BY <1>3, <1>4, <1>5, <2>2 DEF OnePlace, Nowhere
    <3>3. used'[q] = {}
      BY <1>2, <1>5, <2>2
    <3>4. Waits(q)'
      BY <1>1, <2>2 DEF Waits
    <3> QED
      BY <3>1, <3>2, <3>3, <3>4 DEF Fine, Fresh, Once, Accounted
  <2>3. CASE q # p
    <3>1. \A b \in Albums : q \in In(b)' <=> q \in In(b)
      BY <1>3, <2>3
    <3>2. Nowhere(q)' <=> Nowhere(q)
      BY <1>4, <3>1 DEF Nowhere
    <3>3. Waits(q)'
      BY <1>1, <1>2, <1>6, <2>1, <2>3, <3>2, Messages DEF Fine, Waits
    <3>4. OnePlace(q)'
      BY <1>4, <1>5, <1>6, <2>1, <3>1 DEF Fine, OnePlace
    <3>5. Fresh(q)' /\ Once(q)' /\ Accounted(q)'
      BY <1>1, <1>2, <2>1, <2>3, <3>2 DEF Fine, Fresh, Once, Accounted, Settled
    <3> QED
      BY <3>3, <3>4, <3>5 DEF Fine
  <2> QED
    BY <2>2, <2>3
<1>8. Resting' /\ Clearing'
  BY <1>4, <1>5, <1>6 DEF PlaceInv, Resting, Clearing, Nowhere
<1> QED
  BY <1>7, <1>8 DEF PlaceInv

(* A photo without a caption is kept. *)
LEMMA KeepPlace ==
  ASSUME Gapless, PlaceInv, Typed, NEW h \in Handlers, NEW p \in Photos, KeepSingle(h, p)
  PROVE  PlaceInv'
<1>1. /\ p \in inbox /\ inbox' = inbox \ {p} /\ appendPendingReferences(<<p>>)
      /\ UNCHANGED <<group, stage, held, used, told, doubtful>>
  BY DEF KeepSingle, Receives, albums, work, fates
<1>2. Pend' = Pend \cup {p}
  BY <1>1, InSeqFacts, AppendType DEF Pend
<1>3. (\A a : In(a)' = In(a)) /\ \A g : Has(g)' = Has(g)
  BY <1>1 DEF In, Has
<1>4. Nowhere(p) /\ used[p] = {}
  BY <1>1 DEF PlaceInv, Fine, Waits
<1>5. \A g \in Goroutines : stage[g] # "clearing"
  BY <1>1 DEF Gapless, appendPendingReferences, NoGap, PlaceInv, Clearing
<1>6. ASSUME NEW q \in Photos PROVE Fine(q)'
  <2>1. Fine(q)
    BY DEF PlaceInv
  <2>2. CASE q = p
    <3>1. ~Nowhere(q)'
      BY <1>2, <2>2 DEF Nowhere
    <3>2. OnePlace(q)'
      BY <1>3, <1>4, <2>2 DEF OnePlace, Nowhere
    <3>3. used'[q] = {}
      BY <1>1, <1>4, <2>2
    <3>4. Waits(q)'
      BY <1>1, <2>2 DEF Waits
    <3> QED
      BY <3>1, <3>2, <3>3, <3>4 DEF Fine, Fresh, Once, Accounted
  <2>3. CASE q # p
    <3>1. q \in Pend' <=> q \in Pend
      BY <1>2, <2>3
    <3>2. Nowhere(q)' <=> Nowhere(q)
      BY <1>3, <3>1 DEF Nowhere
    <3>3. OnePlace(q)'
      BY <1>1, <1>3, <2>1, <3>1 DEF Fine, OnePlace
    <3>4. Waits(q)' /\ Fresh(q)' /\ Once(q)' /\ Accounted(q)'
      BY <1>1, <2>1, <2>3, <3>2 DEF Fine, Waits, Fresh, Once, Accounted, Settled
    <3> QED
      BY <3>3, <3>4 DEF Fine
  <2> QED
    BY <2>2, <2>3
<1>7. Resting' /\ Clearing'
  BY <1>1, <1>3, <1>5 DEF PlaceInv, Resting, Clearing
<1> QED
  BY <1>6, <1>7 DEF PlaceInv

(* A photo with a caption is a prompt. *)
LEMMA CaptionedPlace ==
  ASSUME PlaceInv, Typed, NEW h \in Handlers, NEW p \in Photos, TakeCaptioned(h, p)
  PROVE  PlaceInv'
<1>1. /\ p \in inbox /\ inbox' = inbox \ {p} /\ p \notin AlbumPhotos /\ h \in Goroutines /\ stage[h] = "idle"
      /\ Begins(h, "loading", <<p>>, p)
      /\ UNCHANGED <<pending, group, used, told, doubtful>>
  BY Messages DEF TakeCaptioned, Receives, albums, fates, Single
<1>2. Pend' = Pend /\ (\A a : In(a)' = In(a)) /\ \A g \in Goroutines : Has(g)' = IF g = h THEN {p} ELSE Has(g)
  BY <1>1, InSeqFacts DEF Pend, In, Has, Begins, Typed, WorkOK
<1>3. Nowhere(p) /\ used[p] = {} /\ Has(h) = {}
  BY <1>1 DEF PlaceInv, Fine, Waits, Resting
<1>4. \A g \in Goroutines : stage'[g] = IF g = h THEN "loading" ELSE stage[g]
  BY <1>1 DEF Begins, Typed, WorkOK
<1>5. ASSUME NEW q \in Photos PROVE Fine(q)'
  <2>1. Fine(q)
    BY DEF PlaceInv
  <2>2. CASE q = p
    <3>1. ~Nowhere(q)'
      BY <1>1, <1>2, <2>2 DEF Nowhere
    <3>2. OnePlace(q)'
      BY <1>2, <1>3, <2>2 DEF OnePlace, Nowhere
    <3>3. used'[q] = {}
      BY <1>1, <1>3, <2>2
    <3>4. Waits(q)'
      BY <1>1, <2>2 DEF Waits
    <3> QED
      BY <3>1, <3>2, <3>3, <3>4 DEF Fine, Fresh, Once, Accounted
  <2>3. CASE q # p
    <3>1. \A g \in Goroutines : q \in Has(g)' <=> q \in Has(g)
      BY <1>2, <1>3, <2>3
    <3>2. Nowhere(q)' <=> Nowhere(q)
      BY <1>2, <3>1 DEF Nowhere
    <3>3. OnePlace(q)'
      BY <1>2, <1>4, <1>3, <2>1, <3>1 DEF Fine, OnePlace
    <3>4. Waits(q)'
      <4>1. q \in AlbumPhotos => q \in Goroutines /\ q # h
        BY Messages
      <4> QED
        BY <1>1, <1>4, <2>1, <2>3, <3>2, <4>1 DEF Fine, Waits
    <3>5. Fresh(q)' /\ Once(q)' /\ Accounted(q)'
      BY <1>1, <2>1, <2>3, <3>2 DEF Fine, Fresh, Once, Accounted, Settled
    <3> QED
      BY <3>3, <3>4, <3>5 DEF Fine
  <2> QED
    BY <2>2, <2>3
<1>6. Resting' /\ Clearing'
  BY <1>2, <1>4 DEF PlaceInv, Resting, Clearing
<1> QED
  BY <1>5, <1>6 DEF PlaceInv

(* A text is about to take the pending photos. *)
LEMMA TextPlace ==
  ASSUME Gapless, PlaceInv, Typed, NEW h \in Handlers, NEW t \in Texts, TakeText(h, t)
  PROVE  PlaceInv'
<1>1. /\ inbox' = inbox \ {t} /\ t \notin Photos /\ h \in Goroutines /\ stage[h] = "idle" /\ h \notin AlbumPhotos
      /\ UNCHANGED <<pending, group, used, told, doubtful>>
  BY Messages DEF TakeText, Receives, albums, fates
<1>2. Pend' = Pend /\ (\A a : In(a)' = In(a)) /\ Has(h) = {}
  BY <1>1 DEF Pend, In, PlaceInv, Resting
<1>3. CASE UNCHANGED work
  <2>1. UNCHANGED stage /\ \A g : Has(g)' = Has(g)
    BY <1>3 DEF work, Has
  <2>2. ASSUME NEW q \in Photos PROVE Fine(q)'
    <3>1. Fine(q) /\ (q \in inbox' <=> q \in inbox) /\ (Nowhere(q)' <=> Nowhere(q))
      BY <1>1, <1>2, <2>1 DEF PlaceInv, Nowhere
    <3> QED
      BY <1>1, <1>2, <2>1, <3>1 DEF Fine, Waits, OnePlace, Fresh, Once, Accounted, Settled
  <2> QED
    BY <1>2, <2>1, <2>2 DEF PlaceInv, Resting, Clearing
<1>4. CASE \E n \in {"admitting", "clearing"} :
             /\ n = "admitting" => pending = <<>>
             /\ NoGap /\ Begins(h, n, pending, t)
  <2>1. PICK n \in {"admitting", "clearing"} :
          (n = "admitting" => pending = <<>>) /\ NoGap /\ Begins(h, n, pending, t)
    BY <1>4
  <2>2. /\ \A g \in Goroutines : Has(g)' = IF g = h THEN Pend ELSE Has(g)
        /\ \A g \in Goroutines : stage'[g] = IF g = h THEN n ELSE stage[g]
    BY <1>1, <2>1 DEF Has, Pend, Begins, Typed, WorkOK
  <2>3. \A g \in Goroutines : stage[g] # "clearing"
    BY <2>1 DEF Gapless, NoGap, PlaceInv, Clearing
  <2>4. n = "admitting" => Pend = {}
    BY <2>1, InSeqFacts DEF Pend
  <2>5. ASSUME NEW q \in Photos PROVE Fine(q)'
    <3>1. Fine(q) /\ (q \in inbox' <=> q \in inbox)
      BY <1>1 DEF PlaceInv
    <3>2. Nowhere(q)' <=> Nowhere(q)
      BY <1>1, <1>2, <2>2 DEF Nowhere
    <3>3. Waits(q)'
      <4>1. q \in AlbumPhotos => q \in Goroutines /\ q # h
        BY <1>1, Messages
      <4> QED
        BY <1>1, <2>2, <3>1, <3>2, <4>1 DEF Fine, Waits
    <3>4. OnePlace(q)'
      BY <1>1, <1>2, <2>2, <2>3, <2>4, <3>1 DEF Fine, OnePlace
    <3>5. Fresh(q)' /\ Once(q)' /\ Accounted(q)'
      BY <1>1, <3>1, <3>2 DEF Fine, Fresh, Once, Accounted, Settled
    <3> QED
      BY <3>3, <3>4, <3>5 DEF Fine
  <2>6. Resting' /\ Clearing'
    BY <1>1, <1>2, <2>2, <2>3 DEF PlaceInv, Resting, Clearing
  <2> QED
    BY <2>5, <2>6 DEF PlaceInv
<1> QED
  BY <1>3, <1>4 DEF TakeText

(* The pending photos are cleared, the handler has them. *)
LEMMA ClearPlace ==
  ASSUME PlaceInv, Typed, NEW h \in Goroutines, ClearPending(h)
  PROVE  PlaceInv'
<1>1. stage[h] = "clearing" /\ UNCHANGED <<inbox, group, held, used, told, doubtful>>
  BY DEF ClearPending, Moves, albums, fates
<1>2. /\ Pend' = {} /\ (\A a : In(a)' = In(a)) /\ (\A g : Has(g)' = Has(g))
      /\ \A g \in Goroutines : stage'[g] = IF g = h THEN "loading" ELSE stage[g]
  BY <1>1, InSeqFacts DEF Pend, In, Has, ClearPending, Moves, Typed, WorkOK
<1>3. Has(h) = Pend /\ h \in Handlers
  BY <1>1 DEF PlaceInv, Clearing
<1>4. ASSUME NEW q \in Photos PROVE Fine(q)'
  <2>1. Fine(q)
    BY DEF PlaceInv
  <2>2. Nowhere(q)' <=> Nowhere(q)
    BY <1>2, <1>3 DEF Nowhere
  <2>3. Waits(q)'
    BY <1>1, <1>2, <1>3, <2>1, <2>2, Messages DEF Fine, Waits
  <2>4. OnePlace(q)'
    BY <1>2, <2>1 DEF Fine, OnePlace
  <2>5. Fresh(q)' /\ Once(q)' /\ Accounted(q)'
    BY <1>1, <2>1, <2>2 DEF Fine, Fresh, Once, Accounted, Settled
  <2> QED
    BY <2>3, <2>4, <2>5 DEF Fine
<1>5. Resting'
  BY <1>2 DEF PlaceInv, Resting
<1>6. Clearing'
  <2> SUFFICES ASSUME NEW g \in Goroutines, g # h, stage[g] = "clearing" PROVE g \in Handlers /\ Has(g) = {}
    BY <1>2 DEF Clearing
  <2>1. g \in Handlers /\ Has(g) = Has(h)
    BY <1>3 DEF PlaceInv, Clearing
  <2>2. Has(g) \subseteq Photos
    BY InSeqPhotos DEF Has, Typed, WorkOK
  <2> QED
    BY <2>1, <2>2 DEF PlaceInv, Fine, OnePlace
<1> QED
  BY <1>4, <1>5, <1>6 DEF PlaceInv

(* The album is taken out of its map. *)
LEMMA GroupPlace ==
  ASSUME PlaceInv, Typed, NEW p \in AlbumPhotos, TakeGroup(p)
  PROVE  PlaceInv'
<1> DEFINE a == AlbumOf[p]
<1>1. p \in Goroutines /\ a \in Albums /\ stage[p] = "flushing" /\ Has(p) = {}
  BY Messages DEF TakeGroup, PlaceInv, Resting
<1>2. /\ group' = [group EXCEPT ![a] = <<>>] /\ UNCHANGED <<inbox, pending, used, told, doubtful>>
      /\ \/ group[a] = <<>> /\ Begins(p, "idle", group[a], None)
         \/ \E n \in {"keeping", "loading"} : Begins(p, n, group[a], caption[a])
  BY DEF TakeGroup, Done, fates
<1> HIDE DEF a
<1>3. /\ Pend' = Pend
      /\ \A b \in Albums : In(b)' = IF b = a THEN {} ELSE In(b)
      /\ \A g \in Goroutines : Has(g)' = IF g = p THEN In(a) ELSE Has(g)
  BY <1>1, <1>2, InSeqFacts DEF Pend, In, Has, Begins, Typed, AlbumsOK, WorkOK
<1>4. PICK n \in {"idle", "keeping", "loading"} :
        /\ \A g \in Goroutines : stage'[g] = IF g = p THEN n ELSE stage[g]
        /\ n = "idle" => In(a) = {}
  BY <1>1, <1>2, InSeqFacts DEF Begins, In, Typed, WorkOK
<1>5. ASSUME NEW q \in Photos PROVE Fine(q)'
  <2>1. Fine(q)
    BY DEF PlaceInv
  <2>2. Nowhere(q)' <=> Nowhere(q)
    BY <1>1, <1>3 DEF Nowhere
  <2>3. Waits(q)'
    BY <1>1, <1>2, <1>4, <2>1, <2>2, Messages DEF Fine, Waits
  <2>4. OnePlace(q)'
    BY <1>1, <1>3, <1>4, <2>1 DEF Fine, OnePlace
  <2>5. Fresh(q)' /\ Once(q)' /\ Accounted(q)'
    BY <1>2, <2>1, <2>2 DEF Fine, Fresh, Once, Accounted, Settled
  <2> QED
    BY <2>3, <2>4, <2>5 DEF Fine
<1>6. Resting' /\ Clearing'
  BY <1>1, <1>3, <1>4 DEF PlaceInv, Resting, Clearing
<1> QED
  BY <1>5, <1>6 DEF PlaceInv

(* A goroutine prepares a prompt, or puts photos back. *)
LEMMA PreparesPlace ==
  ASSUME Gapless, PlaceInv, Typed, NEW g \in Goroutines, Prepares(g)
  PROVE  PlaceInv'
<1>1. CASE ClearPending(g)
  BY <1>1, ClearPlace
<1>2. CASE KeepGroup(g) \/ Restore(g)
  <2>1. /\ stage[g] \in {"keeping", "restoring"} /\ appendPendingReferences(held[g]) /\ Done(g)
        /\ UNCHANGED <<inbox, group, fates>>
    BY <1>2 DEF KeepGroup, Restore, albums
  <2> QED
    BY <2>1, PutsBack
<1>3. CASE LoadSession(g)
  <2>1. stage[g] = "loading" /\ UNCHANGED <<inbox, group>>
    BY <1>3 DEF LoadSession, albums
  <2>2. \/ Moves(g, "encoding") /\ UNCHANGED <<pending, fates>>
        \/ appendPendingReferences(held[g]) /\ Done(g) /\ UNCHANGED fates
        \/ Fails(g) /\ UNCHANGED pending
    BY <1>3 DEF LoadSession
  <2> QED
    BY <2>1, <2>2, MovesPlace, PutsBack, FailsPlace
<1>4. CASE Encode(g) \/ Moderate(g)
  <2>1. stage[g] \in {"encoding", "moderating"} /\ UNCHANGED <<inbox, pending, group>>
    BY <1>4 DEF Encode, Moderate, albums
  <2>2. \/ \E n \in {"admitting", "submitting"} : Moves(g, n) /\ UNCHANGED fates
        \/ GivenUp(g) \/ Fails(g)
    BY <1>4 DEF Encode, Moderate
  <2> QED
    BY <2>1, <2>2, MovesPlace, GivenUpPlace, FailsPlace
<1> QED
  BY <1>1, <1>2, <1>3, <1>4 DEF Prepares

(* A goroutine passes the limiter and submits. *)
LEMMA SubmitsPlace ==
  ASSUME PlaceInv, Typed, NEW g \in Goroutines, Admit(g) \/ Submits(g)
  PROVE  PlaceInv'
<1>1. stage[g] \in {"admitting", "submitting"} /\ UNCHANGED <<inbox, pending, group>>
  BY DEF Admit, Submits, Accepted, TurnedDown, NotSubmitted, SubmittedInDoubt, albums
<1>2. Has(g) \subseteq Photos
  BY InSeqPhotos DEF Has, Typed, WorkOK
<1>3. CASE Accepted(g)
  <2>1. /\ Done(g) /\ UNCHANGED doubtful /\ Uses(g)
        /\ told' = told \cup {p \in Has(g) \ referenceFileIDs(g) : used[p] = {} /\ p \notin doubtful}
    BY <1>3 DEF Accepted, Tells, Has
  <2>2. referenceFileIDs(g) \subseteq Has(g)
    BY TypedIsTypeOK, UsedAreHeld DEF Has
  <2>3. \A p \in Photos :
          used'[p] = IF p \in referenceFileIDs(g) \ doubtful THEN used[p] \cup {prompt[g]} ELSE used[p]
    BY <2>1 DEF Uses
  <2>4. \A p \in Has(g) : p \in doubtful \/ used[p] = {}
    BY <1>2 DEF PlaceInv, Fine, Fresh, Nowhere
  <2>5. \A p \in Has(g) : Settled(p)'
    BY <1>2, <2>1, <2>3, <2>4 DEF Settled
  <2>6. \A p \in Photos : used'[p] = used[p] \/ (used[p] = {} /\ \E m : used'[p] = {m})
    BY <2>2, <2>3, <2>4
  <2>7. \A p \in Photos \ Has(g) : used'[p] = used[p]
    BY <2>2, <2>3
  <2> QED
    BY <1>1, <2>1, <2>5, <2>6, <2>7, LeavesPlace
<1>4. CASE SubmittedInDoubt(g)
  <2>1. doubtful' = doubtful \cup Has(g) /\ UNCHANGED <<used, told>>
    BY <1>4 DEF SubmittedInDoubt, Has
  <2>2. CASE Done(g)
    BY <1>1, <2>1, <2>2, LeavesPlace DEF Settled
  <2>3. CASE Moves(g, "restoring")
    <3>1. /\ UNCHANGED held /\ \A h \in Goroutines : stage'[h] = IF h = g THEN "restoring" ELSE stage[h]
      BY <2>3 DEF Moves, Typed, WorkOK
    <3>2. Pend' = Pend /\ (\A a : In(a)' = In(a)) /\ (\A h : Has(h)' = Has(h))
      BY <1>1, <3>1 DEF Pend, In, Has
    <3>3. ASSUME NEW p \in Photos PROVE Fine(p)'
      <4>1. Fine(p) /\ (Nowhere(p)' <=> Nowhere(p))
        BY <3>2 DEF PlaceInv, Nowhere
      <4>2. Waits(p)'
        BY <1>1, <2>1, <3>1, <4>1, Messages DEF Fine, Waits
      <4>3. OnePlace(p)'
        BY <1>1, <3>1, <3>2, <4>1 DEF Fine, OnePlace
      <4>4. Fresh(p)' /\ Once(p)' /\ Accounted(p)'
        BY <1>1, <2>1, <4>1 DEF Fine, Fresh, Once, Accounted, Settled
      <4> QED
        BY <4>2, <4>3, <4>4 DEF Fine
    <3>4. Resting' /\ Clearing'
      BY <1>1, <3>1, <3>2 DEF PlaceInv, Resting, Clearing
    <3> QED
      BY <3>3, <3>4 DEF PlaceInv
  <2> QED
    BY <1>4, <2>2, <2>3 DEF SubmittedInDoubt
<1>5. CASE Admit(g) \/ TurnedDown(g) \/ NotSubmitted(g)
  <2>1. (Moves(g, "moderating") /\ UNCHANGED fates) \/ GivenUp(g) \/ Fails(g)
    BY <1>5 DEF Admit, TurnedDown, NotSubmitted
  <2> QED
    BY <1>1, <2>1, MovesPlace, GivenUpPlace, FailsPlace
<1> QED
  BY <1>3, <1>4, <1>5 DEF Submits

(* Every step leaves every photo where it is known to be. *)
LEMMA PlaceStep == Gapless /\ PlaceInv /\ Typed /\ [RefNext]_dialogueVars => PlaceInv'
<1> SUFFICES ASSUME Gapless, PlaceInv, Typed, [RefNext]_dialogueVars PROVE PlaceInv'
  OBVIOUS
<1>1. CASE ChooseModel \/ UNCHANGED refVars
  <2>1. UNCHANGED <<inbox, pending, group, stage, held, used, told, doubtful>>
    BY <1>1 DEF ChooseModel, refVars, albums, work, fates
  <2>2. Pend' = Pend /\ (\A a : In(a)' = In(a)) /\ (\A g : Has(g)' = Has(g))
    BY <2>1 DEF Pend, In, Has
  <2>3. \A p \in Photos : Fine(p)'
    BY <2>1, <2>2 DEF PlaceInv, Fine, Waits, OnePlace, Fresh, Once, Accounted, Nowhere, Settled
  <2> QED
    BY <2>1, <2>2, <2>3 DEF PlaceInv, Resting, Clearing
<1>2. CASE \E h \in Handlers : Arrives(h)
  BY <1>2, CollectPlace, KeepPlace, CaptionedPlace, TextPlace DEF Arrives
<1>3. CASE \E p \in AlbumPhotos : Flushes(p)
  <2>1. PICK p \in AlbumPhotos : Flushes(p)
    BY <1>3
  <2>2. CASE Fire(p)
    <3>1. stage[p] = "armed" /\ Moves(p, "flushing") /\ UNCHANGED <<inbox, pending, group, fates>>
      BY <2>2 DEF Fire, albums
    <3> QED
      BY <3>1, MovesPlace, Messages
  <2>3. CASE TakeGroup(p)
    BY <2>3, GroupPlace
  <2> QED
    BY <2>1, <2>2, <2>3 DEF Flushes
<1>4. CASE \E g \in Goroutines : Goes(g)
  BY <1>4, PreparesPlace, SubmitsPlace DEF Goes
<1>5. CASE UNCHANGED dialogueVars
  BY <1>1, <1>5 DEF dialogueVars
<1> QED
  BY <1>1, <1>2, <1>3, <1>4, <1>5 DEF RefNext

-----------------------------------------------------------------------------
(* The timers of the albums.                                               *)

Ticking == {"armed", "flushing"}

(* The timer that an entry names is one of its album, and it is to fire or *)
(* to flush as long as there are photos.                                   *)
TimerKnown(a) ==
  /\ timer[a] # None => timer[a] \in AlbumPhotos /\ AlbumOf[timer[a]] = a
  /\ group[a] # <<>> => timer[a] # None /\ stage[timer[a]] \in Ticking

TimerInv == \A a \in Albums : TimerKnown(a)

(* An album without a timer has no photos. *)
LEMMA TimerTends == TimerInv => \A a \in Albums : group[a] # <<>> => Tended(a)
BY DEF TimerInv, TimerKnown, Tended, Ticking

(* A step at another stage does not disturb a timer. *)
LEMMA TimerFrame ==
  ASSUME TimerInv, UNCHANGED <<group, timer>>,
         \A p \in AlbumPhotos : stage[p] \in Ticking => stage'[p] \in Ticking
  PROVE  TimerInv'
BY DEF TimerInv, TimerKnown

(* A photo comes: its own album has a new timer, *)
LEMMA CollectTimer ==
  ASSUME TimerInv, Typed, NEW h \in Handlers, NEW p \in Photos, collectMediaGroupPhoto(h, p)
  PROVE  TimerInv'
<1> DEFINE a == AlbumOf[p]
<1>1. p \in AlbumPhotos /\ p \in Goroutines /\ a \in Albums /\ p # None
  BY Messages DEF collectMediaGroupPhoto
<1>2. /\ timer' = [timer EXCEPT ![a] = p] /\ group' = [group EXCEPT ![a] = Append(@, p)]
      /\ stage' = ResetTimer(p, a)
  BY DEF collectMediaGroupPhoto
<1>3. a = AlbumOf[p]
  OBVIOUS
<1> HIDE DEF a
<1>4. TimerKnown(a)'
  <2>1. timer'[a] = p /\ stage'[p] = "armed"
    BY <1>1, <1>2 DEF Typed, AlbumsOK, ResetTimer
  <2> QED
    BY <1>1, <1>3, <2>1 DEF TimerKnown, Ticking
<1>5. ASSUME NEW b \in Albums, b # a PROVE TimerKnown(b)'
  <2>1. timer'[b] = timer[b] /\ group'[b] = group[b]
    BY <1>2, <1>5 DEF Typed, AlbumsOK
  <2>2. TimerKnown(a) /\ TimerKnown(b)
    BY <1>1 DEF TimerInv
  <2>3. ASSUME timer[b] # None PROVE stage'[timer[b]] = stage[timer[b]]
    <3>1. timer[b] \in Goroutines /\ timer[b] # p /\ timer[b] # timer[a]
      BY <1>3, <1>5, <2>2, <2>3, Messages DEF TimerKnown
    <3> QED
      BY <1>2, <3>1 DEF ResetTimer
  <2> QED
    BY <2>1, <2>2, <2>3 DEF TimerKnown
<1> QED
  BY <1>4, <1>5 DEF TimerInv

(* and a callback leaves no photos in it. *)
LEMMA GroupTimer ==
  ASSUME TimerInv, Typed, NEW p \in AlbumPhotos, TakeGroup(p)
  PROVE  TimerInv'
<1> DEFINE a == AlbumOf[p]
<1>1. p \in Goroutines /\ a \in Albums
  BY Messages
<1>2. /\ timer' = [timer EXCEPT ![a] = None] /\ group' = [group EXCEPT ![a] = <<>>]
      /\ \E n, s, m : Begins(p, n, s, m)
  BY DEF TakeGroup, Done
<1>3. a = AlbumOf[p]
  OBVIOUS
<1> HIDE DEF a
<1>4. TimerKnown(a)'
  <2>1. timer'[a] = None /\ group'[a] = <<>>
    BY <1>1, <1>2 DEF Typed, AlbumsOK
  <2> QED
    BY <2>1 DEF TimerKnown
<1>5. ASSUME NEW b \in Albums, b # a PROVE TimerKnown(b)'
  <2>1. timer'[b] = timer[b] /\ group'[b] = group[b]
    BY <1>2, <1>5 DEF Typed, AlbumsOK
  <2>2. TimerKnown(b)
    BY DEF TimerInv
  <2>3. ASSUME timer[b] # None PROVE stage'[timer[b]] = stage[timer[b]]
    <3>1. timer[b] \in Goroutines /\ timer[b] # p
      BY <1>3, <1>5, <2>2, <2>3, Messages DEF TimerKnown
    <3> QED
      BY <1>2, <3>1 DEF Begins, Typed, WorkOK
  <2> QED
    BY <2>1, <2>2, <2>3 DEF TimerKnown
<1> QED
  BY <1>4, <1>5 DEF TimerInv

(* A goroutine at work is no timer. *)
LEMMA WorkTimer ==
  ASSUME TimerInv, Typed, NEW g \in Goroutines, stage[g] \notin Ticking,
         UNCHANGED <<group, timer>>,
         UNCHANGED work \/ (\E n : Moves(g, n)) \/ (\E n, s, m : Begins(g, n, s, m))
  PROVE  TimerInv'
<1>1. \A p \in Goroutines : p # g => stage'[p] = stage[p]
  BY DEF work, Moves, Begins, Typed, WorkOK
<1>2. \A p \in AlbumPhotos : p \in Goroutines
  BY Messages
<1> QED
  BY <1>1, <1>2, TimerFrame

(* No step leaves an album alone. *)
LEMMA TimerStep == TimerInv /\ Typed /\ [RefNext]_dialogueVars => TimerInv'
<1> SUFFICES ASSUME TimerInv, Typed, [RefNext]_dialogueVars PROVE TimerInv'
  OBVIOUS
<1>1. CASE ChooseModel \/ UNCHANGED refVars \/ UNCHANGED dialogueVars
  <2>1. UNCHANGED <<group, timer, stage>>
    BY <1>1 DEF ChooseModel, dialogueVars, refVars, albums, work
  <2> QED
    BY <2>1, TimerFrame
<1>2. ASSUME NEW h \in Handlers, Arrives(h) PROVE TimerInv'
  <2>1. h \in Goroutines
    BY Messages
  <2>2. ASSUME NEW p \in Photos, KeepSingle(h, p) \/ TakeCaptioned(h, p) PROVE TimerInv'
    <3>1. /\ stage[h] \notin Ticking /\ UNCHANGED <<group, timer>>
          /\ UNCHANGED work \/ \E n, s, m : Begins(h, n, s, m)
      BY <2>2 DEF KeepSingle, TakeCaptioned, Receives, albums, Ticking
    <3> QED
      BY <2>1, <3>1, WorkTimer
  <2>3. ASSUME NEW t \in Texts, TakeText(h, t) PROVE TimerInv'
    <3>1. /\ stage[h] \notin Ticking /\ UNCHANGED <<group, timer>>
          /\ UNCHANGED work \/ \E n, s, m : Begins(h, n, s, m)
      BY <2>3 DEF TakeText, Receives, albums, Ticking
    <3> QED
      BY <2>1, <3>1, WorkTimer
  <2> QED
    BY <1>2, <2>2, <2>3, CollectTimer DEF Arrives
<1>3. ASSUME NEW p \in AlbumPhotos, Flushes(p) PROVE TimerInv'
  <2>1. ASSUME Fire(p) PROVE TimerInv'
    <3>1. UNCHANGED <<group, timer>> /\ Moves(p, "flushing")
      BY <2>1 DEF Fire, albums
    <3>2. \A q \in AlbumPhotos : q \in Goroutines
      BY Messages
    <3>3. \A q \in AlbumPhotos : stage[q] \in Ticking => stage'[q] \in Ticking
      BY <3>1, <3>2 DEF Moves, Ticking, Typed, WorkOK
    <3> QED
      BY <3>1, <3>3, TimerFrame
  <2> QED
    BY <1>3, <2>1, GroupTimer DEF Flushes
<1>4. ASSUME NEW g \in Goroutines, Goes(g) PROVE TimerInv'
  <2>1. stage[g] \notin Ticking
    BY <1>4
    DEF Goes, Prepares, ClearPending, KeepGroup, LoadSession, Encode, Moderate, Restore, Admit,
        Submits, Accepted, TurnedDown, NotSubmitted, SubmittedInDoubt, Ticking
  <2>2. UNCHANGED <<group, timer>>
    BY <1>4
    DEF Goes, Prepares, ClearPending, KeepGroup, LoadSession, Encode, Moderate, Restore, Admit,
        Submits, Accepted, TurnedDown, NotSubmitted, SubmittedInDoubt, albums
  <2>3. Fails(g) \/ GivenUp(g) \/ Done(g) => (\E n : Moves(g, n)) \/ (\E n, s, m : Begins(g, n, s, m))
    BY DEF Fails, GivenUp, Done
  <2>4. (\E n : Moves(g, n)) \/ (\E n, s, m : Begins(g, n, s, m))
    BY <1>4, <2>3
    DEF Goes, Prepares, ClearPending, KeepGroup, LoadSession, Encode, Moderate, Restore, Admit,
        Submits, Accepted, TurnedDown, NotSubmitted, SubmittedInDoubt
  <2> QED
    BY <2>1, <2>2, <2>4, WorkTimer
<1> QED
  BY <1>1, <1>2, <1>3, <1>4 DEF RefNext

-----------------------------------------------------------------------------
(* The theorems.                                                           *)

(* At the start every message is in the inbox. *)
LEMMA Initially == RefInit => Typed /\ PlaceInv /\ LimiterInv
<1> SUFFICES ASSUME RefInit PROVE Typed /\ PlaceInv /\ LimiterInv
  OBVIOUS
<1>1. Typed
  <2>1. <<>> \in Seq(Photos)
    OBVIOUS
  <2>2. AlbumsOK
    BY <2>1 DEF RefInit, AlbumsOK
  <2>3. WorkOK
    BY <2>1 DEF RefInit, WorkOK, PromptKnown, Prompted, DialogueStages
  <2>4. FatesOK
    BY DEF RefInit, FatesOK
  <2> QED
    BY <2>1, <2>2, <2>3, <2>4 DEF RefInit, Typed
<1>2. Pend = {} /\ (\A a \in Albums : In(a) = {}) /\ (\A g \in Goroutines : Has(g) = {})
  BY InSeqFacts DEF RefInit, Pend, In, Has
<1>3. ASSUME NEW p \in Photos PROVE Fine(p)
  BY <1>2, Messages DEF RefInit, Fine, Waits, OnePlace, Fresh, Once, Accounted, Nowhere
<1>4. PlaceInv
  BY <1>2, <1>3 DEF RefInit, PlaceInv, Resting, Clearing
<1> QED
  BY <1>1, <1>4, LimiterStarts DEF RefInit

(* Types, for any photos, texts, albums, handlers and mishaps. *)
THEOREM ReferencesTyped == RefSpec => []RefTypeOK
<1>1. RefInit => Typed
  BY Initially
<1> QED
  BY <1>1, TypedStep, TypedIsTypeOK, PTL DEF RefSpec

(* The generations that the limiter lets through in all dialogues stay     *)
(* within the rate, for any burst, refill and interval.                    *)
THEOREM RateIsKept == RefSpec => []RateKept
<1>1. RefInit => LimiterInv
  BY Initially
<1>2. [RefNext]_dialogueVars => [LimiterNext]_limiterVars
  <2>1. ASSUME NEW g, Goes(g) PROVE LimiterNext \/ UNCHANGED limiterVars
    BY <2>1 DEF Goes, Prepares, Submits, Admit, LimiterNext
  <2>2. ChooseModel => UNCHANGED limiterVars
    BY DEF ChooseModel
  <2>3. \A h : Arrives(h) \/ Flushes(h) => UNCHANGED limiterVars
    BY DEF Arrives, Flushes
  <2>4. UNCHANGED dialogueVars => UNCHANGED limiterVars
    BY DEF dialogueVars
  <2> QED
    BY <2>1, <2>2, <2>3, <2>4 DEF RefNext, LimiterNext
<1> QED
  BY <1>1, <1>2, LimiterStep, LimiterInvKeepsRate, PTL DEF RefSpec

(* Without the gap the places are as described in every reachable state. *)
THEOREM PlacesKnown == Gapless /\ RefSpec => [](Typed /\ PlaceInv)
<1>1. RefInit => Typed /\ PlaceInv
  BY Initially
<1>2. Gapless /\ Typed /\ PlaceInv /\ [RefNext]_dialogueVars => Typed' /\ PlaceInv'
  BY TypedStep, PlaceStep
<1>3. Gapless => Gapless'
  BY DEF Gapless
<1> QED
  BY <1>1, <1>2, <1>3, PTL DEF RefSpec

(* No photo goes with two prompts, if no message comes between reading and *)
(* clearing the pending photos: whatever else fails, and however timers    *)
(* and texts interleave.                                                   *)
THEOREM PhotosGoOnce == Gapless /\ RefSpec => []PhotoOnce
<1>1. PlaceInv => PhotoOnce
  BY DEF PlaceInv, Fine, Once, PhotoOnce
<1> QED
  BY PlacesKnown, <1>1, PTL

(* No album is left without a callback, with the gap and without it. *)
LEMMA TimersKnown == RefSpec => [](Typed /\ TimerInv)
<1>1. RefInit => Typed /\ TimerInv
  BY Initially DEF RefInit, TimerInv, TimerKnown
<1> QED
  BY <1>1, TypedStep, TimerStep, PTL DEF RefSpec

(* Nor does a photo get lost: who has it is at work, and an album with     *)
(* photos has a callback that is going to take them.                       *)
THEOREM PhotosAreAccounted == Gapless /\ RefSpec => []PhotoAccounted
<1>1. PlaceInv /\ TimerInv => PhotoAccounted
  <2> SUFFICES ASSUME PlaceInv, TimerInv, NEW p \in Photos \ inbox, ~Settled(p) PROVE Kept(p)
    BY DEF PhotoAccounted
  <2>1. ~Nowhere(p)
    BY DEF PlaceInv, Fine, Accounted
  <2>2. ASSUME NEW a \in Albums, p \in In(a) PROVE Tended(a)
    <3>1. group[a] # <<>>
      BY <2>2, InSeqFacts DEF In
    <3> QED
      BY <3>1, TimerTends
  <2>3. ASSUME NEW g \in Goroutines, p \in Has(g) PROVE stage[g] # "idle"
    BY <2>3 DEF PlaceInv, Resting
  <2> QED
    BY <2>1, <2>2, <2>3 DEF Nowhere, Kept, Pend, In, Has
<1> QED
  BY PlacesKnown, TimersKnown, <1>1, PTL
=============================================================================
