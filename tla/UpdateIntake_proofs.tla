------------------------ MODULE UpdateIntake_proofs ------------------------
(***************************************************************************)
(* Proofs about UpdateIntake, for any number of updates, servers, workers  *)
(* and places in the queue.                                                *)
(***************************************************************************)
EXTENDS UpdateIntake, TLAPS

(* What an update that somebody works on, or that is queued, looks like in *)
(* the table: BeginUpdateProcessing does not begin it again.               *)
Safe(u) == row[u] \in {"processing", "done"} /\ u \notin stale

HandsSafe == \A a \in Actors : on[a] # NoUpdate => Safe(on[a])

QueueSafe == \A i \in 1 .. Len(jobs) : Safe(jobs[i])

InOneHand == \A a, b \in Actors : on[a] = on[b] /\ on[a] # NoUpdate => a = b

NotInHand == \A a \in Actors, i \in 1 .. Len(jobs) : jobs[i] # on[a]

QueuedOnce == \A i, j \in 1 .. Len(jobs) : jobs[i] = jobs[j] => i = j

Leased == HandsSafe /\ QueueSafe /\ InOneHand /\ NotInHand /\ QueuedOnce

(* A goroutine that marks a row as done has handled it. *)
MarksServed == \A a \in Actors : pc[a] = "marking done" => on[a] \in served

IInv ==
  /\ TypeOK
  /\ "slow" \notin Faults => Leased
  /\ MarksServed
  /\ DoneIsServed

-----------------------------------------------------------------------------
(* The types.                                                              *)

TableOK == row \in [Updates -> RowStatus] /\ stale \subseteq Updates

SetsOK == unanswered \subseteq Updates /\ served \subseteq Updates

QueueOK == jobs \in Seq(Updates) /\ Len(jobs) <= QueueSize /\ stopped \in BOOLEAN

HandsOK ==
  /\ pc \in [Actors -> Stages]
  /\ on \in [Actors -> Updates \cup {NoUpdate}]
  /\ \A a \in Actors : pc[a] = "idle" <=> on[a] = NoUpdate

ModeOK == mode \in {"up", "draining", "stopping", "down"}

(* TypeOK, part by part. *)
LEMMA Parts == TypeOK <=> TableOK /\ SetsOK /\ QueueOK /\ HandsOK /\ ModeOK
  BY DEF TypeOK, TableOK, SetsOK, QueueOK, HandsOK, ModeOK

(* What the proofs need of the constants. *)
LEMMA Constants == NoUpdate \notin Updates /\ QueueSize \in Nat \ {0}
  BY ConstantsAssumption, QueueSizeAssumption

(* Where each goroutine belongs. *)
LEMMA Goroutines == \A h \in Servers : h \in Actors
  BY DEF Actors

(* Workers are goroutines too. *)
LEMMA PoolGoroutines == \A w \in Workers : w \in Actors
  BY DEF Actors

(* Statements about a row keep the table well formed. *)
LEMMA TableTyped ==
  ASSUME TableOK, NEW u \in Updates,
         SetProcessing(u) \/ SetFailed(u) \/ SetDone(u) \/ UNCHANGED table
  PROVE  TableOK'
<1>1. CASE SetProcessing(u)
  BY <1>1 DEF TableOK, SetProcessing, RowStatus
<1>2. CASE SetFailed(u)
  BY <1>2 DEF TableOK, SetFailed, RowStatus
<1>3. CASE SetDone(u)
  BY <1>3 DEF TableOK, SetDone, RowStatus
<1>4. CASE UNCHANGED table
  BY <1>4 DEF TableOK, table
<1> QED BY <1>1, <1>2, <1>3, <1>4

(* A goroutine that begins, goes on with or leaves an update. *)
LEMMA BeginTyped ==
  ASSUME HandsOK, NEW a \in Actors, NEW u \in Updates,
         NEW stage \in Stages \ {"idle"}, Begin(a, u, stage)
  PROVE  HandsOK'
  BY Constants DEF HandsOK, Begin, Goto

(* The next stage of the same update. *)
LEMMA ContinueTyped ==
  ASSUME HandsOK, NEW a \in Actors, pc[a] # "idle",
         NEW stage \in Stages \ {"idle"}, Continue(a, stage)
  PROVE  HandsOK'
  BY DEF HandsOK, Continue, Goto

(* Back to idle. *)
LEMMA FinishTyped ==
  ASSUME HandsOK, NEW a \in Actors, Finish(a)
  PROVE  HandsOK'
  BY DEF HandsOK, Finish, Goto, Stages

(* A goroutine that is not idle has an update in hand. *)
LEMMA InHand ==
  ASSUME TypeOK, NEW a \in Actors, pc[a] # "idle"
  PROVE  on[a] \in Updates /\ on[a] # NoUpdate
  BY Constants DEF TypeOK

(* Telegram learns of an answer, or not. *)
LEMMA AnswerTyped ==
  ASSUME SetsOK, NEW u, Answer(u), UNCHANGED served
  PROVE  SetsOK'
  BY DEF SetsOK, Answer

(* The end of the process keeps the types. *)
LEMMA EndTyped ==
  ASSUME TypeOK, ProcessEnds
  PROVE  TypeOK'
<1>1. TableOK' /\ SetsOK' /\ ModeOK'
  BY DEF TypeOK, ProcessEnds, TableOK, SetsOK, ModeOK, table
<1>2. QueueOK'
  BY Constants DEF TypeOK, ProcessEnds, QueueOK
<1>3. HandsOK'
  BY DEF ProcessEnds, HandsOK, Stages
<1> QED BY <1>1, <1>2, <1>3, Parts DEF TypeOK, TableOK, SetsOK, ModeOK, QueueOK, HandsOK

(* Every step keeps the types. *)
LEMMA TypeStep ==
  ASSUME TypeOK, [Next]_vars
  PROVE  TypeOK'
<1> USE DEF pool, control
<1>0. TableOK /\ SetsOK /\ QueueOK /\ HandsOK /\ ModeOK
  BY Parts
<1> SUFFICES TableOK' /\ SetsOK' /\ QueueOK' /\ HandsOK' /\ ModeOK'
  BY DEF TypeOK, TableOK, SetsOK, QueueOK, HandsOK, ModeOK
<1>1. ASSUME NEW h \in Servers, NEW u \in Updates, BeginUpdate(h, u)
      PROVE  TableOK' /\ SetsOK' /\ QueueOK' /\ HandsOK' /\ ModeOK'
  <2>1. TableOK'
    BY <1>0, <1>1, TableTyped DEF BeginUpdate
  <2>2. HandsOK'
    BY <1>0, <1>1, BeginTyped, Goroutines DEF BeginUpdate, Stages
  <2> QED
    BY <1>0, <1>1, <2>1, <2>2 DEF BeginUpdate, SetsOK, QueueOK, ModeOK
<1>2. ASSUME NEW h \in Servers, NEW u \in Updates, SkipDuplicate(h, u)
      PROVE  TableOK' /\ SetsOK' /\ QueueOK' /\ HandsOK' /\ ModeOK'
  <2>1. SetsOK'
    BY <1>0, <1>2, AnswerTyped DEF SkipDuplicate
  <2> QED
    BY <1>0, <1>2, <2>1 DEF SkipDuplicate, TableOK, QueueOK, HandsOK, ModeOK, table
<1>3. ASSUME NEW h \in Servers, NEW u \in Updates, BeginUpdateFails(h, u)
      PROVE  TableOK' /\ SetsOK' /\ QueueOK' /\ HandsOK' /\ ModeOK'
  <2>1. TableOK'
    BY <1>0, <1>3, TableTyped DEF BeginUpdateFails
  <2> QED
    BY <1>0, <1>3, <2>1 DEF BeginUpdateFails, SetsOK, QueueOK, HandsOK, ModeOK
<1>4. ASSUME NEW h \in Servers, Dispatch(h)
      PROVE  TableOK' /\ SetsOK' /\ QueueOK' /\ HandsOK' /\ ModeOK'
  <2>1. h \in Actors /\ on[h] \in Updates
    BY <1>4, Goroutines, InHand DEF Dispatch
  <2>2. TableOK' /\ ModeOK'
    BY <1>0, <1>4 DEF Dispatch, TableOK, ModeOK, table
  <2>3. CASE TrySubmit(on[h]) /\ Answer(on[h]) /\ Finish(h)
    <3>1. QueueOK'
      BY <1>0, <2>1, <2>3, Constants DEF QueueOK, TrySubmit, Accepts
    <3>2. SetsOK'
      BY <1>0, <1>4, <2>3, AnswerTyped DEF Dispatch
    <3> QED
      BY <1>0, <2>1, <2>2, <2>3, <3>1, <3>2, FinishTyped
  <2>4. ASSUME NEW stage \in {"handling", "turning away"}, Continue(h, stage),
               UNCHANGED <<pool, unanswered>>
        PROVE  TableOK' /\ SetsOK' /\ QueueOK' /\ HandsOK' /\ ModeOK'
    <3>1. HandsOK'
      BY <1>0, <1>4, <2>1, <2>4, ContinueTyped DEF Dispatch, Stages
    <3> QED
      BY <1>0, <1>4, <2>2, <2>4, <3>1 DEF Dispatch, SetsOK, QueueOK
  <2> QED
    BY <1>4, <2>3, <2>4 DEF Dispatch
<1>5. ASSUME NEW a \in Actors, TurnAway(a) \/ TurnAwayFails(a) \/ MarkFailed(a) \/ MarkFailedFails(a)
      PROVE  TableOK' /\ SetsOK' /\ QueueOK' /\ HandsOK' /\ ModeOK'
  <2>1. on[a] \in Updates
    BY <1>5, InHand DEF TurnAway, TurnAwayFails, MarkFailed, MarkFailedFails
  <2>2. TableOK'
    BY <1>0, <1>5, <2>1, TableTyped DEF TurnAway, TurnAwayFails, MarkFailed, MarkFailedFails
  <2>3. HandsOK'
    BY <1>0, <1>5, FinishTyped DEF TurnAway, TurnAwayFails, MarkFailed, MarkFailedFails
  <2> QED
    BY <1>0, <1>5, <2>2, <2>3
    DEF TurnAway, TurnAwayFails, MarkFailed, MarkFailedFails, SetsOK, QueueOK, ModeOK
<1>6. ASSUME NEW w \in Workers, Take(w)
      PROVE  TableOK' /\ SetsOK' /\ QueueOK' /\ HandsOK' /\ ModeOK'
  <2>1. PICK u \in Updates : Receive(u) /\ Begin(w, u, "handling")
    BY <1>6 DEF Take
  <2>2. QueueOK'
    BY <1>0, <2>1, Constants DEF QueueOK, Receive
  <2>3. HandsOK'
    BY <1>0, <2>1, BeginTyped, PoolGoroutines DEF Stages
  <2> QED
    BY <1>0, <1>6, <2>2, <2>3 DEF Take, TableOK, SetsOK, ModeOK, table
<1>7. ASSUME NEW a \in Actors, Handle(a)
      PROVE  TableOK' /\ SetsOK' /\ QueueOK' /\ HandsOK' /\ ModeOK'
  <2>1. on[a] \in Updates
    BY <1>7, InHand DEF Handle
  <2>2. HandsOK'
    BY <1>0, <1>7, ContinueTyped DEF Handle, Stages
  <2> QED
    BY <1>0, <1>7, <2>1, <2>2 DEF Handle, TableOK, SetsOK, QueueOK, ModeOK, table
<1>8. ASSUME NEW a \in Actors, MarkDone(a)
      PROVE  TableOK' /\ SetsOK' /\ QueueOK' /\ HandsOK' /\ ModeOK'
  <2>1. on[a] \in Updates
    BY <1>8, InHand DEF MarkDone
  <2>2. TableOK'
    BY <1>0, <1>8, <2>1, TableTyped DEF MarkDone
  <2>3. HandsOK'
    BY <1>0, <1>8, ContinueTyped, FinishTyped DEF MarkDone, Succeed, Stages
  <2>4. SetsOK'
    BY <1>0, <1>8, AnswerTyped DEF MarkDone, Succeed, SetsOK
  <2> QED
    BY <1>0, <1>8, <2>2, <2>3, <2>4 DEF MarkDone, QueueOK, ModeOK
<1>9. ASSUME NEW a \in Actors, MarkDoneFails(a)
      PROVE  TableOK' /\ SetsOK' /\ QueueOK' /\ HandsOK' /\ ModeOK'
  <2>1. on[a] \in Updates
    BY <1>9, InHand DEF MarkDoneFails
  <2>2. TableOK'
    BY <1>0, <1>9, <2>1, TableTyped DEF MarkDoneFails
  <2>3. HandsOK'
    BY <1>0, <1>9, ContinueTyped DEF MarkDoneFails, Stages
  <2> QED
    BY <1>0, <1>9, <2>2, <2>3 DEF MarkDoneFails, SetsOK, QueueOK, ModeOK
<1>10. ASSUME NEW u \in Updates, BecomesStale(u)
      PROVE  TableOK' /\ SetsOK' /\ QueueOK' /\ HandsOK' /\ ModeOK'
  BY <1>0, <1>10 DEF BecomesStale, TableOK, SetsOK, QueueOK, HandsOK, ModeOK
<1>11. ASSUME StopServing \/ StopPool \/ Restart \/ UNCHANGED vars
      PROVE  TableOK' /\ SetsOK' /\ QueueOK' /\ HandsOK' /\ ModeOK'
  BY <1>0, <1>11
  DEF StopServing, StopPool, Restart, ClosePool, vars, table, TableOK, SetsOK, QueueOK, HandsOK, ModeOK
<1>12. ASSUME Exit \/ Crash
      PROVE  TableOK' /\ SetsOK' /\ QueueOK' /\ HandsOK' /\ ModeOK'
  BY <1>12, EndTyped DEF Exit, Crash, TypeOK, TableOK, SetsOK, QueueOK, HandsOK, ModeOK
<1> QED
  BY <1>1, <1>2, <1>3, <1>4, <1>5, <1>6, <1>7, <1>8, <1>9, <1>10, <1>11, <1>12, Goroutines
  DEF Next, Serve, Process, Fault

-----------------------------------------------------------------------------
(* The table as a lease.                                                   *)

(* What is queued is an update. *)
LEMMA QueuedIsUpdate ==
  ASSUME TypeOK, NEW i \in 1 .. Len(jobs)
  PROVE  jobs[i] \in Updates /\ jobs[i] # NoUpdate
  BY Constants DEF TypeOK

(* An update that may be begun is with nobody. *)
LEMMA BegunIsFree ==
  ASSUME Leased, NEW u \in Updates, Begins(u)
  PROVE  /\ \A a \in Actors : on[a] # u
         /\ \A i \in 1 .. Len(jobs) : jobs[i] # u
<1>1. ~Safe(u)
  BY DEF Begins, Safe
<1>2. u # NoUpdate
  BY Constants
<1> QED
  BY <1>1, <1>2 DEF Leased, HandsSafe, QueueSafe

(* A step that leaves the goroutines and the queue alone and keeps the     *)
(* rows of what they hold safe. *)
LEMMA RowStep ==
  ASSUME TypeOK, Leased, UNCHANGED <<on, jobs>>,
         \A u \in Updates : AtWork(u) /\ Safe(u) => Safe(u)'
  PROVE  Leased'
<1>1. HandsSafe'
  <2> SUFFICES ASSUME NEW a \in Actors, NEW u \in Updates, u = on[a], u # NoUpdate
               PROVE  Safe(u)'
    BY DEF HandsSafe, Safe, TypeOK
  <2> QED BY DEF Leased, HandsSafe, AtWork
<1>2. QueueSafe'
  <2> SUFFICES ASSUME NEW i \in 1 .. Len(jobs)
               PROVE  Safe(jobs[i])'
    BY DEF QueueSafe
  <2> QED BY QueuedIsUpdate DEF Leased, QueueSafe, AtWork, Queued
<1>3. InOneHand'
  BY DEF Leased, InOneHand
<1>4. NotInHand'
  BY DEF Leased, NotInHand
<1>5. QueuedOnce'
  BY DEF Leased, QueuedOnce
<1> QED BY <1>1, <1>2, <1>3, <1>4, <1>5 DEF Leased

(* A goroutine puts its update away, whose row no longer matters. *)
LEMMA FinishStep ==
  ASSUME TypeOK, Leased, NEW a \in Actors,
         on' = [on EXCEPT ![a] = NoUpdate], UNCHANGED jobs,
         \A u \in Updates : u # on[a] /\ Safe(u) => Safe(u)'
  PROVE  Leased'
<1>0. \A b \in Actors : on'[b] = IF b = a THEN NoUpdate ELSE on[b]
  BY DEF TypeOK
<1>1. HandsSafe'
  <2> SUFFICES ASSUME NEW b \in Actors, NEW v, v = on'[b], v # NoUpdate
               PROVE  Safe(v)'
    BY DEF HandsSafe, Safe
  <2>1. b # a /\ v = on[b] /\ v \in Updates
    BY <1>0 DEF TypeOK
  <2>2. v # on[a] /\ Safe(v)
    BY <2>1 DEF Leased, HandsSafe, InOneHand
  <2> QED BY <2>1, <2>2
<1>2. QueueSafe'
  <2> SUFFICES ASSUME NEW i \in 1 .. Len(jobs)
               PROVE  Safe(jobs[i])'
    BY DEF QueueSafe
  <2> QED BY QueuedIsUpdate DEF Leased, QueueSafe, NotInHand
<1>3. InOneHand'
  BY <1>0 DEF Leased, InOneHand
<1>4. NotInHand'
  <2> SUFFICES ASSUME NEW b \in Actors, NEW i \in 1 .. Len(jobs)
               PROVE  jobs[i] # on'[b]
    BY DEF NotInHand
  <2> QED BY <1>0, QueuedIsUpdate DEF Leased, NotInHand
<1>5. QueuedOnce'
  BY DEF Leased, QueuedOnce
<1> QED BY <1>1, <1>2, <1>3, <1>4, <1>5 DEF Leased

(* A free update is taken in hand. *)
LEMMA BeginStep ==
  ASSUME TypeOK, Leased, NEW a \in Actors, NEW u \in Updates, on[a] = NoUpdate,
         on' = [on EXCEPT ![a] = u], UNCHANGED jobs,
         Safe(u)', \A v \in Updates : v # u /\ Safe(v) => Safe(v)',
         \A b \in Actors : on[b] # u, \A i \in 1 .. Len(jobs) : jobs[i] # u
  PROVE  Leased'
<1>0. \A b \in Actors : on'[b] = IF b = a THEN u ELSE on[b]
  BY DEF TypeOK
<1>1. HandsSafe'
  <2> SUFFICES ASSUME NEW b \in Actors, NEW v, v = on'[b], v # NoUpdate
               PROVE  Safe(v)'
    BY DEF HandsSafe, Safe
  <2>1. CASE b = a
    BY <1>0, <2>1
  <2>2. CASE b # a
    BY <1>0, <2>2 DEF Leased, HandsSafe, TypeOK
  <2> QED BY <2>1, <2>2
<1>2. QueueSafe'
  <2> SUFFICES ASSUME NEW i \in 1 .. Len(jobs)
               PROVE  Safe(jobs[i])'
    BY DEF QueueSafe
  <2> QED BY QueuedIsUpdate DEF Leased, QueueSafe
<1>3. InOneHand'
  BY <1>0 DEF Leased, InOneHand
<1>4. NotInHand'
  BY <1>0 DEF Leased, NotInHand
<1>5. QueuedOnce'
  BY DEF Leased, QueuedOnce
<1> QED BY <1>1, <1>2, <1>3, <1>4, <1>5 DEF Leased

(* An update goes from a hand to the end of the queue. *)
LEMMA SubmitStep ==
  ASSUME TypeOK, Leased, NEW a \in Actors, on[a] # NoUpdate,
         on' = [on EXCEPT ![a] = NoUpdate], TrySubmit(on[a]), UNCHANGED table
  PROVE  Leased'
<1>0. \A b \in Actors : on'[b] = IF b = a THEN NoUpdate ELSE on[b]
  BY DEF TypeOK
<1>1. \A u : Safe(u)' <=> Safe(u)
  BY DEF Safe, table
<1>2. on[a] \in Updates
  BY DEF TypeOK
<1>3. /\ Len(jobs') = Len(jobs) + 1
      /\ jobs'[Len(jobs) + 1] = on[a]
      /\ \A i \in 1 .. Len(jobs) : jobs'[i] = jobs[i]
      /\ Len(jobs) \in Nat
  BY <1>2 DEF TypeOK, TrySubmit
<1>4. HandsSafe'
  BY <1>0, <1>1 DEF Leased, HandsSafe
<1>5. QueueSafe'
  <2> SUFFICES ASSUME NEW i \in 1 .. Len(jobs) + 1
               PROVE  Safe(jobs'[i])
    BY <1>1, <1>3 DEF QueueSafe
  <2>1. CASE i = Len(jobs) + 1
    BY <1>3, <2>1 DEF Leased, HandsSafe
  <2>2. CASE i \in 1 .. Len(jobs)
    BY <1>3, <2>2 DEF Leased, QueueSafe
  <2> QED BY <1>3, <2>1, <2>2
<1>6. InOneHand'
  BY <1>0 DEF Leased, InOneHand
<1>7. NotInHand'
  <2> SUFFICES ASSUME NEW b \in Actors, NEW i \in 1 .. Len(jobs) + 1
               PROVE  jobs'[i] # on'[b]
    BY <1>3 DEF NotInHand
  <2>1. CASE i = Len(jobs) + 1
    BY <1>0, <1>2, <1>3, <2>1 DEF Leased, InOneHand
  <2>2. CASE i \in 1 .. Len(jobs)
    BY <1>0, <1>3, <2>2, QueuedIsUpdate DEF Leased, NotInHand
  <2> QED BY <1>3, <2>1, <2>2
<1>8. QueuedOnce'
  <2> SUFFICES ASSUME NEW i \in 1 .. Len(jobs) + 1, NEW j \in 1 .. Len(jobs) + 1, jobs'[i] = jobs'[j]
               PROVE  i = j
    BY <1>3 DEF QueuedOnce
  <2>1. \A k \in 1 .. Len(jobs) : jobs'[k] # on[a]
    BY <1>3 DEF Leased, NotInHand
  <2>2. CASE i \in 1 .. Len(jobs) /\ j \in 1 .. Len(jobs)
    BY <1>3, <2>2 DEF Leased, QueuedOnce
  <2>3. CASE i = Len(jobs) + 1 \/ j = Len(jobs) + 1
    BY <1>3, <2>1, <2>3
  <2> QED BY <1>3, <2>2, <2>3
<1> QED BY <1>4, <1>5, <1>6, <1>7, <1>8 DEF Leased

(* An update goes from the head of the queue to an empty hand. *)
LEMMA ReceiveStep ==
  ASSUME TypeOK, Leased, NEW a \in Actors, NEW u \in Updates, on[a] = NoUpdate,
         on' = [on EXCEPT ![a] = u], Receive(u), UNCHANGED table
  PROVE  Leased'
<1>0. \A b \in Actors : on'[b] = IF b = a THEN u ELSE on[b]
  BY DEF TypeOK
<1>1. \A v : Safe(v)' <=> Safe(v)
  BY DEF Safe, table
<1>2. /\ Len(jobs) \in Nat \ {0}
      /\ jobs[1] = u
      /\ Len(jobs') = Len(jobs) - 1
      /\ \A i \in 1 .. Len(jobs) - 1 : jobs'[i] = jobs[i + 1]
  BY DEF TypeOK, Receive
<1>3. Safe(u)
  BY <1>2 DEF Leased, QueueSafe
<1>4. HandsSafe'
  BY <1>0, <1>1, <1>3 DEF Leased, HandsSafe
<1>5. QueueSafe'
  BY <1>1, <1>2 DEF Leased, QueueSafe
<1>6. \A b \in Actors : on[b] # u
  BY <1>2 DEF Leased, NotInHand
<1>7. InOneHand'
  BY <1>0, <1>6 DEF Leased, InOneHand
<1>8. NotInHand'
  <2> SUFFICES ASSUME NEW b \in Actors, NEW i \in 1 .. Len(jobs) - 1
               PROVE  jobs[i + 1] # on'[b]
    BY <1>2 DEF NotInHand
  <2>1. jobs[i + 1] # u
    BY <1>2 DEF Leased, QueuedOnce
  <2> QED BY <1>0, <1>2, <2>1 DEF Leased, NotInHand
<1>9. QueuedOnce'
  BY <1>2 DEF Leased, QueuedOnce
<1> QED BY <1>4, <1>5, <1>7, <1>8, <1>9 DEF Leased

(* The end of the process leaves nothing in hand. *)
LEMMA EndStep ==
  ASSUME TypeOK, ProcessEnds
  PROVE  Leased'
<1>1. \A a \in Actors : on'[a] = NoUpdate
  BY DEF ProcessEnds
<1>2. jobs' = <<>> /\ Len(jobs') = 0
  BY DEF ProcessEnds
<1> QED
  BY <1>1, <1>2 DEF Leased, HandsSafe, QueueSafe, InOneHand, NotInHand, QueuedOnce

(* Every step keeps the lease, if no update outlives it. *)
LEMMA LeaseStep ==
  ASSUME TypeOK, Leased, [Next]_vars, "slow" \notin Faults
  PROVE  Leased'
<1> USE DEF pool, control
<1>1. ASSUME NEW h \in Servers, NEW u \in Updates, BeginUpdate(h, u)
      PROVE  Leased'
  <2>1. Safe(u)' /\ \A v \in Updates : v # u /\ Safe(v) => Safe(v)'
    BY <1>1 DEF BeginUpdate, SetProcessing, Safe, TypeOK
  <2>2. h \in Actors /\ on[h] = NoUpdate
    BY <1>1, Goroutines DEF BeginUpdate, Posted, TypeOK
  <2> QED
    BY <1>1, <2>1, <2>2, BegunIsFree, BeginStep DEF BeginUpdate, Begin
<1>2. ASSUME NEW h \in Servers, NEW u \in Updates, SkipDuplicate(h, u)
      PROVE  Leased'
  BY <1>2, RowStep DEF SkipDuplicate, Safe, table
<1>3. ASSUME NEW h \in Servers, NEW u \in Updates, BeginUpdateFails(h, u)
      PROVE  Leased'
  <2>1. \A v \in Updates : Safe(v) => Safe(v)'
    BY <1>3 DEF BeginUpdateFails, SetProcessing, Safe, table, TypeOK
  <2> QED
    BY <1>3, <2>1, RowStep DEF BeginUpdateFails
<1>4. ASSUME NEW h \in Servers, Dispatch(h)
      PROVE  Leased'
  <2>1. h \in Actors /\ on[h] # NoUpdate
    BY <1>4, Goroutines, InHand DEF Dispatch
  <2>2. CASE TrySubmit(on[h]) /\ Finish(h)
    BY <1>4, <2>1, <2>2, SubmitStep DEF Dispatch, Finish
  <2>3. CASE UNCHANGED <<on, jobs>>
    BY <1>4, <2>3, RowStep DEF Dispatch, Safe, table
  <2> QED
    BY <1>4, <2>2, <2>3 DEF Dispatch, Continue
<1>5. ASSUME NEW a \in Actors, TurnAway(a) \/ TurnAwayFails(a) \/ MarkFailed(a) \/ MarkFailedFails(a)
      PROVE  Leased'
  <2>1. \A u \in Updates : u # on[a] /\ Safe(u) => Safe(u)'
    BY <1>5
    DEF TurnAway, TurnAwayFails, MarkFailed, MarkFailedFails, SetFailed, Safe, table, TypeOK
  <2> QED
    BY <1>5, <2>1, FinishStep DEF TurnAway, TurnAwayFails, MarkFailed, MarkFailedFails, Finish
<1>6. ASSUME NEW w \in Workers, Take(w)
      PROVE  Leased'
  <2>1. w \in Actors /\ on[w] = NoUpdate
    BY <1>6, PoolGoroutines DEF Take, Begin, TypeOK
  <2> QED
    BY <1>6, <2>1, ReceiveStep DEF Take, Begin
<1>7. ASSUME NEW a \in Actors, Handle(a)
      PROVE  Leased'
  BY <1>7, RowStep DEF Handle, Continue, Safe, table
<1>8. ASSUME NEW a \in Actors, MarkDone(a)
      PROVE  Leased'
  <2>1. CASE SetDone(on[a]) /\ Succeed(a)
    <3>1. \A u \in Updates : u # on[a] /\ Safe(u) => Safe(u)'
      BY <2>1 DEF SetDone, Safe, TypeOK
    <3> QED
      BY <1>8, <2>1, <3>1, FinishStep DEF MarkDone, Succeed, Finish
  <2>2. CASE UNCHANGED <<table, on>>
    BY <1>8, <2>2, RowStep DEF MarkDone, Safe, table
  <2> QED
    BY <1>8, <2>1, <2>2 DEF MarkDone, Continue
<1>9. ASSUME NEW a \in Actors, MarkDoneFails(a)
      PROVE  Leased'
  <2>1. \A u \in Updates : Safe(u) => Safe(u)'
    BY <1>9 DEF MarkDoneFails, SetDone, Safe, table, TypeOK
  <2> QED
    BY <1>9, <2>1, RowStep DEF MarkDoneFails, Continue
<1>10. ASSUME NEW u \in Updates, BecomesStale(u)
      PROVE  Leased'
  <2>1. \A v \in Updates : AtWork(v) /\ Safe(v) => Safe(v)'
    BY <1>10 DEF BecomesStale, Safe
  <2> QED
    BY <1>10, <2>1, RowStep DEF BecomesStale
<1>11. ASSUME StopServing \/ StopPool \/ Restart \/ UNCHANGED vars
      PROVE  Leased'
  BY <1>11, RowStep DEF StopServing, StopPool, Restart, ClosePool, vars, table, Safe
<1>12. ASSUME Exit \/ Crash
      PROVE  Leased'
  BY <1>12, EndStep DEF Exit, Crash
<1> QED
  BY <1>1, <1>2, <1>3, <1>4, <1>5, <1>6, <1>7, <1>8, <1>9, <1>10, <1>11, <1>12, Goroutines
  DEF Next, Serve, Process, Fault

-----------------------------------------------------------------------------
(* Done means served.                                                      *)

(* Only a row whose update was served becomes done. *)
LEMMA DoneStep ==
  ASSUME TypeOK, MarksServed, DoneIsServed, [Next]_vars
  PROVE  DoneIsServed'
<1>1. served \subseteq served'
  BY DEF Next, Serve, Process, Fault, BeginUpdate, SkipDuplicate, BeginUpdateFails, Dispatch,
         TurnAway, TurnAwayFails, Take, Handle, MarkDone, MarkDoneFails, MarkFailed,
         MarkFailedFails, BecomesStale, StopServing, StopPool, Exit, Crash, ProcessEnds,
         Restart, vars
<1>2. \A u \in Updates : row'[u] = "done" => row[u] = "done" \/ u \in served
  <2>1. ASSUME NEW v \in Updates, SetProcessing(v) \/ SetFailed(v)
        PROVE  \A u \in Updates : row'[u] = "done" => row[u] = "done"
    BY <2>1 DEF SetProcessing, SetFailed, TypeOK
  <2>2. ASSUME NEW a \in Actors, pc[a] = "marking done", SetDone(on[a])
        PROVE  \A u \in Updates : row'[u] = "done" => row[u] = "done" \/ u \in served
    BY <2>2 DEF SetDone, TypeOK, MarksServed
  <2>3. CASE UNCHANGED row
    BY <2>3
  <2>4. ASSUME NEW h \in Servers, NEW u \in Updates,
               BeginUpdate(h, u) \/ SkipDuplicate(h, u) \/ BeginUpdateFails(h, u)
        PROVE  (\E v \in Updates : SetProcessing(v)) \/ UNCHANGED row
    BY <2>4 DEF BeginUpdate, SkipDuplicate, BeginUpdateFails, table
  <2>5. ASSUME NEW a \in Actors, TurnAway(a) \/ MarkFailed(a)
        PROVE  \E v \in Updates : SetFailed(v)
    BY <2>5, InHand DEF TurnAway, MarkFailed
  <2>6. ASSUME NEW a \in Actors, MarkDone(a) \/ MarkDoneFails(a)
        PROVE  (pc[a] = "marking done" /\ SetDone(on[a])) \/ UNCHANGED row
    BY <2>6 DEF MarkDone, MarkDoneFails, table
  <2>7. ASSUME NEW a \in Actors,
               Dispatch(a) \/ TurnAwayFails(a) \/ Take(a) \/ Handle(a) \/ MarkFailedFails(a)
        PROVE  UNCHANGED row
    BY <2>7 DEF Dispatch, TurnAwayFails, Take, Handle, MarkFailedFails, table
  <2>8. ASSUME (\E u \in Updates : BecomesStale(u))
               \/ StopServing \/ StopPool \/ Exit \/ Crash \/ Restart \/ UNCHANGED vars
        PROVE  UNCHANGED row
    BY <2>8 DEF BecomesStale, StopServing, StopPool, Exit, Crash, ProcessEnds, Restart, vars, table
  <2> QED
    BY <2>1, <2>2, <2>3, <2>4, <2>5, <2>6, <2>7, <2>8, Goroutines, PoolGoroutines
    DEF Next, Serve, Process, Fault
<1> QED BY <1>1, <1>2 DEF DoneIsServed

(* A goroutine reaches "marking done" only by serving its update. *)
LEMMA MarksStep ==
  ASSUME TypeOK, MarksServed, [Next]_vars
  PROVE  MarksServed'
<1> USE DEF pool, control
<1>1. ASSUME NEW b \in Actors, served \subseteq served',
             NEW stage, stage # "marking done", pc' = [pc EXCEPT ![b] = stage],
             \A a \in Actors : a # b => on'[a] = on[a]
      PROVE  MarksServed'
  <2> SUFFICES ASSUME NEW a \in Actors, pc'[a] = "marking done"
               PROVE  on'[a] \in served'
    BY DEF MarksServed
  <2>1. a # b /\ pc[a] = "marking done"
    BY <1>1 DEF TypeOK
  <2> QED BY <1>1, <2>1 DEF MarksServed
<1>10. \A b \in Actors :
         \/ UNCHANGED on
         \/ \E v \in Updates \cup {NoUpdate} : on' = [on EXCEPT ![b] = v]
         => \A a \in Actors : a # b => on'[a] = on[a]
  BY DEF TypeOK
<1>2. CASE UNCHANGED <<pc, on, served>>
  BY <1>2 DEF MarksServed
<1>3. ASSUME NEW a \in Actors, Handle(a)
      PROVE  MarksServed'
  <2>1. CASE served' = served \cup {on[a]} /\ Continue(a, "marking done")
    BY <2>1 DEF Continue, Goto, MarksServed, TypeOK
  <2>2. CASE UNCHANGED served /\ Continue(a, "marking failed")
    BY <1>1, <2>2 DEF Continue, Goto
  <2> QED BY <1>3, <2>1, <2>2 DEF Handle
<1>4. ASSUME NEW h \in Servers, NEW u \in Updates,
             BeginUpdate(h, u) \/ SkipDuplicate(h, u) \/ BeginUpdateFails(h, u)
      PROVE  MarksServed'
  BY <1>1, <1>2, <1>4, <1>10, Goroutines DEF BeginUpdate, SkipDuplicate, BeginUpdateFails, Begin, Goto
<1>5. ASSUME NEW a \in Actors, Dispatch(a) \/ TurnAway(a) \/ TurnAwayFails(a)
      PROVE  MarksServed'
  BY <1>1, <1>5, <1>10 DEF Dispatch, TurnAway, TurnAwayFails, Continue, Finish, Goto
<1>6. ASSUME NEW a \in Actors, Take(a)
      PROVE  MarksServed'
  BY <1>1, <1>6, <1>10 DEF Take, Begin, Goto
<1>7. ASSUME NEW a \in Actors, MarkDone(a) \/ MarkDoneFails(a) \/ MarkFailed(a) \/ MarkFailedFails(a)
      PROVE  MarksServed'
  BY <1>1, <1>7, <1>10 DEF MarkDone, MarkDoneFails, MarkFailed, MarkFailedFails, Succeed, Continue, Finish, Goto
<1>8. ASSUME (\E u \in Updates : BecomesStale(u)) \/ StopServing \/ StopPool \/ Restart \/ UNCHANGED vars
      PROVE  MarksServed'
  BY <1>2, <1>8 DEF BecomesStale, StopServing, StopPool, Restart, vars
<1>9. ASSUME Exit \/ Crash
      PROVE  MarksServed'
  BY <1>9 DEF Exit, Crash, ProcessEnds, MarksServed
<1> QED
  BY <1>3, <1>4, <1>5, <1>6, <1>7, <1>8, <1>9, Goroutines, PoolGoroutines
  DEF Next, Serve, Process, Fault

-----------------------------------------------------------------------------

(* The inductive invariant holds in every reachable state. *)
THEOREM IntakeInvariance == Spec => []IInv
<1>1. Init => IInv
  <2> SUFFICES ASSUME Init PROVE IInv
    OBVIOUS
  <2>1. TypeOK
    <3>1. jobs \in Seq(Updates) /\ Len(jobs) <= QueueSize
      BY Constants DEF Init, InitPool
    <3> QED
      BY <3>1 DEF Init, InitPool, TypeOK, RowStatus, Stages
  <2>2. jobs = <<>> /\ Len(jobs) = 0 /\ \A a \in Actors : on[a] = NoUpdate /\ pc[a] = "idle"
    BY DEF Init, InitPool
  <2>3. Leased
    BY <2>2 DEF Leased, HandsSafe, QueueSafe, InOneHand, NotInHand, QueuedOnce
  <2>4. MarksServed
    BY <2>2 DEF MarksServed
  <2>5. DoneIsServed
    BY DEF Init, DoneIsServed
  <2> QED BY <2>1, <2>3, <2>4, <2>5 DEF IInv
<1>2. IInv /\ [Next]_vars => IInv'
  BY TypeStep, LeaseStep, DoneStep, MarksStep DEF IInv
<1> QED BY <1>1, <1>2, PTL DEF Spec

(* Every variable keeps its type and the queue its bound. *)
THEOREM IntakeTyped == Spec => []TypeOK
  BY IntakeInvariance, PTL DEF IInv

(* The table is a lease: an update is in one hand or one place of the      *)
(* queue, never in two. *)
THEOREM OneHolderAlways == Spec => []OneHolder
<1>1. IInv => OneHolder
  BY DEF IInv, OneHolder, Leased, InOneHand, NotInHand, QueuedOnce
<1> QED BY <1>1, IntakeInvariance, PTL

(* No row is closed as done whose update was not handled. *)
THEOREM DoneOnlyServed == Spec => []DoneIsServed
  BY IntakeInvariance, PTL DEF IInv

-----------------------------------------------------------------------------
(* Graceful shutdowns.                                                     *)

Quiet == Faults \cap {"db", "crash", "deadline"} = {}

(* A row in "processing" is somebody's work, *)
Covered == \A u \in Updates : row[u] = "processing" => AtWork(u)

(* no request is served after the pool was closed, *)
ServersRest == mode \in {"stopping", "down"} => \A h \in Servers : pc[h] = "idle"

(* and nothing is left when the process ends. *)
AllRest == mode = "down" => jobs = <<>> /\ \A a \in Actors : pc[a] = "idle"

ShutInv == Covered /\ ServersRest /\ AllRest

(* How work moves between hands and queue. *)
LEMMA WorkBegun ==
  ASSUME TypeOK, NEW a \in Actors, NEW u \in Updates, on[a] = NoUpdate,
         on' = [on EXCEPT ![a] = u], UNCHANGED jobs
  PROVE  AtWork(u)' /\ \A v \in Updates : AtWork(v) => AtWork(v)'
<1>1. \A b \in Actors : on'[b] = IF b = a THEN u ELSE on[b]
  BY DEF TypeOK
<1>2. \A v \in Updates : v # NoUpdate
  BY Constants
<1> QED BY <1>1, <1>2 DEF AtWork, Queued

(* Finish takes away one update only. *)
LEMMA WorkPutAway ==
  ASSUME TypeOK, NEW a \in Actors, on' = [on EXCEPT ![a] = NoUpdate], UNCHANGED jobs
  PROVE  \A v \in Updates : v # on[a] /\ AtWork(v) => AtWork(v)'
<1>1. \A b \in Actors : on'[b] = IF b = a THEN NoUpdate ELSE on[b]
  BY DEF TypeOK
<1> QED BY <1>1 DEF AtWork, Queued

(* TrySubmit keeps what is at work. *)
LEMMA WorkQueued ==
  ASSUME TypeOK, NEW a \in Actors, on[a] # NoUpdate,
         on' = [on EXCEPT ![a] = NoUpdate], TrySubmit(on[a])
  PROVE  \A v \in Updates : AtWork(v) => AtWork(v)'
<1>1. \A b \in Actors : on'[b] = IF b = a THEN NoUpdate ELSE on[b]
  BY DEF TypeOK
<1>2. on[a] \in Updates
  BY DEF TypeOK
<1>3. /\ Len(jobs') = Len(jobs) + 1
      /\ jobs'[Len(jobs) + 1] = on[a]
      /\ \A i \in 1 .. Len(jobs) : jobs'[i] = jobs[i]
      /\ Len(jobs) \in Nat
  BY <1>2 DEF TypeOK, TrySubmit
<1> SUFFICES ASSUME NEW v \in Updates, AtWork(v)
             PROVE  AtWork(v)'
  OBVIOUS
<1>4. CASE Queued(v)
  BY <1>3, <1>4 DEF AtWork, Queued
<1>5. CASE on[a] = v
  BY <1>3, <1>5 DEF AtWork, Queued
<1>6. CASE \E b \in Actors : b # a /\ on[b] = v
  BY <1>1, <1>6 DEF AtWork
<1> QED BY <1>4, <1>5, <1>6 DEF AtWork

(* So does a worker that receives. *)
LEMMA WorkReceived ==
  ASSUME TypeOK, NEW a \in Actors, NEW u \in Updates, on[a] = NoUpdate,
         on' = [on EXCEPT ![a] = u], Receive(u)
  PROVE  \A v \in Updates : AtWork(v) => AtWork(v)'
<1>1. \A b \in Actors : on'[b] = IF b = a THEN u ELSE on[b]
  BY DEF TypeOK
<1>2. /\ Len(jobs) \in Nat \ {0}
      /\ jobs[1] = u
      /\ Len(jobs') = Len(jobs) - 1
      /\ \A i \in 1 .. Len(jobs) - 1 : jobs'[i] = jobs[i + 1]
  BY DEF TypeOK, Receive
<1> SUFFICES ASSUME NEW v \in Updates, AtWork(v)
             PROVE  AtWork(v)'
  OBVIOUS
<1>3. CASE v = u
  BY <1>1, <1>3 DEF AtWork
<1>4. ASSUME NEW i \in 1 .. Len(jobs), jobs[i] = v, v # u
      PROVE  Queued(v)'
  <2>1. i - 1 \in 1 .. Len(jobs) - 1 /\ jobs'[i - 1] = v
    BY <1>2, <1>4
  <2> QED BY <1>2, <2>1 DEF Queued
<1>5. ASSUME NEW b \in Actors, on[b] = v
      PROVE  AtWork(v)'
  <2>1. v # NoUpdate
    BY Constants
  <2> QED BY <1>1, <1>5, <2>1 DEF AtWork
<1> QED BY <1>3, <1>4, <1>5 DEF AtWork, Queued

(* A step that neither moves work nor puts rows in "processing" keeps the  *)
(* rows covered. *)
LEMMA CoverKept ==
  ASSUME Covered,
         \A u \in Updates : AtWork(u) /\ row'[u] = "processing" => AtWork(u)',
         \A u \in Updates : row'[u] = "processing" => row[u] = "processing" \/ AtWork(u)'
  PROVE  Covered'
  BY DEF Covered

(* Every step of a quiet system keeps its rows covered. *)
LEMMA CoverStep ==
  ASSUME TypeOK, ShutInv, Quiet, [Next]_vars
  PROVE  Covered'
<1> USE DEF pool, control
<1>1. ASSUME NEW h \in Servers, NEW u \in Updates, BeginUpdate(h, u)
      PROVE  Covered'
  <2>1. h \in Actors /\ on[h] = NoUpdate
    BY <1>1, Goroutines DEF BeginUpdate, Posted, TypeOK
  <2>2. AtWork(u)' /\ \A v \in Updates : AtWork(v) => AtWork(v)'
    BY <1>1, <2>1, WorkBegun DEF BeginUpdate, Begin
  <2>3. \A v \in Updates : v # u => row'[v] = row[v]
    BY <1>1 DEF BeginUpdate, SetProcessing, TypeOK
  <2> QED BY <2>2, <2>3, CoverKept DEF ShutInv
<1>2. ASSUME UNCHANGED <<row, on, jobs>>
      PROVE  Covered'
  BY <1>2 DEF ShutInv, Covered, AtWork, Queued
<1>3. ASSUME NEW h \in Servers, Dispatch(h), TrySubmit(on[h]), Finish(h)
      PROVE  Covered'
  <2>1. h \in Actors /\ on[h] # NoUpdate
    BY <1>3, Goroutines, InHand DEF Dispatch
  <2>2. \A v \in Updates : AtWork(v) => AtWork(v)'
    BY <1>3, <2>1, WorkQueued DEF Finish
  <2> QED BY <1>3, <2>2, CoverKept DEF Dispatch, table, ShutInv
<1>4. ASSUME NEW a \in Actors, pc[a] # "idle", SetFailed(on[a]) \/ SetDone(on[a]), Finish(a), UNCHANGED jobs
      PROVE  Covered'
  <2>1. on[a] \in Updates
    BY <1>4, InHand
  <2>2. row'[on[a]] # "processing" /\ \A v \in Updates : v # on[a] => row'[v] = row[v]
    BY <1>4, <2>1 DEF SetFailed, SetDone, TypeOK
  <2>3. \A v \in Updates : v # on[a] /\ AtWork(v) => AtWork(v)'
    BY <1>4, WorkPutAway DEF Finish
  <2> QED BY <2>2, <2>3, CoverKept DEF ShutInv
<1>5. ASSUME NEW w \in Workers, Take(w)
      PROVE  Covered'
  <2>1. PICK u \in Updates : Receive(u) /\ Begin(w, u, "handling")
    BY <1>5 DEF Take
  <2>2. w \in Actors /\ on[w] = NoUpdate
    BY <2>1, PoolGoroutines DEF Begin, TypeOK
  <2>3. \A v \in Updates : AtWork(v) => AtWork(v)'
    BY <2>1, <2>2, WorkReceived DEF Begin
  <2> QED BY <1>5, <2>3, CoverKept DEF Take, table, ShutInv
<1>6. ASSUME Exit
      PROVE  Covered'
  <2>1. jobs = <<>> /\ Len(jobs) = 0 /\ \A a \in Actors : pc[a] = "idle"
    BY <1>6 DEF Exit, Drained, Quiet, ShutInv, ServersRest, Actors
  <2>2. \A u \in Updates : ~AtWork(u)
    BY <2>1, Constants DEF AtWork, Queued, TypeOK
  <2> QED BY <1>6, <2>2 DEF Exit, ProcessEnds, ShutInv, Covered, table
<1>7. ASSUME NEW a \in Actors, Dispatch(a), UNCHANGED <<on, jobs>>
      PROVE  Covered'
  BY <1>2, <1>7 DEF Dispatch, table
<1>8. ASSUME NEW a \in Actors, TurnAway(a) \/ MarkFailed(a)
      PROVE  Covered'
  BY <1>4, <1>8 DEF TurnAway, MarkFailed
<1>9. ASSUME NEW a \in Actors, MarkDone(a)
      PROVE  Covered'
  BY <1>2, <1>4, <1>9 DEF MarkDone, Succeed, Continue, table
<1>10. ASSUME NEW a \in Actors, Handle(a)
      PROVE  Covered'
  BY <1>2, <1>10 DEF Handle, Continue, table
<1>11. ASSUME NEW h \in Servers, NEW u \in Updates, SkipDuplicate(h, u)
      PROVE  Covered'
  BY <1>2, <1>11 DEF SkipDuplicate, table
<1>12. ASSUME StopServing \/ StopPool \/ Restart \/ UNCHANGED vars
      PROVE  Covered'
  BY <1>2, <1>12 DEF StopServing, StopPool, Restart, ClosePool, vars, table
<1>13. ASSUME NEW u \in Updates, BecomesStale(u)
      PROVE  Covered'
  BY <1>2, <1>13 DEF BecomesStale
<1>14. ~Crash /\ \A h \in Servers, u \in Updates : ~BeginUpdateFails(h, u)
  BY DEF Quiet, Crash, BeginUpdateFails
<1>15. \A a \in Actors : ~Fault(a)
  BY DEF Quiet, Fault, TurnAwayFails, MarkDoneFails, MarkFailedFails
<1>16. ASSUME NEW h \in Servers, Dispatch(h)
      PROVE  Covered'
  BY <1>3, <1>7, <1>16, Goroutines DEF Dispatch, Continue
<1> QED
  BY <1>1, <1>5, <1>6, <1>8, <1>9, <1>10, <1>11, <1>12, <1>13, <1>14, <1>15, <1>16, Goroutines
  DEF Next, Serve, Process

(* Servers rest once the pool is closed, and everybody in the end. *)
LEMMA RestStep ==
  ASSUME TypeOK, ShutInv, Quiet, [Next]_vars
  PROVE  ServersRest' /\ AllRest'
<1> USE DEF pool, control
<1>1. CASE mode = "up" /\ mode' = "up"
  BY <1>1 DEF ServersRest, AllRest
<1>2. ASSUME NEW a \in Actors, Serve(a) \/ Process(a), mode' = mode
      PROVE  ServersRest' /\ AllRest'
  <2>1. pc[a] # "idle"
    BY <1>2 DEF Serve, Process, Dispatch, TurnAway, Handle, MarkDone, MarkFailed
  <2>2. \E stage \in Stages : pc' = [pc EXCEPT ![a] = stage]
    BY <1>2 DEF Serve, Process, Dispatch, TurnAway, Handle, MarkDone, MarkFailed,
                Continue, Finish, Succeed, Goto, Stages
  <2>3. CASE a \in Servers
    BY <1>2, <2>1, <2>3 DEF ShutInv, ServersRest, AllRest, TypeOK
  <2>4. CASE a \notin Servers
    <3>1. \A h \in Servers : pc'[h] = pc[h]
      BY <2>2, <2>4, Goroutines DEF TypeOK
    <3> QED BY <1>2, <2>1, <3>1 DEF ShutInv, ServersRest, AllRest
  <2> QED BY <2>3, <2>4
<1>3. ASSUME NEW w \in Workers, Take(w)
      PROVE  ServersRest' /\ AllRest'
  <2>1. mode' = mode /\ mode # "down"
    BY <1>3 DEF Take, Receive, ShutInv, AllRest
  <2>2. \A h \in Servers : pc'[h] = pc[h]
    BY <1>3, Goroutines, ConstantsAssumption DEF Take, Begin, Goto, TypeOK
  <2> QED BY <2>1, <2>2 DEF ShutInv, ServersRest, AllRest
<1>4. ASSUME UNCHANGED <<mode, jobs, pc>>
      PROVE  ServersRest' /\ AllRest'
  BY <1>4 DEF ShutInv, ServersRest, AllRest
<1>5. CASE StopServing \/ Restart
  BY <1>5 DEF StopServing, Restart, ServersRest, AllRest
<1>6. CASE StopPool
  BY <1>6 DEF StopPool, ClosePool, Quiet, ServersRest, AllRest
<1>7. CASE Exit
  BY <1>7, Goroutines DEF Exit, ProcessEnds, ServersRest, AllRest
<1>8. ASSUME NEW h \in Servers, NEW u \in Updates,
             BeginUpdate(h, u) \/ SkipDuplicate(h, u) \/ BeginUpdateFails(h, u)
      PROVE  ServersRest' /\ AllRest'
  BY <1>1, <1>8 DEF BeginUpdate, SkipDuplicate, BeginUpdateFails, Posted
<1>9. ASSUME NEW a \in Actors, Serve(a) \/ Process(a)
      PROVE  mode' = mode
  BY <1>9 DEF Serve, Process, Dispatch, TurnAway, Handle, MarkDone, MarkFailed
<1>10. ~Crash /\ \A a \in Actors : ~Fault(a)
  BY DEF Quiet, Crash, Fault, TurnAwayFails, MarkDoneFails, MarkFailedFails
<1>11. ASSUME (\E u \in Updates : BecomesStale(u)) \/ UNCHANGED vars
      PROVE  ServersRest' /\ AllRest'
  BY <1>4, <1>11 DEF BecomesStale, vars
<1> QED
  BY <1>2, <1>3, <1>5, <1>6, <1>7, <1>8, <1>9, <1>10, <1>11, Goroutines DEF Next

(* A graceful shutdown leaves no row in "processing", if statements do not *)
(* fail, the process is not killed and the workers finish in time. *)
THEOREM NothingLeftBehind == ASSUME Quiet PROVE Spec => []NothingStuck
<1>1. Init => ShutInv
  BY DEF Init, ShutInv, Covered, ServersRest, AllRest
<1>2. TypeOK /\ ShutInv /\ [Next]_vars => ShutInv'
  BY CoverStep, RestStep DEF ShutInv
<1>3. TypeOK /\ ShutInv => NothingStuck
  <2> SUFFICES ASSUME TypeOK, ShutInv, mode = "down"
               PROVE  \A u \in Updates : ~AtWork(u)
    BY DEF NothingStuck, ShutInv, Covered
  <2>1. Len(jobs) = 0 /\ \A a \in Actors : on[a] = NoUpdate
    BY DEF ShutInv, AllRest, TypeOK
  <2> QED BY <2>1, Constants DEF AtWork, Queued
<1> QED BY <1>1, <1>2, <1>3, IntakeTyped, PTL DEF Spec

-----------------------------------------------------------------------------
(* Nothing is handled twice.                                               *)

(* What was served is done, or about to be, *)
ServedClosed ==
  \A u \in served :
    row[u] = "done" \/ \E a \in Actors : on[a] = u /\ pc[a] = "marking done"

(* and what is to be handled was not served yet. *)
FreshHands ==
  \A a \in Actors : pc[a] \in {"dispatching", "handling"} => on[a] \notin served

FreshQueue == \A i \in 1 .. Len(jobs) : jobs[i] \notin served

ServedInv == ServedClosed /\ FreshHands /\ FreshQueue

(* An update that may be begun was not served. *)
LEMMA BegunIsFresh ==
  ASSUME Leased, ServedInv, NEW u \in Updates, Begins(u)
  PROVE  u \notin served
<1>1. \A a \in Actors : on[a] # u
  BY BegunIsFree
<1>2. row[u] # "done"
  BY DEF Begins
<1> QED BY <1>1, <1>2 DEF ServedInv, ServedClosed

(* A step of one goroutine that serves nothing, queues nothing and leaves  *)
(* the rows of what was served alone. *)
LEMMA FreshKept ==
  ASSUME TypeOK, ServedInv, UNCHANGED served,
         \A u \in served : row[u] = "done" => row'[u] = "done",
         NEW a \in Actors, NEW stage \in Stages, NEW u, u = on[a] \/ u \notin served,
         pc' = [pc EXCEPT ![a] = stage],
         on' = [on EXCEPT ![a] = u],
         pc[a] = "marking done" => row'[on[a]] = "done",
         stage \in {"dispatching", "handling"} => u \notin served,
         \A i \in 1 .. Len(jobs') : jobs'[i] \notin served
  PROVE  ServedInv'
<1>1. \A b \in Actors : b # a => pc'[b] = pc[b] /\ on'[b] = on[b]
  BY DEF TypeOK
<1>2. pc'[a] = stage /\ on'[a] = u
  BY DEF TypeOK
<1>3. ServedClosed'
  <2> SUFFICES ASSUME NEW v \in served
               PROVE  row'[v] = "done" \/ \E b \in Actors : on'[b] = v /\ pc'[b] = "marking done"
    BY DEF ServedClosed
  <2>1. CASE row[v] = "done"
    BY <2>1
  <2>2. ASSUME NEW b \in Actors, on[b] = v, pc[b] = "marking done"
        PROVE  row'[v] = "done" \/ \E c \in Actors : on'[c] = v /\ pc'[c] = "marking done"
    BY <1>1, <2>2
  <2> QED BY <2>1, <2>2 DEF ServedInv, ServedClosed
<1>4. FreshHands'
  <2> SUFFICES ASSUME NEW b \in Actors, pc'[b] \in {"dispatching", "handling"}
               PROVE  on'[b] \notin served
    BY DEF FreshHands
  <2>1. CASE b = a
    BY <1>2, <2>1
  <2>2. CASE b # a
    BY <1>1, <2>2 DEF ServedInv, FreshHands
  <2> QED BY <2>1, <2>2
<1>5. FreshQueue'
  BY DEF FreshQueue
<1> QED BY <1>3, <1>4, <1>5 DEF ServedInv

(* Every step of a quiet system without slow handlers keeps them fresh. *)
LEMMA FreshStep ==
  ASSUME IInv, ShutInv, ServedInv, Quiet, "slow" \notin Faults, [Next]_vars
  PROVE  ServedInv'
<1> USE DEF pool, control
<1>0. TypeOK /\ Leased
  BY DEF IInv
<1>1. ASSUME UNCHANGED <<row, on, jobs, pc, served>>
      PROVE  ServedInv'
  BY <1>1 DEF ServedInv, ServedClosed, FreshHands, FreshQueue
<1>2. ASSUME NEW h \in Servers, NEW u \in Updates, BeginUpdate(h, u)
      PROVE  ServedInv'
  <2>1. u \notin served
    BY <1>0, <1>2, BegunIsFresh DEF BeginUpdate
  <2>2. \A v \in served : row[v] = "done" => row'[v] = "done"
    BY <1>0, <1>2, <2>1 DEF BeginUpdate, SetProcessing, TypeOK
  <2>3. h \in Actors /\ pc[h] = "idle"
    BY <1>2, Goroutines DEF BeginUpdate, Posted
  <2> QED
    BY <1>0, <1>2, <2>1, <2>2, <2>3, FreshKept
    DEF BeginUpdate, Begin, Goto, Stages, ServedInv, FreshQueue
<1>3. ASSUME NEW h \in Servers, Dispatch(h)
      PROVE  ServedInv'
  <2>1. h \in Actors /\ on[h] \notin served /\ on[h] \in Updates
    BY <1>0, <1>3, Goroutines, InHand DEF Dispatch, ServedInv, FreshHands
  <2>2. ASSUME NEW stage \in Stages, Continue(h, stage), UNCHANGED jobs
        PROVE  ServedInv'
    <3>1. on' = [on EXCEPT ![h] = on[h]]
      BY <1>0, <2>2 DEF Continue, TypeOK
    <3> QED
      BY <1>0, <1>3, <2>1, <2>2, <3>1, FreshKept
      DEF Dispatch, Continue, Goto, table, ServedInv, FreshQueue
  <2>3. CASE TrySubmit(on[h]) /\ Finish(h)
    <3>1. \A i \in 1 .. Len(jobs') : jobs'[i] \notin served
      BY <1>0, <2>1, <2>3 DEF TrySubmit, TypeOK, ServedInv, FreshQueue
    <3>2. NoUpdate \notin served
      BY <1>0, Constants DEF TypeOK
    <3> QED
      BY <1>0, <1>3, <2>1, <2>3, <3>1, <3>2, FreshKept DEF Dispatch, Finish, Goto, table, Stages
  <2> QED
    BY <1>3, <2>2, <2>3 DEF Dispatch, Stages
<1>4. ASSUME NEW a \in Actors, pc[a] \in {"turning away", "marking failed"},
             SetFailed(on[a]), Finish(a), UNCHANGED <<jobs, served>>
      PROVE  ServedInv'
  <2>1. \A v \in served : row[v] = "done" => row'[v] = "done"
    BY <1>0, <1>4 DEF SetFailed, TypeOK
  <2>2. NoUpdate \notin served
    BY <1>0, Constants DEF TypeOK
  <2> QED
    BY <1>0, <1>4, <2>1, <2>2, FreshKept DEF Finish, Goto, Stages, ServedInv, FreshQueue
<1>5. ASSUME NEW w \in Workers, Take(w)
      PROVE  ServedInv'
  <2>1. PICK u \in Updates : Receive(u) /\ Begin(w, u, "handling")
    BY <1>5 DEF Take
  <2>2. w \in Actors /\ pc[w] = "idle"
    BY <2>1, PoolGoroutines DEF Begin
  <2>3. /\ Len(jobs) \in Nat \ {0}
        /\ jobs[1] = u
        /\ Len(jobs') = Len(jobs) - 1
        /\ \A i \in 1 .. Len(jobs) - 1 : jobs'[i] = jobs[i + 1]
    BY <1>0, <2>1 DEF TypeOK, Receive
  <2>4. u \notin served /\ \A i \in 1 .. Len(jobs') : jobs'[i] \notin served
    BY <2>3 DEF ServedInv, FreshQueue
  <2> QED
    BY <1>0, <1>5, <2>1, <2>2, <2>4, FreshKept DEF Take, Begin, Goto, Stages, table
<1>6. ASSUME NEW a \in Actors, Handle(a)
      PROVE  ServedInv'
  <2>1. on[a] \in Updates /\ on[a] # NoUpdate
    BY <1>0, <1>6, InHand DEF Handle
  <2>2. CASE UNCHANGED served /\ Continue(a, "marking failed")
    <3>1. on' = [on EXCEPT ![a] = on[a]]
      BY <1>0, <2>2 DEF Continue, TypeOK
    <3> QED
      BY <1>0, <1>6, <2>2, <3>1, FreshKept
      DEF Handle, Continue, Goto, Stages, table, ServedInv, FreshQueue
  <2>3. CASE served' = served \cup {on[a]} /\ Continue(a, "marking done")
    <3>1. UNCHANGED <<row, on, jobs>>
      BY <1>6 DEF Handle, Continue, table
    <3>2. pc'[a] = "marking done" /\ \A b \in Actors : b # a => pc'[b] = pc[b] /\ on[b] # on[a]
      BY <1>0, <2>1, <2>3 DEF Continue, Goto, TypeOK, Leased, InOneHand
    <3>3. pc[a] = "handling"
      BY <1>6 DEF Handle
    <3>4. ServedClosed'
      <4> SUFFICES ASSUME NEW u \in served \cup {on[a]}
                   PROVE  row[u] = "done" \/ \E b \in Actors : on[b] = u /\ pc'[b] = "marking done"
        BY <2>3, <3>1 DEF ServedClosed
      <4>1. CASE u = on[a]
        BY <3>2, <4>1
      <4>2. ASSUME NEW b \in Actors, on[b] = u, pc[b] = "marking done"
            PROVE  pc'[b] = "marking done"
        BY <3>2, <3>3, <4>2
      <4> QED BY <4>1, <4>2 DEF ServedInv, ServedClosed
    <3>5. FreshHands'
      BY <2>3, <3>1, <3>2 DEF ServedInv, FreshHands
    <3>6. FreshQueue'
      BY <1>0, <2>3, <3>1 DEF ServedInv, FreshQueue, Leased, NotInHand
    <3> QED BY <3>4, <3>5, <3>6 DEF ServedInv
  <2> QED BY <1>6, <2>2, <2>3 DEF Handle
<1>7. ASSUME NEW a \in Actors, MarkDone(a)
      PROVE  ServedInv'
  <2>1. on[a] \in Updates /\ on[a] # NoUpdate
    BY <1>0, <1>7, InHand DEF MarkDone
  <2>2. NoUpdate \notin served
    BY <1>0, Constants DEF TypeOK
  <2>3. CASE SetDone(on[a]) /\ Succeed(a)
    <3>1. row'[on[a]] = "done" /\ \A v \in served : row[v] = "done" => row'[v] = "done"
      BY <1>0, <2>1, <2>3 DEF SetDone, TypeOK
    <3> QED
      BY <1>0, <1>7, <2>2, <2>3, <3>1, FreshKept
      DEF MarkDone, Succeed, Finish, Goto, Stages, ServedInv, FreshQueue
  <2>4. CASE row[on[a]] # "processing" /\ Continue(a, "marking failed") /\ UNCHANGED table
    <3>1. row[on[a]] = "done"
      BY <1>0, <2>1, <2>4 DEF Leased, HandsSafe, Safe
    <3>2. on' = [on EXCEPT ![a] = on[a]]
      BY <1>0, <2>4 DEF Continue, TypeOK
    <3> QED
      BY <1>0, <1>7, <2>4, <3>1, <3>2, FreshKept
      DEF MarkDone, Continue, Goto, Stages, table, ServedInv, FreshQueue
  <2> QED BY <1>7, <2>3, <2>4 DEF MarkDone
<1>8. ASSUME Exit
      PROVE  ServedInv'
  <2>1. \A a \in Actors : pc[a] = "idle"
    BY <1>8 DEF Exit, Drained, Quiet, ShutInv, ServersRest, Actors
  <2>2. \A v \in served : row[v] = "done"
    BY <2>1 DEF ServedInv, ServedClosed
  <2>3. UNCHANGED <<row, served>> /\ Len(jobs') = 0 /\ \A a \in Actors : pc'[a] = "idle"
    BY <1>8 DEF Exit, ProcessEnds, table
  <2>4. ServedClosed' /\ FreshHands'
    BY <2>2, <2>3 DEF ServedClosed, FreshHands
  <2>5. FreshQueue'
    BY <2>3 DEF FreshQueue
  <2> QED BY <2>4, <2>5 DEF ServedInv
<1>9. ASSUME NEW h \in Servers, NEW u \in Updates, SkipDuplicate(h, u)
      PROVE  ServedInv'
  BY <1>1, <1>9 DEF SkipDuplicate, table
<1>10. ASSUME NEW a \in Actors, TurnAway(a) \/ MarkFailed(a)
      PROVE  ServedInv'
  BY <1>4, <1>10 DEF TurnAway, MarkFailed
<1>11. ASSUME (\E u \in Updates : BecomesStale(u)) \/ StopServing \/ StopPool \/ Restart \/ UNCHANGED vars
      PROVE  ServedInv'
  BY <1>1, <1>11 DEF BecomesStale, StopServing, StopPool, Restart, ClosePool, vars, table
<1>12. ~Crash /\ \A h \in Servers, u \in Updates : ~BeginUpdateFails(h, u)
  BY DEF Quiet, Crash, BeginUpdateFails
<1>13. \A a \in Actors : ~Fault(a)
  BY DEF Quiet, Fault, TurnAwayFails, MarkDoneFails, MarkFailedFails
<1> QED
  BY <1>2, <1>3, <1>5, <1>6, <1>7, <1>8, <1>9, <1>10, <1>11, <1>12, <1>13, Goroutines
  DEF Next, Serve, Process

(* An update that was handled is never handled again, if statements do not *)
(* fail, the process is not killed and no handler outlives its lease:      *)
(* Telegram may repeat it as it likes. *)
THEOREM HandledOnce ==
  ASSUME Quiet, "slow" \notin Faults PROVE Spec => []ServedOnce
<1>1. Init => ShutInv
  BY DEF Init, ShutInv, Covered, ServersRest, AllRest
<1>2. Init => ServedInv
  <2> SUFFICES ASSUME Init PROVE ServedInv
    OBVIOUS
  <2>1. Len(jobs) = 0
    BY DEF Init, InitPool
  <2> QED BY <2>1 DEF Init, ServedInv, ServedClosed, FreshHands, FreshQueue
<1>3. IInv /\ ShutInv /\ ServedInv /\ [Next]_vars => ShutInv' /\ ServedInv'
  BY CoverStep, RestStep, FreshStep DEF ShutInv, IInv
<1>4. ServedInv => ServedOnce
  BY DEF ServedInv, FreshHands, ServedOnce
<1> QED BY <1>1, <1>2, <1>3, <1>4, IntakeInvariance, PTL DEF Spec

-----------------------------------------------------------------------------
(* What is answered with 200 the bot has.                                  *)

(* Only servers dispatch and turn away. *)
PoolPast == \A w \in Workers : pc[w] \notin {"dispatching", "turning away"}

(* A worker begins past the queue. *)
LEMMA PoolPastStep ==
  ASSUME TypeOK, PoolPast, [Next]_vars
  PROVE  PoolPast'
<1> USE DEF pool, control
<1>1. ASSUME NEW h \in Servers, NEW stage, pc' = [pc EXCEPT ![h] = stage]
      PROVE  PoolPast'
  BY <1>1, ConstantsAssumption DEF PoolPast, TypeOK, Actors
<1>2. ASSUME NEW a \in Actors, NEW stage, stage \notin {"dispatching", "turning away"},
             pc' = [pc EXCEPT ![a] = stage]
      PROVE  PoolPast'
  BY <1>2 DEF PoolPast, TypeOK, Actors
<1>3. ASSUME UNCHANGED pc PROVE PoolPast'
  BY <1>3 DEF PoolPast
<1>4. ASSUME NEW h \in Servers, Serve(h) PROVE PoolPast'
  BY <1>1, <1>4 DEF Serve, Dispatch, TurnAway, Continue, Finish, Goto
<1>5. ASSUME NEW h \in Servers, NEW u \in Updates,
             BeginUpdate(h, u) \/ SkipDuplicate(h, u) \/ BeginUpdateFails(h, u)
      PROVE  PoolPast'
  BY <1>1, <1>3, <1>5 DEF BeginUpdate, SkipDuplicate, BeginUpdateFails, Begin, Goto
<1>6. ASSUME NEW w \in Workers, Take(w) PROVE PoolPast'
  BY <1>2, <1>6, PoolGoroutines DEF Take, Begin, Goto
<1>7. ASSUME NEW a \in Actors, Process(a) \/ Fault(a) PROVE PoolPast'
  BY <1>2, <1>7 DEF Process, Fault, Handle, MarkDone, MarkFailed, TurnAwayFails, MarkDoneFails,
     MarkFailedFails, Succeed, Continue, Finish, Goto
<1>8. CASE Exit \/ Crash
  BY <1>8, PoolGoroutines DEF Exit, Crash, ProcessEnds, PoolPast
<1>9. CASE StopServing \/ StopPool \/ Restart \/ (\E u \in Updates : BecomesStale(u)) \/ UNCHANGED vars
  BY <1>3, <1>9 DEF StopServing, StopPool, Restart, BecomesStale, vars
<1> QED
  BY <1>4, <1>5, <1>6, <1>7, <1>8, <1>9 DEF Next

(* Telegram hears 200 of an update, *)
Answered(u) == u \in unanswered \ unanswered'

(* when it is queued, when a pre-checkout is done, or as a duplicate, of   *)
(* what is done or with somebody who is no server. *)
LEMMA AnsweredStep ==
  ASSUME IInv, ShutInv, PoolPast, "early" \notin Faults, [Next]_vars, NEW u \in Updates, Answered(u)
  PROVE  Has(u) \/ Queued(u)'
<1> USE DEF pool, control, Answered
<1>0. TypeOK
  BY DEF IInv
<1>1. ASSUME NEW h \in Servers, NEW v \in Updates, SkipDuplicate(h, v)
      PROVE  Has(u)
  <2>1. u = v
    BY <1>1 DEF SkipDuplicate, Answer
  <2>2. \A g \in Servers : on[g] # u
    BY <1>1, <2>1 DEF SkipDuplicate, Posted
  <2>3. CASE row[u] = "done"
    BY <2>3 DEF IInv, DoneIsServed, Has
  <2>4. CASE row[u] = "processing"
    <3>1. Queued(u) \/ \E w \in Workers : on[w] = u
      BY <2>2, <2>4 DEF ShutInv, Covered, AtWork, Actors
    <3>2. ASSUME NEW w \in Workers, on[w] = u PROVE Has(u)
      BY <1>0, <3>2, PoolGoroutines DEF Has, PoolPast
    <3> QED
      BY <3>1, <3>2 DEF Has
  <2> QED
    BY <1>0, <1>1, <2>1, <2>3, <2>4 DEF SkipDuplicate, Begins, TypeOK, RowStatus
<1>2. ASSUME NEW h \in Servers, Dispatch(h)
      PROVE  Queued(u)'
  <2>1. h \in Actors /\ u = on[h] /\ TrySubmit(on[h])
    BY <1>2, Goroutines DEF Dispatch, Answer
  <2>2. Len(jobs') \in 1 .. Len(jobs') /\ jobs'[Len(jobs')] = u
    BY <1>0, <2>1 DEF TypeOK, TrySubmit
  <2> QED
    BY <2>2 DEF Queued
<1>3. ASSUME NEW a \in Actors, MarkDone(a)
      PROVE  Has(u)
  <2>1. u = on[a] /\ pc[a] = "marking done"
    BY <1>3 DEF MarkDone, Succeed, Answer
  <2> QED
    BY <2>1 DEF Has
<1>4. ASSUME UNCHANGED unanswered PROVE FALSE
  BY <1>4
<1> QED
  BY <1>1, <1>2, <1>3, <1>4, Goroutines
  DEF Next, vars, Serve, Process, Fault, BeginUpdate, BeginUpdateFails, TurnAway, TurnAwayFails,
      Take, Handle, MarkDoneFails, MarkFailed, MarkFailedFails, BecomesStale, StopServing,
      StopPool, Exit, Crash, ProcessEnds, Restart

(* An update is answered with 200 only when the bot has it, if statements  *)
(* do not fail, the process is not killed, and Telegram waits for its      *)
(* answer: for any number of servers, also while handlers are slow and     *)
(* fail and restarts come in between.                                      *)
THEOREM AnsweredIsTaken ==
  ASSUME Quiet, "early" \notin Faults PROVE Spec => AnsweredIsHad
<1>1. Init => ShutInv /\ PoolPast
  BY PoolGoroutines DEF Init, ShutInv, Covered, ServersRest, AllRest, PoolPast
<1>2. IInv /\ ShutInv /\ PoolPast /\ [Next]_vars => ShutInv' /\ PoolPast'
  BY CoverStep, RestStep, PoolPastStep DEF ShutInv, IInv
<1>3. IInv /\ ShutInv /\ PoolPast /\ [Next]_vars =>
        [\A u \in unanswered \ unanswered' : Has(u) \/ Queued(u)']_vars
  <2> SUFFICES ASSUME IInv, ShutInv, PoolPast, [Next]_vars, NEW u \in unanswered \ unanswered'
               PROVE  Has(u) \/ Queued(u)'
    OBVIOUS
  <2>1. u \in Updates
    BY DEF IInv, TypeOK
  <2> QED
    BY <2>1, AnsweredStep DEF Answered
<1> QED BY <1>1, <1>2, <1>3, IntakeInvariance, PTL DEF Spec, AnsweredIsHad
=============================================================================
