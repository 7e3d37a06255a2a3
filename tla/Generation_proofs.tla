-------------------------- MODULE Generation_proofs --------------------------
(***************************************************************************)
(* Theorems about Generation, for every value of its constants: any number *)
(* of requests, accounts and workers, any set of faults.                   *)
(*                                                                         *)
(* IInv is the inductive invariant.  It says what a goroutine knows of its *)
(* job at each stage; the properties TLC checks follow from it.            *)
(***************************************************************************)
EXTENDS Generation, TLAPS

(* The columns of one request and its job agree. *)
RowAgrees(r) ==
  /\ job[r] = "none" <=> r \notin spent
  /\ req[r] = "none" => job[r] = "none"
  /\ req[r] = "ok" => job[r] = "done" /\ r \in delivered
  /\ req[r] = "failed" => job[r] = "failed"
  /\ req[r] \in {"queued", "ok"} => r \in spent
  /\ r \in refunded => req[r] = "failed"

RowsAgree == \A r \in Requests : RowAgrees(r)

(* A goroutine in the middle of a job holds one that was charged, and what *)
(* it saw of the job when it reached its stage is still so.                *)
HoldsItsJob(a) ==
  /\ pc[a] \in {"idle", "failing stale"} <=> on[a] = NoJob
  /\ on[a] # NoJob => on[a] \in spent
  /\ pc[a] = "marking" => on[a] \in delivered
  /\ pc[a] = "finishing" => job[on[a]] = "done" /\ on[a] \in delivered
  /\ pc[a] = "closing" => job[on[a]] = "failed" /\ on[a] \notin refunded
  /\ pc[a] = "refunding" => req[on[a]] = "failed" /\ on[a] \notin refunded

AllHold == \A a \in Actors : HoldsItsJob(a)

(* Workers and recoverer keep to their own stages. *)
OwnStages ==
  /\ \A w \in Workers : pc[w] # "failing stale"
  /\ pc[Recoverer] \in {"idle", "failing stale", "closing", "refunding"}

Closer(a) == pc[a] \in {"closing", "refunding"}

(* Nobody else closes a job that is being closed or waits to be. *)
ClosersAlone ==
  /\ \A a, b \in Actors : Closer(a) /\ Closer(b) /\ on[a] = on[b] => a = b
  /\ \A a \in Actors : Closer(a) => on[a] \notin todo

(* The rows the recoverer has yet to finalize are failed, not refunded. *)
TodoFailed == \A r \in todo : job[r] = "failed" /\ r \notin refunded

IInv == TypeOK /\ RowsAgree /\ AllHold /\ OwnStages /\ ClosersAlone /\ TodoFailed

(* What every step keeps: charges, deliveries, closed jobs and requests.   *)
Keeps ==
  /\ spent \subseteq spent'
  /\ delivered \subseteq delivered'
  /\ \A r \in Requests :
       /\ job[r] \in {"done", "failed"} => job'[r] = job[r]
       /\ req[r] \notin {"none", "queued"} => req'[r] = req[r]

-----------------------------------------------------------------------------
(* The bounds are natural numbers. *)
LEMMA BoundTypes == MaxAttempts \in [Requests -> Nat \ {0}] /\ MaxGrants \in Nat
  BY ConstantsAssumption DEF ConstantsAssumption

(* A request is paid from an account, at a price in credits. *)
LEMMA PriceTypes ==
  ASSUME NEW r \in Requests
  PROVE  AccountOf[r] \in Accounts /\ Cost[r] \in Nat
  BY ConstantsAssumption DEF ConstantsAssumption

(* NoJob is no request and the recoverer is no worker. *)
LEMMA Distinct == NoJob \notin Requests /\ Recoverer \notin Workers
  BY ConstantsAssumption DEF ConstantsAssumption

(* A goroutine in the middle of a job holds a charged request's. *)
LEMMA HeldIsRequest ==
  ASSUME IInv, NEW a \in Actors, pc[a] \notin {"idle", "failing stale"}
  PROVE  on[a] \in spent /\ on[a] \in Requests
  BY DEF IInv, AllHold, HoldsItsJob, TypeOK, MoneyOK

(* Moving to another stage keeps the types. *)
LEMMA GotoType ==
  ASSUME ControlOK, NEW a \in Actors, NEW s \in Stages, Goto(a, s), UNCHANGED <<on, tries, todo, mode>>
  PROVE  ControlOK'
  BY DEF ControlOK, Goto

(* Putting a job down keeps the types. *)
LEMMA ReleaseType ==
  ASSUME ControlOK, NEW a \in Actors, Release(a)
  PROVE  ControlOK'
<1>1. pc' \in [Actors -> Stages]
  BY DEF ControlOK, Release, Goto, Stages
<1>2. on' \in [Actors -> Requests \cup {NoJob}]
  BY DEF ControlOK, Release
<1>3. tries' \in [Actors -> Nat]
  BY DEF ControlOK, Release
<1> QED
  BY <1>1, <1>2, <1>3 DEF ControlOK, Release

(* handleFailedAttempt keeps the types. *)
LEMMA AttemptFailedType ==
  ASSUME ControlOK, NEW w \in Actors, NEW m \in BOOLEAN, AttemptFailed(w, m)
  PROVE  ControlOK'
<1>1. CASE Goto(w, "finalizing")
  BY <1>1, GotoType DEF AttemptFailed, Stages
<1>2. CASE Goto(w, "requeueing")
  BY <1>2, GotoType DEF AttemptFailed, Stages
<1> QED
  BY <1>1, <1>2 DEF AttemptFailed

(* An UPDATE of one row keeps the types of its columns. *)
LEMMA StatusType ==
  ASSUME RowsOK, NEW r \in Requests, NEW s \in JobStatus, SetStatus(r, s)
  PROVE  job' \in [Requests -> JobStatus] /\ stale' \subseteq Requests
  BY DEF RowsOK, SetStatus

(* An UPDATE of many rows keeps the types of their columns. *)
LEMMA StatusOfAllType ==
  ASSUME RowsOK, NEW S \in SUBSET Requests, NEW s \in JobStatus, SetStatusOfAll(S, s)
  PROVE  /\ job' \in [Requests -> JobStatus]
         /\ stale' \subseteq Requests
         /\ attempts' = attempts
  BY DEF RowsOK, SetStatusOfAll

(* Closing a job keeps the types. *)
LEMMA CloseType ==
  ASSUME RowsOK, NEW r \in Requests, NEW s \in JobStatus, Close(r, s), UNCHANGED <<req, delivered>>
  PROVE  RowsOK'
  BY StatusType DEF RowsOK, Close

(* Requeueing a job keeps the types. *)
LEMMA PutBackType ==
  ASSUME RowsOK, NEW r \in Requests, PutBack(r), UNCHANGED <<req, delivered>>
  PROVE  RowsOK'
  BY StatusType DEF RowsOK, PutBack, JobStatus

(* Claiming a job keeps the types; the guard on attempts bounds them. *)
LEMMA ClaimRowType ==
  ASSUME RowsOK, NEW r \in Requests, ClaimRow(r), UNCHANGED <<req, delivered>>
  PROVE  RowsOK' /\ attempts[r] + 1 \in Nat
<1>1. attempts[r] \in Nat /\ attempts[r] + 1 \in Nat /\ attempts[r] + 1 <= MaxAttempts[r]
  <2>1. attempts[r] \in Nat /\ attempts[r] < MaxAttempts[r]
    BY DEF RowsOK, ClaimRow, Claimable
  <2>2. MaxAttempts[r] \in Nat
    BY BoundTypes
  <2> QED
    BY <2>1, <2>2
<1>2. attempts' \in [Requests -> Nat] /\ \A q \in Requests : attempts'[q] <= MaxAttempts[q]
  BY <1>1 DEF RowsOK, ClaimRow
<1>3. job' \in [Requests -> JobStatus] /\ stale' \subseteq Requests
  BY StatusType DEF ClaimRow, JobStatus
<1> QED
  BY <1>1, <1>2, <1>3 DEF RowsOK, ClaimRow

(* A refund keeps the types. *)
LEMMA InsertRefundType ==
  ASSUME MoneyOK, NEW r \in Requests, InsertRefund(r), UNCHANGED <<granted, spent>>
  PROVE  MoneyOK'
<1>1. balance' \in [Accounts -> Nat]
  BY PriceTypes DEF MoneyOK, InsertRefund
<1>2. refunded' \subseteq Requests
  BY DEF MoneyOK, InsertRefund
<1> QED
  BY <1>1, <1>2 DEF MoneyOK

(* The two statements of a recovery pass keep the types. *)
LEMMA StaleRowsType ==
  ASSUME RowsOK, UNCHANGED <<req, delivered>>, RequeueStaleRows \/ FailStaleRows
  PROVE  RowsOK'
<1>1. Retryable \in SUBSET Requests /\ Exhausted \in SUBSET Requests
  BY DEF Retryable, Exhausted
<1>2. CASE RequeueStaleRows
  BY <1>1, <1>2, StatusOfAllType DEF RequeueStaleRows, RowsOK, JobStatus
<1>3. CASE FailStaleRows
  BY <1>1, <1>3, StatusOfAllType DEF FailStaleRows, RowsOK, JobStatus
<1> QED
  BY <1>2, <1>3

(* The end of the process keeps the types. *)
LEMMA ProcessEndsType ==
  ASSUME TypeOK, ProcessEnds
  PROVE  TypeOK'
<1>1. pc' \in [Actors -> Stages] /\ on' \in [Actors -> Requests \cup {NoJob}]
  BY DEF ProcessEnds, Stages
<1>2. tries' \in [Actors -> Nat]
  BY DEF ProcessEnds
<1> QED
  BY <1>1, <1>2 DEF TypeOK, RowsOK, MoneyOK, ControlOK, ProcessEnds, rows, queue, money

(* What a step leaves alone keeps its type. *)
LEMMA FrameType ==
  /\ RowsOK /\ UNCHANGED <<rows, delivered>> => RowsOK'
  /\ MoneyOK /\ UNCHANGED money => MoneyOK'
  /\ ControlOK /\ UNCHANGED control => ControlOK'
  BY DEF RowsOK, MoneyOK, ControlOK, rows, queue, money, control

(* Workers are actors. *)
LEMMA WorkerIsActor == \A w \in Workers : w \in Actors
  BY DEF Actors

(* The recoverer is an actor. *)
LEMMA RecovererIsActor == Recoverer \in Actors
  BY DEF Actors

(* Every step keeps TypeOK: rows, money and control one by one. *)
LEMMA TypeStep == IInv /\ [Next]_vars => TypeOK'
<1> SUFFICES ASSUME IInv, [Next]_vars PROVE TypeOK'
  OBVIOUS
<1> RowsOK /\ MoneyOK /\ ControlOK
  BY DEF IInv, TypeOK
<1>1. ASSUME NEW a \in Accounts, Grant(a) PROVE TypeOK'
  <2>1. RowsOK'
    BY <1>1, FrameType DEF Grant, control
  <2>2. MoneyOK'
    <3>1. balance' \in [Accounts -> Nat]
      BY <1>1 DEF Grant, MoneyOK
    <3>2. granted' \in [Accounts -> 0 .. MaxGrants]
      BY <1>1, BoundTypes DEF Grant, MoneyOK
    <3> QED
      BY <1>1, <3>1, <3>2 DEF Grant, MoneyOK
  <2>3. ControlOK'
    BY <1>1, FrameType DEF Grant
  <2> QED
    BY <2>1, <2>2, <2>3 DEF TypeOK
<1>2. ASSUME NEW r \in Requests, Submit(r) PROVE TypeOK'
  <2>1. RowsOK'
    <3>1. req' \in [Requests -> RequestStatus]
      BY <1>2 DEF Submit, RowsOK, RequestStatus
    <3>2. job' \in [Requests -> JobStatus] /\ stale' \subseteq Requests
      BY <1>2, StatusType DEF Submit, RowsOK, JobStatus
    <3> QED
      BY <1>2, <3>1, <3>2 DEF Submit, RowsOK
  <2>2. MoneyOK'
    <3>1. balance' \in [Accounts -> Nat]
      BY <1>2, PriceTypes DEF Submit, Solvent, MoneyOK
    <3> QED
      BY <1>2, <3>1 DEF Submit, MoneyOK
  <2>3. ControlOK'
    BY <1>2, FrameType DEF Submit
  <2> QED
    BY <2>1, <2>2, <2>3 DEF TypeOK
<1>3. ASSUME NEW r \in Requests, Resubmit(r) PROVE TypeOK'
  <2>1. RowsOK'
    <3>1. req' \in [Requests -> RequestStatus]
      BY <1>3 DEF Resubmit, RowsOK, RequestStatus
    <3> QED
      BY <1>3, <3>1 DEF Resubmit, RowsOK
  <2>2. MoneyOK'
    BY <1>3, FrameType DEF Resubmit
  <2>3. ControlOK'
    BY <1>3, FrameType DEF Resubmit
  <2> QED
    BY <2>1, <2>2, <2>3 DEF TypeOK
<1>4. ASSUME NEW r \in Requests, BackoffEnds(r) PROVE TypeOK'
  <2>1. RowsOK'
    BY <1>4 DEF BackoffEnds, RowsOK
  <2>2. MoneyOK'
    BY <1>4, FrameType DEF BackoffEnds
  <2>3. ControlOK'
    BY <1>4, FrameType DEF BackoffEnds
  <2> QED
    BY <2>1, <2>2, <2>3 DEF TypeOK
<1>5. ASSUME NEW r \in Requests, BecomesStale(r) PROVE TypeOK'
  <2>1. RowsOK'
    BY <1>5 DEF BecomesStale, RowsOK
  <2>2. MoneyOK'
    BY <1>5, FrameType DEF BecomesStale
  <2>3. ControlOK'
    BY <1>5, FrameType DEF BecomesStale
  <2> QED
    BY <2>1, <2>2, <2>3 DEF TypeOK
<1>6. ASSUME NEW w \in Workers, Claim(w) PROVE TypeOK'
  <2>1. RowsOK'
    BY <1>6, ClaimRowType DEF Claim
  <2>2. MoneyOK'
    BY <1>6, FrameType DEF Claim
  <2>3. ControlOK'
    <3> PICK r \in Requests : /\ ClaimRow(r)
                              /\ on' = [on EXCEPT ![w] = r]
                              /\ tries' = [tries EXCEPT ![w] = attempts[r] + 1]
      BY <1>6 DEF Claim
    <3>1. attempts[r] + 1 \in Nat
      BY <1>6, ClaimRowType DEF Claim
    <3>2. pc' \in [Actors -> Stages]
      BY <1>6 DEF Claim, Goto, ControlOK, Stages
    <3> QED
      BY <1>6, <3>1, <3>2 DEF Claim, ControlOK
  <2> QED
    BY <2>1, <2>2, <2>3 DEF TypeOK
<1>7. ASSUME ClaimAnswerLost PROVE TypeOK'
  <2>1. RowsOK'
    BY <1>7, ClaimRowType DEF ClaimAnswerLost
  <2>2. MoneyOK'
    BY <1>7, FrameType DEF ClaimAnswerLost
  <2>3. ControlOK'
    BY <1>7, FrameType DEF ClaimAnswerLost
  <2> QED
    BY <2>1, <2>2, <2>3 DEF TypeOK
<1>8. ASSUME NEW w \in Workers, Generate(w) PROVE TypeOK'
  <2>1. RowsOK'
    BY <1>8, FrameType DEF Generate
  <2>2. MoneyOK'
    BY <1>8, FrameType DEF Generate
  <2>3. ControlOK'
    BY <1>8, WorkerIsActor, GotoType, AttemptFailedType DEF Generate, Stages
  <2> QED
    BY <2>1, <2>2, <2>3 DEF TypeOK
<1>9. ASSUME NEW w \in Workers, Send(w) PROVE TypeOK'
  <2>1. RowsOK'
    <3>1. on[w] \in Requests
      BY <1>9, HeldIsRequest, WorkerIsActor DEF Send
    <3> QED
      BY <1>9, <3>1 DEF Send, RowsOK, rows, queue
  <2>2. MoneyOK'
    BY <1>9, FrameType DEF Send
  <2>3. ControlOK'
    BY <1>9, WorkerIsActor, GotoType, AttemptFailedType DEF Send, Stages
  <2> QED
    BY <2>1, <2>2, <2>3 DEF TypeOK
<1>10. ASSUME NEW w \in Workers, Panic(w) PROVE TypeOK'
  <2>1. RowsOK'
    BY <1>10, FrameType DEF Panic
  <2>2. MoneyOK'
    BY <1>10, FrameType DEF Panic
  <2>3. ControlOK'
    BY <1>10, WorkerIsActor, AttemptFailedType DEF Panic
  <2> QED
    BY <2>1, <2>2, <2>3 DEF TypeOK
<1>11. ASSUME NEW w \in Workers, MarkDone(w) PROVE TypeOK'
  <2>1. RowsOK'
    <3>1. on[w] \in Requests
      BY <1>11, HeldIsRequest, WorkerIsActor DEF MarkDone
    <3> QED
      BY <1>11, <3>1, CloseType, FrameType DEF MarkDone, JobStatus, rows
  <2>2. MoneyOK'
    BY <1>11, FrameType DEF MarkDone
  <2>3. ControlOK'
    BY <1>11, WorkerIsActor, GotoType, ReleaseType DEF MarkDone, Stages
  <2> QED
    BY <2>1, <2>2, <2>3 DEF TypeOK
<1>12. ASSUME NEW w \in Workers, MarkDoneFails(w) PROVE TypeOK'
  <2>1. RowsOK'
    <3>1. on[w] \in Requests
      BY <1>12, HeldIsRequest, WorkerIsActor DEF MarkDoneFails
    <3> QED
      BY <1>12, <3>1, CloseType, FrameType DEF MarkDoneFails, JobStatus, rows
  <2>2. MoneyOK'
    BY <1>12, FrameType DEF MarkDoneFails
  <2>3. ControlOK'
    BY <1>12, WorkerIsActor, ReleaseType DEF MarkDoneFails
  <2> QED
    BY <2>1, <2>2, <2>3 DEF TypeOK
<1>13. ASSUME NEW w \in Workers, FinishRequest(w) PROVE TypeOK'
  <2>1. RowsOK'
    <3>1. req' \in [Requests -> RequestStatus]
      BY <1>13 DEF FinishRequest, RowsOK, RequestStatus
    <3> QED
      BY <1>13, <3>1 DEF FinishRequest, RowsOK, queue
  <2>2. MoneyOK'
    BY <1>13, FrameType DEF FinishRequest
  <2>3. ControlOK'
    BY <1>13, WorkerIsActor, ReleaseType DEF FinishRequest
  <2> QED
    BY <2>1, <2>2, <2>3 DEF TypeOK
<1>14. ASSUME NEW w \in Workers, FinishRequestFails(w) PROVE TypeOK'
  <2>1. RowsOK'
    BY <1>14, FrameType DEF FinishRequestFails
  <2>2. MoneyOK'
    BY <1>14, FrameType DEF FinishRequestFails
  <2>3. ControlOK'
    BY <1>14, WorkerIsActor, ReleaseType DEF FinishRequestFails
  <2> QED
    BY <2>1, <2>2, <2>3 DEF TypeOK
<1>15. ASSUME NEW w \in Workers, Requeue(w) PROVE TypeOK'
  <2>1. RowsOK'
    <3>1. on[w] \in Requests
      BY <1>15, HeldIsRequest, WorkerIsActor DEF Requeue
    <3> QED
      BY <1>15, <3>1, PutBackType, FrameType DEF Requeue, JobStatus, rows
  <2>2. MoneyOK'
    BY <1>15, FrameType DEF Requeue
  <2>3. ControlOK'
    BY <1>15, WorkerIsActor, ReleaseType DEF Requeue
  <2> QED
    BY <2>1, <2>2, <2>3 DEF TypeOK
<1>16. ASSUME NEW w \in Workers, RequeueFails(w) PROVE TypeOK'
  <2>1. RowsOK'
    <3>1. on[w] \in Requests
      BY <1>16, HeldIsRequest, WorkerIsActor DEF RequeueFails
    <3> QED
      BY <1>16, <3>1, PutBackType, FrameType DEF RequeueFails, JobStatus, rows
  <2>2. MoneyOK'
    BY <1>16, FrameType DEF RequeueFails
  <2>3. ControlOK'
    BY <1>16, WorkerIsActor, GotoType DEF RequeueFails, Stages
  <2> QED
    BY <2>1, <2>2, <2>3 DEF TypeOK
<1>17. ASSUME NEW w \in Workers, Finalize(w) PROVE TypeOK'
  <2>1. RowsOK'
    <3>1. on[w] \in Requests
      BY <1>17, HeldIsRequest, WorkerIsActor DEF Finalize
    <3> QED
      BY <1>17, <3>1, CloseType, FrameType DEF Finalize, JobStatus, rows
  <2>2. MoneyOK'
    BY <1>17, FrameType DEF Finalize
  <2>3. ControlOK'
    BY <1>17, WorkerIsActor, GotoType, ReleaseType DEF Finalize, Stages
  <2> QED
    BY <2>1, <2>2, <2>3 DEF TypeOK
<1>18. ASSUME NEW w \in Workers, FinalizeFails(w) PROVE TypeOK'
  <2>1. RowsOK'
    <3>1. on[w] \in Requests
      BY <1>18, HeldIsRequest, WorkerIsActor DEF FinalizeFails
    <3> QED
      BY <1>18, <3>1, CloseType, FrameType DEF FinalizeFails, JobStatus, rows
  <2>2. MoneyOK'
    BY <1>18, FrameType DEF FinalizeFails
  <2>3. ControlOK'
    BY <1>18, WorkerIsActor, ReleaseType DEF FinalizeFails
  <2> QED
    BY <2>1, <2>2, <2>3 DEF TypeOK
<1>19. ASSUME NEW a \in Actors, FailRequest(a) PROVE TypeOK'
  <2>1. RowsOK'
    <3>1. req' \in [Requests -> RequestStatus]
      BY <1>19 DEF FailRequest, RowsOK, RequestStatus
    <3> QED
      BY <1>19, <3>1 DEF FailRequest, RowsOK, queue
  <2>2. MoneyOK'
    BY <1>19, FrameType DEF FailRequest
  <2>3. ControlOK'
    BY <1>19, GotoType, ReleaseType DEF FailRequest, Stages
  <2> QED
    BY <2>1, <2>2, <2>3 DEF TypeOK
<1>20. ASSUME NEW a \in Actors, FailRequestFails(a) PROVE TypeOK'
  <2>1. RowsOK'
    <3>1. req' \in [Requests -> RequestStatus]
      BY <1>20 DEF FailRequestFails, RowsOK, RequestStatus
    <3> QED
      BY <1>20, <3>1 DEF FailRequestFails, RowsOK, queue
  <2>2. MoneyOK'
    BY <1>20, FrameType DEF FailRequestFails
  <2>3. ControlOK'
    BY <1>20, GotoType, ReleaseType DEF FailRequestFails, Stages
  <2> QED
    BY <2>1, <2>2, <2>3 DEF TypeOK
<1>21. ASSUME NEW a \in Actors, Refund(a) PROVE TypeOK'
  <2>1. RowsOK'
    BY <1>21, FrameType DEF Refund
  <2>2. MoneyOK'
    <3>1. on[a] \in Requests
      BY <1>21, HeldIsRequest DEF Refund
    <3> QED
      BY <1>21, <3>1, InsertRefundType, FrameType DEF Refund, money
  <2>3. ControlOK'
    BY <1>21, ReleaseType DEF Refund
  <2> QED
    BY <2>1, <2>2, <2>3 DEF TypeOK
<1>22. ASSUME NEW a \in Actors, RefundFails(a) PROVE TypeOK'
  <2>1. RowsOK'
    BY <1>22, FrameType DEF RefundFails
  <2>2. MoneyOK'
    <3>1. on[a] \in Requests
      BY <1>22, HeldIsRequest DEF RefundFails
    <3> QED
      BY <1>22, <3>1, InsertRefundType, FrameType DEF RefundFails, money
  <2>3. ControlOK'
    BY <1>22, ReleaseType DEF RefundFails
  <2> QED
    BY <2>1, <2>2, <2>3 DEF TypeOK
<1>23. ASSUME RequeueStale PROVE TypeOK'
  <2>1. RowsOK'
    BY <1>23, StaleRowsType DEF RequeueStale
  <2>2. MoneyOK'
    BY <1>23, FrameType DEF RequeueStale
  <2>3. ControlOK'
    BY <1>23, RecovererIsActor, GotoType DEF RequeueStale, Stages
  <2> QED
    BY <2>1, <2>2, <2>3 DEF TypeOK
<1>24. ASSUME RequeueStaleFails PROVE TypeOK'
  <2>1. RowsOK'
    BY <1>24, StaleRowsType DEF RequeueStaleFails
  <2>2. MoneyOK'
    BY <1>24, FrameType DEF RequeueStaleFails
  <2>3. ControlOK'
    BY <1>24, FrameType DEF RequeueStaleFails
  <2> QED
    BY <2>1, <2>2, <2>3 DEF TypeOK
<1>25. ASSUME FailStale PROVE TypeOK'
  <2>1. RowsOK'
    BY <1>25, StaleRowsType DEF FailStale
  <2>2. MoneyOK'
    BY <1>25, FrameType DEF FailStale
  <2>3. ControlOK'
    <3>1. pc' \in [Actors -> Stages]
      BY <1>25 DEF FailStale, Goto, ControlOK, Stages
    <3>2. todo' \subseteq Requests
      BY <1>25 DEF FailStale, Exhausted
    <3> QED
      BY <1>25, <3>1, <3>2 DEF FailStale, ControlOK
  <2> QED
    BY <2>1, <2>2, <2>3 DEF TypeOK
<1>26. ASSUME FailStaleFails PROVE TypeOK'
  <2>1. RowsOK'
    BY <1>26, StaleRowsType, FrameType DEF FailStaleFails, rows
  <2>2. MoneyOK'
    BY <1>26, FrameType DEF FailStaleFails
  <2>3. ControlOK'
    BY <1>26, RecovererIsActor, ReleaseType DEF FailStaleFails
  <2> QED
    BY <2>1, <2>2, <2>3 DEF TypeOK
<1>27. ASSUME NEW r \in Requests, FinalizeStale(r) PROVE TypeOK'
  <2>1. RowsOK'
    BY <1>27, FrameType DEF FinalizeStale
  <2>2. MoneyOK'
    BY <1>27, FrameType DEF FinalizeStale
  <2>3. ControlOK'
    <3>1. pc' \in [Actors -> Stages]
      BY <1>27 DEF FinalizeStale, Goto, ControlOK, Stages
    <3>2. on' \in [Actors -> Requests \cup {NoJob}]
      BY <1>27 DEF FinalizeStale, ControlOK
    <3> QED
      BY <1>27, <3>1, <3>2 DEF FinalizeStale, ControlOK
  <2> QED
    BY <2>1, <2>2, <2>3 DEF TypeOK
<1>28. ASSUME Crash PROVE TypeOK'
  BY <1>28, ProcessEndsType DEF Crash, TypeOK
<1>29. ASSUME Stop PROVE TypeOK'
  <2>1. RowsOK'
    BY <1>29, FrameType DEF Stop
  <2>2. MoneyOK'
    BY <1>29, FrameType DEF Stop
  <2>3. ControlOK'
    BY <1>29 DEF Stop, ControlOK
  <2> QED
    BY <2>1, <2>2, <2>3 DEF TypeOK
<1>30. ASSUME Exit PROVE TypeOK'
  BY <1>30, ProcessEndsType DEF Exit, TypeOK
<1>31. ASSUME Restart PROVE TypeOK'
  <2>1. RowsOK'
    BY <1>31, FrameType DEF Restart
  <2>2. MoneyOK'
    BY <1>31, FrameType DEF Restart
  <2>3. ControlOK'
    BY <1>31 DEF Restart, ControlOK
  <2> QED
    BY <2>1, <2>2, <2>3 DEF TypeOK
<1>32. CASE UNCHANGED vars
  BY <1>32, FrameType DEF vars, TypeOK
<1> QED
  BY <1>1, <1>2, <1>3, <1>4, <1>5, <1>6, <1>7, <1>8, <1>9, <1>10, <1>11, <1>12, <1>13,
     <1>14, <1>15, <1>16, <1>17, <1>18, <1>19, <1>20, <1>21, <1>22, <1>23, <1>24, <1>25,
     <1>26, <1>27, <1>28, <1>29, <1>30, <1>31, <1>32
  DEF Next, WorkerStep, WorkerFault, SideEffect, SideEffectFault, Recover, RecoverFault, Process

(* An UPDATE of an open job leaves the closed ones alone. *)
LEMMA StatusKeeps ==
  ASSUME NEW r, NEW s, SetStatus(r, s), RowsOK, job[r] \notin {"done", "failed"}
  PROVE  \A q \in Requests : job[q] \in {"done", "failed"} => job'[q] = job[q]
  BY DEF SetStatus, RowsOK

(* A recovery pass leaves the closed jobs alone. *)
LEMMA StaleRowsKeep ==
  ASSUME RequeueStaleRows \/ FailStaleRows
  PROVE  \A q \in Requests : job[q] \in {"done", "failed"} => job'[q] = job[q]
  BY DEF RequeueStaleRows, FailStaleRows, SetStatusOfAll, Retryable, Exhausted, Stale

(* Every step keeps charges, deliveries, closed jobs and requests. *)
LEMMA KeepsStep == IInv /\ [Next]_vars => Keeps
<1> SUFFICES ASSUME IInv, [Next]_vars PROVE Keeps
  OBVIOUS
<1> RowsOK
  BY DEF IInv, TypeOK
<1>1. ASSUME NEW a \in Accounts, Grant(a) PROVE Keeps
  BY <1>1 DEF Grant, Keeps, rows, queue, money
<1>2. ASSUME NEW r \in Requests, Submit(r) PROVE Keeps
  <2>1. job[r] = "none"
    BY <1>2 DEF Submit, NextId, IInv, RowsAgree, RowAgrees
  <2> QED
    BY <1>2, <2>1, StatusKeeps DEF Submit, NextId, Keeps, RowsOK
<1>3. ASSUME NEW r \in Requests, Resubmit(r) PROVE Keeps
  BY <1>3 DEF Resubmit, Keeps, money, RowsOK
<1>4. ASSUME NEW r \in Requests, BackoffEnds(r) PROVE Keeps
  BY <1>4 DEF BackoffEnds, Keeps, rows, queue, money
<1>5. ASSUME NEW r \in Requests, BecomesStale(r) PROVE Keeps
  BY <1>5 DEF BecomesStale, Keeps, rows, queue, money
<1>6. ASSUME NEW w \in Workers, Claim(w) PROVE Keeps
  BY <1>6, StatusKeeps DEF Claim, ClaimRow, Claimable, Keeps, money
<1>7. ASSUME ClaimAnswerLost PROVE Keeps
  BY <1>7, StatusKeeps DEF ClaimAnswerLost, ClaimRow, Claimable, Keeps, money
<1>8. ASSUME NEW w \in Workers, Generate(w) PROVE Keeps
  BY <1>8 DEF Generate, Keeps, rows, queue, money
<1>9. ASSUME NEW w \in Workers, Send(w) PROVE Keeps
  BY <1>9 DEF Send, Keeps, rows, queue, money
<1>10. ASSUME NEW w \in Workers, Panic(w) PROVE Keeps
  BY <1>10 DEF Panic, Keeps, rows, queue, money
<1>11. ASSUME NEW w \in Workers, MarkDone(w) PROVE Keeps
  BY <1>11, StatusKeeps DEF MarkDone, Close, Keeps, queue, money
<1>12. ASSUME NEW w \in Workers, MarkDoneFails(w) PROVE Keeps
  BY <1>12, StatusKeeps DEF MarkDoneFails, Close, Keeps, queue, money
<1>13. ASSUME NEW w \in Workers, FinishRequest(w) PROVE Keeps
  BY <1>13 DEF FinishRequest, Keeps, queue, money, RowsOK
<1>14. ASSUME NEW w \in Workers, FinishRequestFails(w) PROVE Keeps
  BY <1>14 DEF FinishRequestFails, Keeps, rows, queue, money
<1>15. ASSUME NEW w \in Workers, Requeue(w) PROVE Keeps
  BY <1>15, StatusKeeps DEF Requeue, PutBack, Keeps, queue, money
<1>16. ASSUME NEW w \in Workers, RequeueFails(w) PROVE Keeps
  BY <1>16, StatusKeeps DEF RequeueFails, PutBack, Keeps, queue, money
<1>17. ASSUME NEW w \in Workers, Finalize(w) PROVE Keeps
  BY <1>17, StatusKeeps DEF Finalize, Close, Keeps, queue, money
<1>18. ASSUME NEW w \in Workers, FinalizeFails(w) PROVE Keeps
  BY <1>18, StatusKeeps DEF FinalizeFails, Close, Keeps, queue, money
<1>19. ASSUME NEW a \in Actors, FailRequest(a) PROVE Keeps
  BY <1>19 DEF FailRequest, Keeps, queue, money, RowsOK
<1>20. ASSUME NEW a \in Actors, FailRequestFails(a) PROVE Keeps
  BY <1>20 DEF FailRequestFails, Keeps, queue, money, RowsOK
<1>21. ASSUME NEW a \in Actors, Refund(a) PROVE Keeps
  BY <1>21 DEF Refund, Keeps, rows, queue, money
<1>22. ASSUME NEW a \in Actors, RefundFails(a) PROVE Keeps
  BY <1>22 DEF RefundFails, Keeps, rows, queue, money
<1>23. ASSUME RequeueStale PROVE Keeps
  BY <1>23, StaleRowsKeep DEF RequeueStale, Keeps, queue, money
<1>24. ASSUME RequeueStaleFails PROVE Keeps
  BY <1>24, StaleRowsKeep DEF RequeueStaleFails, Keeps, queue, money
<1>25. ASSUME FailStale PROVE Keeps
  BY <1>25, StaleRowsKeep DEF FailStale, Keeps, queue, money
<1>26. ASSUME FailStaleFails PROVE Keeps
  BY <1>26, StaleRowsKeep DEF FailStaleFails, Keeps, queue, money
<1>27. ASSUME NEW r \in Requests, FinalizeStale(r) PROVE Keeps
  BY <1>27 DEF FinalizeStale, Keeps, rows, queue, money
<1>28. ASSUME Crash PROVE Keeps
  BY <1>28 DEF Crash, ProcessEnds, Keeps, rows, queue, money
<1>29. ASSUME Stop PROVE Keeps
  BY <1>29 DEF Stop, Keeps, rows, queue, money
<1>30. ASSUME Exit PROVE Keeps
  BY <1>30 DEF Exit, ProcessEnds, Keeps, rows, queue, money
<1>31. ASSUME Restart PROVE Keeps
  BY <1>31 DEF Restart, Keeps, rows, queue, money
<1>32. CASE UNCHANGED vars
  BY <1>32 DEF vars, Keeps, rows, queue, money
<1> QED
  BY <1>1, <1>2, <1>3, <1>4, <1>5, <1>6, <1>7, <1>8, <1>9, <1>10, <1>11, <1>12, <1>13,
     <1>14, <1>15, <1>16, <1>17, <1>18, <1>19, <1>20, <1>21, <1>22, <1>23, <1>24, <1>25,
     <1>26, <1>27, <1>28, <1>29, <1>30, <1>31, <1>32
  DEF Next, WorkerStep, WorkerFault, SideEffect, SideEffectFault, Recover, RecoverFault, Process

(* Every step keeps the columns of each request in agreement. *)
LEMMA RowsStep == IInv /\ [Next]_vars => RowsAgree'
<1> SUFFICES ASSUME IInv, [Next]_vars, NEW q \in Requests PROVE RowAgrees(q)'
  BY DEF RowsAgree
<1> RowAgrees(q) /\ RowsOK
  BY DEF IInv, RowsAgree, TypeOK
<1>1. ASSUME NEW a \in Accounts, Grant(a) PROVE RowAgrees(q)'
  BY <1>1 DEF Grant, RowAgrees, rows, queue, money
<1>2. ASSUME NEW r \in Requests, Submit(r) PROVE RowAgrees(q)'
  BY <1>2 DEF Submit, SetStatus, NextId, RowsOK, RowAgrees
<1>3. ASSUME NEW r \in Requests, Resubmit(r) PROVE RowAgrees(q)'
  BY <1>3 DEF Resubmit, RowAgrees, RowsOK, money
<1>4. ASSUME NEW r \in Requests, BackoffEnds(r) PROVE RowAgrees(q)'
  BY <1>4 DEF BackoffEnds, RowAgrees, rows, queue, money
<1>5. ASSUME NEW r \in Requests, BecomesStale(r) PROVE RowAgrees(q)'
  BY <1>5 DEF BecomesStale, RowAgrees, rows, queue, money
<1>6. ASSUME NEW w \in Workers, Claim(w) PROVE RowAgrees(q)'
  BY <1>6 DEF Claim, ClaimRow, Claimable, SetStatus, RowAgrees, RowsOK, money
<1>7. ASSUME ClaimAnswerLost PROVE RowAgrees(q)'
  BY <1>7 DEF ClaimAnswerLost, ClaimRow, Claimable, SetStatus, RowAgrees, RowsOK, money
<1>8. ASSUME NEW w \in Workers, Generate(w) PROVE RowAgrees(q)'
  BY <1>8 DEF Generate, RowAgrees, rows, queue, money
<1>9. ASSUME NEW w \in Workers, Send(w) PROVE RowAgrees(q)'
  BY <1>9 DEF Send, RowAgrees, rows, queue, money
<1>10. ASSUME NEW w \in Workers, Panic(w) PROVE RowAgrees(q)'
  BY <1>10 DEF Panic, RowAgrees, rows, queue, money
<1>11. ASSUME NEW w \in Workers, MarkDone(w) PROVE RowAgrees(q)'
  BY <1>11 DEF MarkDone, Close, SetStatus, RowAgrees, RowsOK, queue, money
<1>12. ASSUME NEW w \in Workers, MarkDoneFails(w) PROVE RowAgrees(q)'
  BY <1>12 DEF MarkDoneFails, Close, SetStatus, RowAgrees, RowsOK, queue, money
<1>13. ASSUME NEW w \in Workers, FinishRequest(w) PROVE RowAgrees(q)'
  <2>1. job[on[w]] = "done" /\ on[w] \in delivered /\ on[w] \in spent
    BY <1>13, HeldIsRequest, WorkerIsActor DEF FinishRequest, IInv, AllHold, HoldsItsJob
  <2> QED
    BY <1>13, <2>1 DEF FinishRequest, RowAgrees, RowsOK, queue, money
<1>14. ASSUME NEW w \in Workers, FinishRequestFails(w) PROVE RowAgrees(q)'
  BY <1>14 DEF FinishRequestFails, RowAgrees, rows, queue, money
<1>15. ASSUME NEW w \in Workers, Requeue(w) PROVE RowAgrees(q)'
  BY <1>15 DEF Requeue, PutBack, SetStatus, RowAgrees, RowsOK, queue, money
<1>16. ASSUME NEW w \in Workers, RequeueFails(w) PROVE RowAgrees(q)'
  BY <1>16 DEF RequeueFails, PutBack, SetStatus, RowAgrees, RowsOK, queue, money
<1>17. ASSUME NEW w \in Workers, Finalize(w) PROVE RowAgrees(q)'
  BY <1>17 DEF Finalize, Close, SetStatus, RowAgrees, RowsOK, queue, money
<1>18. ASSUME NEW w \in Workers, FinalizeFails(w) PROVE RowAgrees(q)'
  BY <1>18 DEF FinalizeFails, Close, SetStatus, RowAgrees, RowsOK, queue, money
<1>19. ASSUME NEW a \in Actors, FailRequest(a) PROVE RowAgrees(q)'
  <2>1. job[on[a]] = "failed"
    BY <1>19 DEF FailRequest, IInv, AllHold, HoldsItsJob
  <2> QED
    BY <1>19, <2>1 DEF FailRequest, RowAgrees, RowsOK, queue, money
<1>20. ASSUME NEW a \in Actors, FailRequestFails(a) PROVE RowAgrees(q)'
  <2>1. job[on[a]] = "failed"
    BY <1>20 DEF FailRequestFails, IInv, AllHold, HoldsItsJob
  <2> QED
    BY <1>20, <2>1 DEF FailRequestFails, RowAgrees, RowsOK, queue, money
<1>21. ASSUME NEW a \in Actors, Refund(a) PROVE RowAgrees(q)'
  <2>1. req[on[a]] = "failed"
    BY <1>21 DEF Refund, IInv, AllHold, HoldsItsJob
  <2> QED
    BY <1>21, <2>1 DEF Refund, InsertRefund, RowAgrees, rows, queue
<1>22. ASSUME NEW a \in Actors, RefundFails(a) PROVE RowAgrees(q)'
  <2>1. req[on[a]] = "failed"
    BY <1>22 DEF RefundFails, IInv, AllHold, HoldsItsJob
  <2> QED
    BY <1>22, <2>1 DEF RefundFails, InsertRefund, RowAgrees, rows, queue
<1>23. ASSUME RequeueStale PROVE RowAgrees(q)'
  BY <1>23 DEF RequeueStale, RequeueStaleRows, SetStatusOfAll, Retryable, Stale,
     RowAgrees, queue, money
<1>24. ASSUME RequeueStaleFails PROVE RowAgrees(q)'
  BY <1>24 DEF RequeueStaleFails, RequeueStaleRows, SetStatusOfAll, Retryable, Stale,
     RowAgrees, queue, money
<1>25. ASSUME FailStale PROVE RowAgrees(q)'
  BY <1>25 DEF FailStale, FailStaleRows, SetStatusOfAll, Exhausted, Stale, RowAgrees,
     queue, money
<1>26. ASSUME FailStaleFails PROVE RowAgrees(q)'
  <2>1. CASE UNCHANGED queue
    BY <1>26, <2>1 DEF FailStaleFails, RowAgrees, queue, money
  <2>2. CASE FailStaleRows
    BY <1>26, <2>2 DEF FailStaleFails, FailStaleRows, SetStatusOfAll, Exhausted, Stale,
       RowAgrees, money
  <2> QED
    BY <1>26, <2>1, <2>2 DEF FailStaleFails
<1>27. ASSUME NEW r \in Requests, FinalizeStale(r) PROVE RowAgrees(q)'
  BY <1>27 DEF FinalizeStale, RowAgrees, rows, queue, money
<1>28. ASSUME Crash PROVE RowAgrees(q)'
  BY <1>28 DEF Crash, ProcessEnds, RowAgrees, rows, queue, money
<1>29. ASSUME Stop PROVE RowAgrees(q)'
  BY <1>29 DEF Stop, RowAgrees, rows, queue, money
<1>30. ASSUME Exit PROVE RowAgrees(q)'
  BY <1>30 DEF Exit, ProcessEnds, RowAgrees, rows, queue, money
<1>31. ASSUME Restart PROVE RowAgrees(q)'
  BY <1>31 DEF Restart, RowAgrees, rows, queue, money
<1>32. CASE UNCHANGED vars
  BY <1>32 DEF vars, RowAgrees, rows, queue, money
<1> QED
  BY <1>1, <1>2, <1>3, <1>4, <1>5, <1>6, <1>7, <1>8, <1>9, <1>10, <1>11, <1>12, <1>13,
     <1>14, <1>15, <1>16, <1>17, <1>18, <1>19, <1>20, <1>21, <1>22, <1>23, <1>24, <1>25,
     <1>26, <1>27, <1>28, <1>29, <1>30, <1>31, <1>32
  DEF Next, WorkerStep, WorkerFault, SideEffect, SideEffectFault, Recover, RecoverFault, Process

(* A goroutine that stays where it is keeps what it knows of its job. *)
LEMMA HoldFrame ==
  ASSUME Keeps, NEW b \in Actors, HoldsItsJob(b), spent \subseteq Requests,
         pc'[b] = pc[b], on'[b] = on[b],
         Closer(b) => (on[b] \in refunded' => on[b] \in refunded)
  PROVE  HoldsItsJob(b)'
  BY DEF Keeps, HoldsItsJob, Closer

(* After every step each goroutine still holds what its stage needs. *)
LEMMA HoldStep == IInv /\ [Next]_vars => AllHold'
<1> SUFFICES ASSUME IInv, [Next]_vars, NEW b \in Actors PROVE HoldsItsJob(b)'
  BY DEF AllHold
<1> Keeps
  BY KeepsStep
<1> ControlOK /\ HoldsItsJob(b) /\ spent \subseteq Requests
  BY DEF IInv, TypeOK, MoneyOK, AllHold
<1>1. ASSUME NEW a \in Accounts, Grant(a) PROVE HoldsItsJob(b)'
  BY <1>1, HoldFrame DEF Grant, control, money
<1>2. ASSUME NEW r \in Requests, Submit(r) PROVE HoldsItsJob(b)'
  BY <1>2, HoldFrame DEF Submit, control, money
<1>3. ASSUME NEW r \in Requests, Resubmit(r) PROVE HoldsItsJob(b)'
  BY <1>3, HoldFrame DEF Resubmit, control, money
<1>4. ASSUME NEW r \in Requests, BackoffEnds(r) PROVE HoldsItsJob(b)'
  BY <1>4, HoldFrame DEF BackoffEnds, control, money
<1>5. ASSUME NEW r \in Requests, BecomesStale(r) PROVE HoldsItsJob(b)'
  BY <1>5, HoldFrame DEF BecomesStale, control, money
<1>6. ASSUME NEW w \in Workers, Claim(w) PROVE HoldsItsJob(b)'
  <2>1. CASE b = w
    <3>1. PICK r \in Requests : ClaimRow(r) /\ on' = [on EXCEPT ![w] = r]
      BY <1>6 DEF Claim
    <3>2. r \in spent
      BY <3>1 DEF ClaimRow, Claimable, IInv, RowsAgree, RowAgrees
    <3>3. pc'[b] = "generating" /\ on'[b] = r
      BY <1>6, <2>1, <3>1 DEF Claim, Goto, ControlOK
    <3> QED
      BY <1>6, <3>2, <3>3, Distinct DEF Claim, HoldsItsJob, money
  <2>2. CASE b # w
    BY <1>6, <2>2, HoldFrame DEF Claim, Goto, ControlOK, money
  <2> QED
    BY <2>1, <2>2
<1>7. ASSUME ClaimAnswerLost PROVE HoldsItsJob(b)'
  BY <1>7, HoldFrame DEF ClaimAnswerLost, control, money
<1>8. ASSUME NEW w \in Workers, Generate(w) PROVE HoldsItsJob(b)'
  <2>0. on[w] \in spent /\ on[w] \in Requests /\ w \in Actors
    BY <1>8, HeldIsRequest, WorkerIsActor DEF Generate
  <2>1. CASE b = w
    BY <1>8, <2>0, <2>1 DEF Generate, AttemptFailed, Goto, ControlOK, HoldsItsJob, money
  <2>2. CASE b # w
    BY <1>8, <2>2, HoldFrame DEF Generate, AttemptFailed, Goto, ControlOK, money
  <2> QED
    BY <2>1, <2>2
<1>9. ASSUME NEW w \in Workers, Send(w) PROVE HoldsItsJob(b)'
  <2>0. on[w] \in spent /\ on[w] \in Requests /\ w \in Actors
    BY <1>9, HeldIsRequest, WorkerIsActor DEF Send
  <2>1. CASE b = w
    BY <1>9, <2>0, <2>1 DEF Send, AttemptFailed, Goto, ControlOK, HoldsItsJob, money
  <2>2. CASE b # w
    BY <1>9, <2>2, HoldFrame DEF Send, AttemptFailed, Goto, ControlOK, money
  <2> QED
    BY <2>1, <2>2
<1>10. ASSUME NEW w \in Workers, Panic(w) PROVE HoldsItsJob(b)'
  <2>0. on[w] \in spent /\ on[w] \in Requests /\ w \in Actors
    BY <1>10, HeldIsRequest, WorkerIsActor DEF Panic
  <2>1. CASE b = w
    BY <1>10, <2>0, <2>1 DEF Panic, AttemptFailed, Goto, ControlOK, HoldsItsJob, money
  <2>2. CASE b # w
    BY <1>10, <2>2, HoldFrame DEF Panic, AttemptFailed, Goto, ControlOK, money
  <2> QED
    BY <2>1, <2>2
<1>11. ASSUME NEW w \in Workers, MarkDone(w) PROVE HoldsItsJob(b)'
  <2>0. on[w] \in spent /\ on[w] \in Requests /\ w \in Actors
    BY <1>11, HeldIsRequest, WorkerIsActor DEF MarkDone
  <2>1. CASE b = w
    <3>2. job[on[w]] = "running" => RowsOK
      BY DEF IInv, TypeOK
    <3> QED
      BY <1>11, <2>0, <2>1, <3>2 DEF MarkDone, Release, Goto, Close, SetStatus, RowsOK,
         ControlOK, HoldsItsJob, money
  <2>2. CASE b # w
    BY <1>11, <2>2, HoldFrame DEF MarkDone, Release, Goto, ControlOK, money
  <2> QED
    BY <2>1, <2>2
<1>12. ASSUME NEW w \in Workers, MarkDoneFails(w) PROVE HoldsItsJob(b)'
  <2>0. on[w] \in spent /\ on[w] \in Requests /\ w \in Actors
    BY <1>12, HeldIsRequest, WorkerIsActor DEF MarkDoneFails
  <2>1. CASE b = w
    BY <1>12, <2>0, <2>1 DEF MarkDoneFails, Release, Goto, ControlOK, HoldsItsJob, money
  <2>2. CASE b # w
    BY <1>12, <2>2, HoldFrame DEF MarkDoneFails, Release, Goto, ControlOK, money
  <2> QED
    BY <2>1, <2>2
<1>13. ASSUME NEW w \in Workers, FinishRequest(w) PROVE HoldsItsJob(b)'
  <2>0. on[w] \in spent /\ on[w] \in Requests /\ w \in Actors
    BY <1>13, HeldIsRequest, WorkerIsActor DEF FinishRequest
  <2>1. CASE b = w
    BY <1>13, <2>0, <2>1 DEF FinishRequest, Release, Goto, ControlOK, HoldsItsJob, money
  <2>2. CASE b # w
    BY <1>13, <2>2, HoldFrame DEF FinishRequest, Release, Goto, ControlOK, money
  <2> QED
    BY <2>1, <2>2
<1>14. ASSUME NEW w \in Workers, FinishRequestFails(w) PROVE HoldsItsJob(b)'
  <2>0. on[w] \in spent /\ on[w] \in Requests /\ w \in Actors
    BY <1>14, HeldIsRequest, WorkerIsActor DEF FinishRequestFails
  <2>1. CASE b = w
    BY <1>14, <2>0, <2>1 DEF FinishRequestFails, Release, Goto, ControlOK, HoldsItsJob,
       money
  <2>2. CASE b # w
    BY <1>14, <2>2, HoldFrame DEF FinishRequestFails, Release, Goto, ControlOK, money
  <2> QED
    BY <2>1, <2>2
<1>15. ASSUME NEW w \in Workers, Requeue(w) PROVE HoldsItsJob(b)'
  <2>0. on[w] \in spent /\ on[w] \in Requests /\ w \in Actors
    BY <1>15, HeldIsRequest, WorkerIsActor DEF Requeue
  <2>1. CASE b = w
    BY <1>15, <2>0, <2>1 DEF Requeue, Release, Goto, ControlOK, HoldsItsJob, money
  <2>2. CASE b # w
    BY <1>15, <2>2, HoldFrame DEF Requeue, Release, Goto, ControlOK, money
  <2> QED
    BY <2>1, <2>2
<1>16. ASSUME NEW w \in Workers, RequeueFails(w) PROVE HoldsItsJob(b)'
  <2>0. on[w] \in spent /\ on[w] \in Requests /\ w \in Actors
    BY <1>16, HeldIsRequest, WorkerIsActor DEF RequeueFails
  <2>1. CASE b = w
    BY <1>16, <2>0, <2>1 DEF RequeueFails, Goto, ControlOK, HoldsItsJob, money
  <2>2. CASE b # w
    BY <1>16, <2>2, HoldFrame DEF RequeueFails, Goto, ControlOK, money
  <2> QED
    BY <2>1, <2>2
<1>17. ASSUME NEW w \in Workers, Finalize(w) PROVE HoldsItsJob(b)'
  <2>0. on[w] \in spent /\ on[w] \in Requests /\ w \in Actors
    BY <1>17, HeldIsRequest, WorkerIsActor DEF Finalize
  <2>1. CASE b = w
    <3>1. job[on[w]] = "running" => on[w] \notin refunded
      BY <1>17, <2>0 DEF IInv, RowsAgree, RowAgrees
    <3>2. job[on[w]] = "running" => RowsOK
      BY DEF IInv, TypeOK
    <3> QED
      BY <1>17, <2>0, <2>1, <3>1, <3>2 DEF Finalize, Release, Goto, Close, SetStatus,
         RowsOK, ControlOK, HoldsItsJob, money
  <2>2. CASE b # w
    BY <1>17, <2>2, HoldFrame DEF Finalize, Release, Goto, ControlOK, money
  <2> QED
    BY <2>1, <2>2
<1>18. ASSUME NEW w \in Workers, FinalizeFails(w) PROVE HoldsItsJob(b)'
  <2>0. on[w] \in spent /\ on[w] \in Requests /\ w \in Actors
    BY <1>18, HeldIsRequest, WorkerIsActor DEF FinalizeFails
  <2>1. CASE b = w
    BY <1>18, <2>0, <2>1 DEF FinalizeFails, Release, Goto, ControlOK, HoldsItsJob, money
  <2>2. CASE b # w
    BY <1>18, <2>2, HoldFrame DEF FinalizeFails, Release, Goto, ControlOK, money
  <2> QED
    BY <2>1, <2>2
<1>19. ASSUME NEW a \in Actors, FailRequest(a) PROVE HoldsItsJob(b)'
  <2>1. CASE b = a
    BY <1>19, <2>1, HeldIsRequest DEF FailRequest, Release, Goto, ControlOK, HoldsItsJob,
       money, IInv, TypeOK, RowsOK
  <2>2. CASE b # a
    BY <1>19, <2>2, HoldFrame DEF FailRequest, Release, Goto, ControlOK, money
  <2> QED
    BY <2>1, <2>2
<1>20. ASSUME NEW a \in Actors, FailRequestFails(a) PROVE HoldsItsJob(b)'
  <2>1. CASE b = a
    BY <1>20, <2>1, HeldIsRequest DEF FailRequestFails, Release, Goto, ControlOK,
       HoldsItsJob, money, IInv, TypeOK, RowsOK
  <2>2. CASE b # a
    BY <1>20, <2>2, HoldFrame DEF FailRequestFails, Release, Goto, ControlOK, money
  <2> QED
    BY <2>1, <2>2
<1>21. ASSUME NEW a \in Actors, Refund(a) PROVE HoldsItsJob(b)'
  <2>1. CASE b = a
    BY <1>21, <2>1 DEF Refund, Release, Goto, ControlOK, HoldsItsJob
  <2>2. CASE b # a
    <3>1. Closer(b) => on[b] # on[a]
      BY <1>21, <2>2 DEF Refund, IInv, ClosersAlone, Closer
    <3>2. pc'[b] = pc[b] /\ on'[b] = on[b]
      BY <1>21, <2>2 DEF Refund, Release, Goto, ControlOK
    <3>3. refunded' \subseteq refunded \cup {on[a]}
      BY <1>21 DEF Refund, InsertRefund
    <3> QED
      BY <3>1, <3>2, <3>3, HoldFrame
  <2> QED
    BY <2>1, <2>2
<1>22. ASSUME NEW a \in Actors, RefundFails(a) PROVE HoldsItsJob(b)'
  <2>1. CASE b = a
    BY <1>22, <2>1 DEF RefundFails, Release, Goto, ControlOK, HoldsItsJob
  <2>2. CASE b # a
    <3>1. Closer(b) => on[b] # on[a]
      BY <1>22, <2>2 DEF RefundFails, IInv, ClosersAlone, Closer
    <3>2. pc'[b] = pc[b] /\ on'[b] = on[b]
      BY <1>22, <2>2 DEF RefundFails, Release, Goto, ControlOK
    <3>3. refunded' \subseteq refunded \cup {on[a]}
      BY <1>22 DEF RefundFails, InsertRefund
    <3> QED
      BY <3>1, <3>2, <3>3, HoldFrame
  <2> QED
    BY <2>1, <2>2
<1>23. ASSUME RequeueStale PROVE HoldsItsJob(b)'
  <2>1. CASE b = Recoverer
    BY <1>23, <2>1 DEF RequeueStale, Idle, Goto, ControlOK, HoldsItsJob
  <2>2. CASE b # Recoverer
    BY <1>23, <2>2, HoldFrame DEF RequeueStale, Idle, Goto, ControlOK, money
  <2> QED
    BY <2>1, <2>2
<1>24. ASSUME RequeueStaleFails PROVE HoldsItsJob(b)'
  BY <1>24, HoldFrame DEF RequeueStaleFails, control, money
<1>25. ASSUME FailStale PROVE HoldsItsJob(b)'
  <2>1. CASE b = Recoverer
    BY <1>25, <2>1 DEF FailStale, Goto, ControlOK, HoldsItsJob
  <2>2. CASE b # Recoverer
    BY <1>25, <2>2, HoldFrame DEF FailStale, Goto, ControlOK, money
  <2> QED
    BY <2>1, <2>2
<1>26. ASSUME FailStaleFails PROVE HoldsItsJob(b)'
  <2>1. CASE b = Recoverer
    BY <1>26, <2>1 DEF FailStaleFails, Release, Goto, ControlOK, HoldsItsJob
  <2>2. CASE b # Recoverer
    BY <1>26, <2>2, HoldFrame DEF FailStaleFails, Release, Goto, ControlOK, money
  <2> QED
    BY <2>1, <2>2
<1>27. ASSUME NEW r \in Requests, FinalizeStale(r) PROVE HoldsItsJob(b)'
  <2>1. CASE b = Recoverer
    <3>1. job[r] = "failed" /\ r \notin refunded
      BY <1>27 DEF FinalizeStale, IInv, TodoFailed
    <3>2. r \in spent
      BY <3>1 DEF IInv, RowsAgree, RowAgrees
    <3>3. pc'[b] = "closing" /\ on'[b] = r
      BY <1>27, <2>1 DEF FinalizeStale, Goto, ControlOK
    <3>4. job' = job /\ refunded' = refunded /\ spent' = spent
      BY <1>27 DEF FinalizeStale, rows, queue, money
    <3>5. r # NoJob
      BY <1>27, Distinct
    <3> QED
      BY <3>1, <3>2, <3>3, <3>4, <3>5 DEF HoldsItsJob
  <2>2. CASE b # Recoverer
    BY <1>27, <2>2, HoldFrame DEF FinalizeStale, Goto, ControlOK, money
  <2> QED
    BY <2>1, <2>2
<1>28. ASSUME Crash PROVE HoldsItsJob(b)'
  BY <1>28 DEF Crash, ProcessEnds, HoldsItsJob
<1>29. ASSUME Stop PROVE HoldsItsJob(b)'
  BY <1>29, HoldFrame DEF Stop, money
<1>30. ASSUME Exit PROVE HoldsItsJob(b)'
  BY <1>30 DEF Exit, ProcessEnds, HoldsItsJob
<1>31. ASSUME Restart PROVE HoldsItsJob(b)'
  BY <1>31, HoldFrame DEF Restart, money
<1>32. CASE UNCHANGED vars
  BY <1>32, HoldFrame DEF vars, control, money
<1> QED
  BY <1>1, <1>2, <1>3, <1>4, <1>5, <1>6, <1>7, <1>8, <1>9, <1>10, <1>11, <1>12, <1>13,
     <1>14, <1>15, <1>16, <1>17, <1>18, <1>19, <1>20, <1>21, <1>22, <1>23, <1>24, <1>25,
     <1>26, <1>27, <1>28, <1>29, <1>30, <1>31, <1>32
  DEF Next, WorkerStep, WorkerFault, SideEffect, SideEffectFault, Recover, RecoverFault, Process

(* Workers and recoverer never enter each other's stages. *)
LEMMA StagesStep == IInv /\ [Next]_vars => OwnStages'
<1> SUFFICES ASSUME IInv, [Next]_vars PROVE OwnStages'
  OBVIOUS
<1> OwnStages /\ ControlOK
  BY DEF IInv, TypeOK
<1>1. ASSUME NEW a \in Accounts, Grant(a) PROVE OwnStages'
  BY <1>1 DEF Grant, OwnStages, control
<1>2. ASSUME NEW r \in Requests, Submit(r) PROVE OwnStages'
  BY <1>2 DEF Submit, OwnStages, control
<1>3. ASSUME NEW r \in Requests, Resubmit(r) PROVE OwnStages'
  BY <1>3 DEF Resubmit, OwnStages, control
<1>4. ASSUME NEW r \in Requests, BackoffEnds(r) PROVE OwnStages'
  BY <1>4 DEF BackoffEnds, OwnStages, control
<1>5. ASSUME NEW r \in Requests, BecomesStale(r) PROVE OwnStages'
  BY <1>5 DEF BecomesStale, OwnStages, control
<1>6. ASSUME NEW w \in Workers, Claim(w) PROVE OwnStages'
  BY <1>6, Distinct, WorkerIsActor, RecovererIsActor DEF Claim, Goto, OwnStages, ControlOK
<1>7. ASSUME ClaimAnswerLost PROVE OwnStages'
  BY <1>7 DEF ClaimAnswerLost, OwnStages, control
<1>8. ASSUME NEW w \in Workers, Generate(w) PROVE OwnStages'
  BY <1>8, Distinct, WorkerIsActor, RecovererIsActor DEF Generate, AttemptFailed, Goto,
     OwnStages, ControlOK
<1>9. ASSUME NEW w \in Workers, Send(w) PROVE OwnStages'
  BY <1>9, Distinct, WorkerIsActor, RecovererIsActor DEF Send, AttemptFailed, Goto,
     OwnStages, ControlOK
<1>10. ASSUME NEW w \in Workers, Panic(w) PROVE OwnStages'
  BY <1>10, Distinct, WorkerIsActor, RecovererIsActor DEF Panic, AttemptFailed, Goto,
     OwnStages, ControlOK
<1>11. ASSUME NEW w \in Workers, MarkDone(w) PROVE OwnStages'
  BY <1>11, Distinct, WorkerIsActor, RecovererIsActor DEF MarkDone, Release, Goto,
     OwnStages, ControlOK
<1>12. ASSUME NEW w \in Workers, MarkDoneFails(w) PROVE OwnStages'
  BY <1>12, Distinct, WorkerIsActor, RecovererIsActor DEF MarkDoneFails, Release, Goto,
     OwnStages, ControlOK
<1>13. ASSUME NEW w \in Workers, FinishRequest(w) PROVE OwnStages'
  BY <1>13, Distinct, WorkerIsActor, RecovererIsActor DEF FinishRequest, Release, Goto,
     OwnStages, ControlOK
<1>14. ASSUME NEW w \in Workers, FinishRequestFails(w) PROVE OwnStages'
  BY <1>14, Distinct, WorkerIsActor, RecovererIsActor DEF FinishRequestFails, Release,
     Goto, OwnStages, ControlOK
<1>15. ASSUME NEW w \in Workers, Requeue(w) PROVE OwnStages'
  BY <1>15, Distinct, WorkerIsActor, RecovererIsActor DEF Requeue, Release, Goto,
     OwnStages, ControlOK
<1>16. ASSUME NEW w \in Workers, RequeueFails(w) PROVE OwnStages'
  BY <1>16, Distinct, WorkerIsActor, RecovererIsActor DEF RequeueFails, Goto, OwnStages,
     ControlOK
<1>17. ASSUME NEW w \in Workers, Finalize(w) PROVE OwnStages'
  BY <1>17, Distinct, WorkerIsActor, RecovererIsActor DEF Finalize, Release, Goto,
     OwnStages, ControlOK
<1>18. ASSUME NEW w \in Workers, FinalizeFails(w) PROVE OwnStages'
  BY <1>18, Distinct, WorkerIsActor, RecovererIsActor DEF FinalizeFails, Release, Goto,
     OwnStages, ControlOK
<1>19. ASSUME NEW a \in Actors, FailRequest(a) PROVE OwnStages'
  BY <1>19, Distinct, WorkerIsActor, RecovererIsActor DEF FailRequest, Release, Goto,
     OwnStages, ControlOK
<1>20. ASSUME NEW a \in Actors, FailRequestFails(a) PROVE OwnStages'
  BY <1>20, Distinct, WorkerIsActor, RecovererIsActor DEF FailRequestFails, Release, Goto,
     OwnStages, ControlOK
<1>21. ASSUME NEW a \in Actors, Refund(a) PROVE OwnStages'
  BY <1>21, Distinct, WorkerIsActor, RecovererIsActor DEF Refund, Release, Goto,
     OwnStages, ControlOK
<1>22. ASSUME NEW a \in Actors, RefundFails(a) PROVE OwnStages'
  BY <1>22, Distinct, WorkerIsActor, RecovererIsActor DEF RefundFails, Release, Goto,
     OwnStages, ControlOK
<1>23. ASSUME RequeueStale PROVE OwnStages'
  BY <1>23, Distinct, WorkerIsActor, RecovererIsActor DEF RequeueStale, Goto, OwnStages,
     ControlOK
<1>24. ASSUME RequeueStaleFails PROVE OwnStages'
  BY <1>24 DEF RequeueStaleFails, OwnStages, control
<1>25. ASSUME FailStale PROVE OwnStages'
  BY <1>25, Distinct, WorkerIsActor, RecovererIsActor DEF FailStale, Goto, OwnStages,
     ControlOK
<1>26. ASSUME FailStaleFails PROVE OwnStages'
  BY <1>26, Distinct, WorkerIsActor, RecovererIsActor DEF FailStaleFails, Release, Goto,
     OwnStages, ControlOK
<1>27. ASSUME NEW r \in Requests, FinalizeStale(r) PROVE OwnStages'
  BY <1>27, Distinct, WorkerIsActor, RecovererIsActor DEF FinalizeStale, Goto, OwnStages,
     ControlOK
<1>28. ASSUME Crash PROVE OwnStages'
  BY <1>28, WorkerIsActor, RecovererIsActor DEF Crash, ProcessEnds, OwnStages
<1>29. ASSUME Stop PROVE OwnStages'
  BY <1>29 DEF Stop, OwnStages
<1>30. ASSUME Exit PROVE OwnStages'
  BY <1>30, WorkerIsActor, RecovererIsActor DEF Exit, ProcessEnds, OwnStages
<1>31. ASSUME Restart PROVE OwnStages'
  BY <1>31 DEF Restart, OwnStages
<1>32. CASE UNCHANGED vars
  BY <1>32 DEF vars, control, OwnStages
<1> QED
  BY <1>1, <1>2, <1>3, <1>4, <1>5, <1>6, <1>7, <1>8, <1>9, <1>10, <1>11, <1>12, <1>13,
     <1>14, <1>15, <1>16, <1>17, <1>18, <1>19, <1>20, <1>21, <1>22, <1>23, <1>24, <1>25,
     <1>26, <1>27, <1>28, <1>29, <1>30, <1>31, <1>32
  DEF Next, WorkerStep, WorkerFault, SideEffect, SideEffectFault, Recover, RecoverFault, Process

(* A step by which nobody starts to close a job keeps closers alone. *)
LEMMA AloneFrame ==
  ASSUME ClosersAlone, todo' \subseteq todo,
         \A a \in Actors : Closer(a)' => Closer(a) /\ on'[a] = on[a]
  PROVE  ClosersAlone'
  BY DEF ClosersAlone

(* Whoever closes a job, it has failed. *)
LEMMA ClosedIsFailed ==
  ASSUME IInv, NEW a \in Actors, Closer(a)
  PROVE  on[a] \in Requests /\ job[on[a]] = "failed"
<1>1. on[a] \in Requests
  BY HeldIsRequest DEF Closer
<1> QED
  BY <1>1 DEF IInv, AllHold, HoldsItsJob, Closer, RowsAgree, RowAgrees

(* No step makes two goroutines close the same job. *)
LEMMA AloneStep == IInv /\ [Next]_vars => ClosersAlone'
<1> SUFFICES ASSUME IInv, [Next]_vars PROVE ClosersAlone'
  OBVIOUS
<1> ClosersAlone /\ ControlOK
  BY DEF IInv, TypeOK
<1>1. ASSUME NEW a \in Accounts, Grant(a) PROVE ClosersAlone'
  BY <1>1, AloneFrame DEF Grant, control, Closer
<1>2. ASSUME NEW r \in Requests, Submit(r) PROVE ClosersAlone'
  BY <1>2, AloneFrame DEF Submit, control, Closer
<1>3. ASSUME NEW r \in Requests, Resubmit(r) PROVE ClosersAlone'
  BY <1>3, AloneFrame DEF Resubmit, control, Closer
<1>4. ASSUME NEW r \in Requests, BackoffEnds(r) PROVE ClosersAlone'
  BY <1>4, AloneFrame DEF BackoffEnds, control, Closer
<1>5. ASSUME NEW r \in Requests, BecomesStale(r) PROVE ClosersAlone'
  BY <1>5, AloneFrame DEF BecomesStale, control, Closer
<1>6. ASSUME NEW w \in Workers, Claim(w) PROVE ClosersAlone'
  BY <1>6, AloneFrame DEF Claim, Goto, Closer, ControlOK
<1>7. ASSUME ClaimAnswerLost PROVE ClosersAlone'
  BY <1>7, AloneFrame DEF ClaimAnswerLost, control, Closer
<1>8. ASSUME NEW w \in Workers, Generate(w) PROVE ClosersAlone'
  BY <1>8, AloneFrame DEF Generate, AttemptFailed, Goto, Closer, ControlOK
<1>9. ASSUME NEW w \in Workers, Send(w) PROVE ClosersAlone'
  BY <1>9, AloneFrame DEF Send, AttemptFailed, Goto, Closer, ControlOK
<1>10. ASSUME NEW w \in Workers, Panic(w) PROVE ClosersAlone'
  BY <1>10, AloneFrame DEF Panic, AttemptFailed, Goto, Closer, ControlOK
<1>11. ASSUME NEW w \in Workers, MarkDone(w) PROVE ClosersAlone'
  BY <1>11, AloneFrame DEF MarkDone, Release, Goto, Closer, ControlOK
<1>12. ASSUME NEW w \in Workers, MarkDoneFails(w) PROVE ClosersAlone'
  BY <1>12, AloneFrame DEF MarkDoneFails, Release, Goto, Closer, ControlOK
<1>13. ASSUME NEW w \in Workers, FinishRequest(w) PROVE ClosersAlone'
  BY <1>13, AloneFrame DEF FinishRequest, Release, Goto, Closer, ControlOK
<1>14. ASSUME NEW w \in Workers, FinishRequestFails(w) PROVE ClosersAlone'
  BY <1>14, AloneFrame DEF FinishRequestFails, Release, Goto, Closer, ControlOK
<1>15. ASSUME NEW w \in Workers, Requeue(w) PROVE ClosersAlone'
  BY <1>15, AloneFrame DEF Requeue, Release, Goto, Closer, ControlOK
<1>16. ASSUME NEW w \in Workers, RequeueFails(w) PROVE ClosersAlone'
  BY <1>16, AloneFrame DEF RequeueFails, Goto, Closer, ControlOK
<1>17. ASSUME NEW w \in Workers, Finalize(w) PROVE ClosersAlone'
  <2>1. CASE job[on[w]] # "running"
    BY <1>17, <2>1, AloneFrame DEF Finalize, Release, Goto, Closer, ControlOK
  <2>2. CASE job[on[w]] = "running"
    <3>1. \A a \in Actors : Closer(a)' => (Closer(a) \/ a = w) /\ on'[a] = on[a]
      BY <1>17, <2>2 DEF Finalize, Goto, Closer, ControlOK
    <3>2. \A a \in Actors : Closer(a) => on[a] # on[w]
      BY <2>2, ClosedIsFailed
    <3>3. on[w] \notin todo /\ todo' = todo
      BY <1>17, <2>2 DEF Finalize, IInv, TodoFailed
    <3> QED
      BY <3>1, <3>2, <3>3 DEF ClosersAlone
  <2> QED
    BY <2>1, <2>2
<1>18. ASSUME NEW w \in Workers, FinalizeFails(w) PROVE ClosersAlone'
  BY <1>18, AloneFrame DEF FinalizeFails, Release, Goto, Closer, ControlOK
<1>19. ASSUME NEW a \in Actors, FailRequest(a) PROVE ClosersAlone'
  BY <1>19, AloneFrame DEF FailRequest, Release, Goto, Closer, ControlOK
<1>20. ASSUME NEW a \in Actors, FailRequestFails(a) PROVE ClosersAlone'
  BY <1>20, AloneFrame DEF FailRequestFails, Release, Goto, Closer, ControlOK
<1>21. ASSUME NEW a \in Actors, Refund(a) PROVE ClosersAlone'
  BY <1>21, AloneFrame DEF Refund, Release, Goto, Closer, ControlOK
<1>22. ASSUME NEW a \in Actors, RefundFails(a) PROVE ClosersAlone'
  BY <1>22, AloneFrame DEF RefundFails, Release, Goto, Closer, ControlOK
<1>23. ASSUME RequeueStale PROVE ClosersAlone'
  BY <1>23, AloneFrame DEF RequeueStale, Goto, Closer, ControlOK
<1>24. ASSUME RequeueStaleFails PROVE ClosersAlone'
  BY <1>24, AloneFrame DEF RequeueStaleFails, control, Closer
<1>25. ASSUME FailStale PROVE ClosersAlone'
  <2>1. \A a \in Actors : Closer(a)' => Closer(a) /\ on'[a] = on[a]
    BY <1>25 DEF FailStale, Goto, Closer, ControlOK
  <2>2. \A a \in Actors : Closer(a) => on[a] \notin todo'
    BY <1>25, ClosedIsFailed DEF FailStale, Exhausted, Stale
  <2> QED
    BY <2>1, <2>2 DEF ClosersAlone
<1>26. ASSUME FailStaleFails PROVE ClosersAlone'
  BY <1>26, AloneFrame DEF FailStaleFails, Release, Goto, Closer, ControlOK
<1>27. ASSUME NEW r \in Requests, FinalizeStale(r) PROVE ClosersAlone'
  <2>1. \A a \in Actors : Closer(a)' =>
          \/ Closer(a) /\ on'[a] = on[a]
          \/ a = Recoverer /\ on'[a] = r
    BY <1>27 DEF FinalizeStale, Goto, Closer, ControlOK
  <2>2. r \in todo /\ todo' = todo \ {r}
    BY <1>27 DEF FinalizeStale
  <2> QED
    BY <2>1, <2>2 DEF ClosersAlone
<1>28. ASSUME Crash PROVE ClosersAlone'
  BY <1>28 DEF Crash, ProcessEnds, ClosersAlone, Closer
<1>29. ASSUME Stop PROVE ClosersAlone'
  BY <1>29, AloneFrame DEF Stop, Closer
<1>30. ASSUME Exit PROVE ClosersAlone'
  BY <1>30 DEF Exit, ProcessEnds, ClosersAlone, Closer
<1>31. ASSUME Restart PROVE ClosersAlone'
  BY <1>31, AloneFrame DEF Restart, Closer
<1>32. CASE UNCHANGED vars
  BY <1>32, AloneFrame DEF vars, control, Closer
<1> QED
  BY <1>1, <1>2, <1>3, <1>4, <1>5, <1>6, <1>7, <1>8, <1>9, <1>10, <1>11, <1>12, <1>13,
     <1>14, <1>15, <1>16, <1>17, <1>18, <1>19, <1>20, <1>21, <1>22, <1>23, <1>24, <1>25,
     <1>26, <1>27, <1>28, <1>29, <1>30, <1>31, <1>32
  DEF Next, WorkerStep, WorkerFault, SideEffect, SideEffectFault, Recover, RecoverFault, Process

(* A step that neither fails stale rows nor refunds keeps the list sound. *)
LEMMA TodoFrame ==
  ASSUME TodoFailed, Keeps, todo \subseteq Requests, todo' \subseteq todo, refunded' = refunded
  PROVE  TodoFailed'
  BY DEF TodoFailed, Keeps

(* The rows left to finalize stay failed and not refunded. *)
LEMMA TodoStep == IInv /\ [Next]_vars => TodoFailed'
<1> SUFFICES ASSUME IInv, [Next]_vars PROVE TodoFailed'
  OBVIOUS
<1> Keeps
  BY KeepsStep
<1> TodoFailed /\ todo \subseteq Requests
  BY DEF IInv, TypeOK, ControlOK
<1>1. ASSUME NEW a \in Accounts, Grant(a) PROVE TodoFailed'
  BY <1>1, TodoFrame DEF Grant, control, money
<1>2. ASSUME NEW r \in Requests, Submit(r) PROVE TodoFailed'
  BY <1>2, TodoFrame DEF Submit, control, money
<1>3. ASSUME NEW r \in Requests, Resubmit(r) PROVE TodoFailed'
  BY <1>3, TodoFrame DEF Resubmit, control, money
<1>4. ASSUME NEW r \in Requests, BackoffEnds(r) PROVE TodoFailed'
  BY <1>4, TodoFrame DEF BackoffEnds, control, money
<1>5. ASSUME NEW r \in Requests, BecomesStale(r) PROVE TodoFailed'
  BY <1>5, TodoFrame DEF BecomesStale, control, money
<1>6. ASSUME NEW w \in Workers, Claim(w) PROVE TodoFailed'
  BY <1>6, TodoFrame DEF Claim, money
<1>7. ASSUME ClaimAnswerLost PROVE TodoFailed'
  BY <1>7, TodoFrame DEF ClaimAnswerLost, control, money
<1>8. ASSUME NEW w \in Workers, Generate(w) PROVE TodoFailed'
  BY <1>8, TodoFrame DEF Generate, AttemptFailed, money
<1>9. ASSUME NEW w \in Workers, Send(w) PROVE TodoFailed'
  BY <1>9, TodoFrame DEF Send, AttemptFailed, money
<1>10. ASSUME NEW w \in Workers, Panic(w) PROVE TodoFailed'
  BY <1>10, TodoFrame DEF Panic, AttemptFailed, money
<1>11. ASSUME NEW w \in Workers, MarkDone(w) PROVE TodoFailed'
  BY <1>11, TodoFrame DEF MarkDone, Release, money
<1>12. ASSUME NEW w \in Workers, MarkDoneFails(w) PROVE TodoFailed'
  BY <1>12, TodoFrame DEF MarkDoneFails, Release, money
<1>13. ASSUME NEW w \in Workers, FinishRequest(w) PROVE TodoFailed'
  BY <1>13, TodoFrame DEF FinishRequest, Release, money
<1>14. ASSUME NEW w \in Workers, FinishRequestFails(w) PROVE TodoFailed'
  BY <1>14, TodoFrame DEF FinishRequestFails, Release, money
<1>15. ASSUME NEW w \in Workers, Requeue(w) PROVE TodoFailed'
  BY <1>15, TodoFrame DEF Requeue, Release, money
<1>16. ASSUME NEW w \in Workers, RequeueFails(w) PROVE TodoFailed'
  BY <1>16, TodoFrame DEF RequeueFails, money
<1>17. ASSUME NEW w \in Workers, Finalize(w) PROVE TodoFailed'
  BY <1>17, TodoFrame DEF Finalize, Release, money
<1>18. ASSUME NEW w \in Workers, FinalizeFails(w) PROVE TodoFailed'
  BY <1>18, TodoFrame DEF FinalizeFails, Release, money
<1>19. ASSUME NEW a \in Actors, FailRequest(a) PROVE TodoFailed'
  BY <1>19, TodoFrame DEF FailRequest, Release, money
<1>20. ASSUME NEW a \in Actors, FailRequestFails(a) PROVE TodoFailed'
  BY <1>20, TodoFrame DEF FailRequestFails, Release, money
<1>21. ASSUME NEW a \in Actors, Refund(a) PROVE TodoFailed'
  <2>1. on[a] \notin todo
    BY <1>21 DEF Refund, IInv, ClosersAlone, Closer
  <2>2. refunded' \subseteq refunded \cup {on[a]} /\ todo' = todo
    BY <1>21 DEF Refund, InsertRefund, Release
  <2> QED
    BY <2>1, <2>2 DEF TodoFailed, Keeps
<1>22. ASSUME NEW a \in Actors, RefundFails(a) PROVE TodoFailed'
  <2>1. on[a] \notin todo
    BY <1>22 DEF RefundFails, IInv, ClosersAlone, Closer
  <2>2. refunded' \subseteq refunded \cup {on[a]} /\ todo' = todo
    BY <1>22 DEF RefundFails, InsertRefund, Release
  <2> QED
    BY <2>1, <2>2 DEF TodoFailed, Keeps
<1>23. ASSUME RequeueStale PROVE TodoFailed'
  BY <1>23, TodoFrame DEF RequeueStale, money
<1>24. ASSUME RequeueStaleFails PROVE TodoFailed'
  BY <1>24, TodoFrame DEF RequeueStaleFails, control, money
<1>25. ASSUME FailStale PROVE TodoFailed'
  <2>1. \A r \in Exhausted : job[r] = "running" /\ r \in Requests
    BY DEF Exhausted, Stale
  <2>2. \A r \in Exhausted : job'[r] = "failed"
    BY <1>25, <2>1 DEF FailStale, FailStaleRows, SetStatusOfAll
  <2>3. \A r \in Exhausted : r \notin refunded
    BY <2>1 DEF IInv, RowsAgree, RowAgrees
  <2> QED
    BY <1>25, <2>2, <2>3 DEF FailStale, TodoFailed, money
<1>26. ASSUME FailStaleFails PROVE TodoFailed'
  BY <1>26, TodoFrame DEF FailStaleFails, Release, money
<1>27. ASSUME NEW r \in Requests, FinalizeStale(r) PROVE TodoFailed'
  BY <1>27, TodoFrame DEF FinalizeStale, money
<1>28. ASSUME Crash PROVE TodoFailed'
  BY <1>28 DEF Crash, ProcessEnds, TodoFailed
<1>29. ASSUME Stop PROVE TodoFailed'
  BY <1>29, TodoFrame DEF Stop, control, money
<1>30. ASSUME Exit PROVE TodoFailed'
  BY <1>30 DEF Exit, ProcessEnds, TodoFailed
<1>31. ASSUME Restart PROVE TodoFailed'
  BY <1>31, TodoFrame DEF Restart, control, money
<1>32. CASE UNCHANGED vars
  BY <1>32, TodoFrame DEF vars, control, money
<1> QED
  BY <1>1, <1>2, <1>3, <1>4, <1>5, <1>6, <1>7, <1>8, <1>9, <1>10, <1>11, <1>12, <1>13,
     <1>14, <1>15, <1>16, <1>17, <1>18, <1>19, <1>20, <1>21, <1>22, <1>23, <1>24, <1>25,
     <1>26, <1>27, <1>28, <1>29, <1>30, <1>31, <1>32
  DEF Next, WorkerStep, WorkerFault, SideEffect, SideEffectFault, Recover, RecoverFault, Process

-----------------------------------------------------------------------------
(* The initial states satisfy the invariant. *)
LEMMA Initially == Init => IInv
<1> SUFFICES ASSUME Init PROVE IInv
  OBVIOUS
<1>1. RowsOK
  BY BoundTypes DEF Init, RowsOK, JobStatus, RequestStatus
<1>2. MoneyOK
  BY BoundTypes, ConstantsAssumption DEF ConstantsAssumption, Init, MoneyOK
<1>3. ControlOK
  BY BoundTypes DEF Init, ControlOK, Stages
<1>4. RowsAgree /\ TodoFailed
  BY DEF Init, RowsAgree, RowAgrees, TodoFailed
<1>5. AllHold /\ ClosersAlone
  BY DEF Init, AllHold, HoldsItsJob, ClosersAlone, Closer
<1>6. OwnStages
  BY WorkerIsActor, RecovererIsActor DEF Init, OwnStages
<1> QED
  BY <1>1, <1>2, <1>3, <1>4, <1>5, <1>6 DEF IInv, TypeOK

(* IInv holds in every reachable state: Init establishes it and every step *)
(* of every goroutine, fault and restart keeps it.                         *)
THEOREM Invariance == Spec => []IInv
<1>1. IInv /\ [Next]_vars => IInv'
  BY TypeStep, RowsStep, HoldStep, StagesStep, AloneStep, TodoStep DEF IInv
<1> QED
  BY Initially, <1>1, PTL DEF Spec

(* Every column keeps its values, and no balance is ever negative. *)
THEOREM TypeCorrect == Spec => []TypeOK
<1>1. IInv => TypeOK
  BY DEF IInv
<1> QED
  BY Invariance, <1>1, PTL

(* Credits are paid back only for a charged request whose job and request  *)
(* both failed (finalizeFailedSideEffects).                                *)
THEOREM RefundsOnlyFailures == Spec => []RefundsAreFailures
<1>1. IInv => RefundsAreFailures
  BY DEF IInv, TypeOK, MoneyOK, RowsAgree, RowAgrees, RefundsAreFailures
<1> QED
  BY Invariance, <1>1, PTL

(* A request is closed as ok only after delivery, and keeps its charge.    *)
(* (processJob).                                                           *)
THEOREM OkOnlyDelivered == Spec => []OkIsDelivered
<1>1. IInv => OkIsDelivered
  BY DEF IInv, RowsAgree, RowAgrees, OkIsDelivered
<1> QED
  BY Invariance, <1>1, PTL

(* One goroutine owns the side effects of a failed job, however worker,    *)
(* recovery pass, crash and restart interleave.                            *)
THEOREM OneOwner == Spec => []OneFinalizer
<1>1. ASSUME IInv PROVE OneFinalizer
  <2>1. \A a \in Actors, r \in Requests : Closing(a, r) <=> Closer(a) /\ on[a] = r
    BY DEF Closing, Closer
  <2>2. \A a, b \in Actors, r \in Requests : Closing(a, r) /\ Closing(b, r) => a = b
    BY <1>1, <2>1 DEF IInv, ClosersAlone
  <2>3. ASSUME NEW a \in Actors, NEW r \in Requests, Closing(a, r)
        PROVE  r \notin todo /\ r \notin refunded /\ job[r] = "failed"
    <3>1. Closer(a) /\ on[a] = r
      BY <2>1, <2>3
    <3>2. r \notin refunded
      BY <1>1, <3>1 DEF Closer, IInv, AllHold, HoldsItsJob
    <3> QED
      BY <1>1, <3>1, <3>2, ClosedIsFailed DEF IInv, ClosersAlone
  <2> QED
    BY <1>1, <2>2, <2>3 DEF OneFinalizer, IInv, TodoFailed
<1> QED
  BY Invariance, <1>1, PTL

(* A closed job or request is never changed again (the WHERE clauses of    *)
(* the UPDATE statements of both tables).                                  *)
THEOREM ClosedForGood == Spec => NothingRevived
<1>1. IInv /\ [Next]_vars =>
        [\A r \in Requests :
           /\ job[r] \in {"done", "failed"} => job'[r] = job[r]
           /\ req[r] \notin {"none", "queued"} => req'[r] = req[r]]_vars
  BY KeepsStep DEF Keeps
<1> QED
  BY Invariance, <1>1, PTL DEF Spec, NothingRevived

-----------------------------------------------------------------------------
(* The runners of a job.                                                   *)

(* The attempt a worker makes was counted when it claimed the job. *)
HeldWasClaimed == \A w \in Workers : on[w] # NoJob => tries[w] <= attempts[on[w]]

(* It is one that the job has. *)
TriesCounted == \A w \in Workers : on[w] # NoJob => tries[w] \in 1 .. MaxAttempts[on[w]]

RunnersApart == HeldWasClaimed /\ TriesCounted /\ OneRunner

(* Jobs are put down, and attempts are only counted up. *)
OnlyPutDown ==
  /\ \A w \in Workers : on'[w] = NoJob \/ (on'[w] = on[w] /\ tries'[w] = tries[w])
  /\ UNCHANGED attempts

(* Putting jobs down never brings two runners together. *)
LEMMA PutDownKeepsApart ==
  ASSUME RunnersApart, OnlyPutDown
  PROVE  RunnersApart'
  BY DEF RunnersApart, HeldWasClaimed, TriesCounted, OneRunner, OnlyPutDown

(* A claim picks a job with attempts left. *)
LEMMA ClaimKeepsApart ==
  ASSUME IInv, RunnersApart, NEW r \in Requests, ClaimRow(r),
         \/ UNCHANGED <<on, tries>>
         \/ \E w \in Workers :
              /\ on' = [on EXCEPT ![w] = r]
              /\ tries' = [tries EXCEPT ![w] = attempts[r] + 1]
  PROVE  RunnersApart'
<1> /\ attempts \in [Requests -> Nat]
    /\ on \in [Actors -> Requests \cup {NoJob}]
    /\ tries \in [Actors -> Nat]
  BY DEF IInv, TypeOK, RowsOK, ControlOK
<1>1. attempts' = [attempts EXCEPT ![r] = @ + 1] /\ attempts[r] + 1 \in 1 .. MaxAttempts[r]
  BY BoundTypes DEF ClaimRow, Claimable
<1>2. \A q \in Requests : attempts'[q] = IF q = r THEN attempts[q] + 1 ELSE attempts[q]
  BY <1>1
<1>3. \A q \in Requests : attempts[q] <= attempts'[q]
  BY <1>2
<1>4. CASE UNCHANGED <<on, tries>>
  <2>1. ASSUME NEW w \in Workers, on[w] # NoJob PROVE tries[w] <= attempts'[on[w]]
    <3>1. on[w] \in Requests /\ tries[w] \in Nat
      BY <2>1, WorkerIsActor
    <3>2. tries[w] <= attempts[on[w]] /\ attempts[on[w]] <= attempts'[on[w]]
      BY <1>3, <2>1, <3>1 DEF RunnersApart, HeldWasClaimed
    <3>3. attempts[on[w]] \in Nat /\ attempts'[on[w]] \in Nat
      BY <1>2, <3>1
    <3> QED
      BY <3>1, <3>2, <3>3
  <2>2. HeldWasClaimed'
    BY <1>4, <2>1 DEF HeldWasClaimed
  <2> QED
    BY <1>4, <2>2 DEF RunnersApart, TriesCounted, OneRunner
<1>5. ASSUME NEW w \in Workers, on' = [on EXCEPT ![w] = r],
             tries' = [tries EXCEPT ![w] = attempts[r] + 1]
      PROVE  RunnersApart'
  <2>1. /\ \A v \in Workers : on'[v] = IF v = w THEN r ELSE on[v]
        /\ \A v \in Workers : tries'[v] = IF v = w THEN attempts[r] + 1 ELSE tries[v]
    BY <1>5, WorkerIsActor
  <2>2. ASSUME NEW v \in Workers, v # w, on[v] # NoJob
        PROVE  tries[v] <= attempts'[on[v]] /\ (on[v] = r => tries[v] # attempts[r] + 1)
    <3>1. on[v] \in Requests /\ tries[v] \in Nat
      BY <2>2, WorkerIsActor
    <3>2. tries[v] <= attempts[on[v]] /\ attempts[on[v]] <= attempts'[on[v]]
      BY <1>3, <2>2, <3>1 DEF RunnersApart, HeldWasClaimed
    <3>3. attempts[on[v]] \in Nat /\ attempts'[on[v]] \in Nat
      BY <1>2, <3>1
    <3> QED
      BY <3>1, <3>2, <3>3
  <2>3. HeldWasClaimed'
    BY <1>2, <2>1, <2>2 DEF HeldWasClaimed
  <2>4. OneRunner'
    BY <2>1, <2>2, Distinct DEF RunnersApart, OneRunner
  <2>5. TriesCounted'
    BY <1>1, <2>1 DEF RunnersApart, TriesCounted
  <2> QED
    BY <2>3, <2>4, <2>5 DEF RunnersApart
<1> QED
  BY <1>4, <1>5

(* Every step keeps the runners apart. *)
LEMMA ApartStep == IInv /\ RunnersApart /\ [Next]_vars => RunnersApart'
<1> SUFFICES ASSUME IInv, RunnersApart, [Next]_vars PROVE RunnersApart'
  OBVIOUS
<1> ControlOK
  BY DEF IInv, TypeOK
<1>1. ASSUME NEW a \in Accounts, Grant(a) PROVE RunnersApart'
  BY <1>1, PutDownKeepsApart, WorkerIsActor DEF Grant, control, rows, queue, OnlyPutDown,
     ControlOK
<1>2. ASSUME NEW r \in Requests, Submit(r) PROVE RunnersApart'
  BY <1>2, PutDownKeepsApart, WorkerIsActor DEF Submit, control, OnlyPutDown, ControlOK
<1>3. ASSUME NEW r \in Requests, Resubmit(r) PROVE RunnersApart'
  BY <1>3, PutDownKeepsApart, WorkerIsActor DEF Resubmit, control, OnlyPutDown, ControlOK
<1>4. ASSUME NEW r \in Requests, BackoffEnds(r) PROVE RunnersApart'
  BY <1>4, PutDownKeepsApart, WorkerIsActor DEF BackoffEnds, control, OnlyPutDown, ControlOK
<1>5. ASSUME NEW r \in Requests, BecomesStale(r) PROVE RunnersApart'
  BY <1>5, PutDownKeepsApart, WorkerIsActor DEF BecomesStale, control, OnlyPutDown,
     ControlOK
<1>6. ASSUME NEW w \in Workers, Claim(w) PROVE RunnersApart'
  BY <1>6, ClaimKeepsApart DEF Claim
<1>7. ASSUME ClaimAnswerLost PROVE RunnersApart'
  BY <1>7, ClaimKeepsApart DEF ClaimAnswerLost, control
<1>8. ASSUME NEW w \in Workers, Generate(w) PROVE RunnersApart'
  BY <1>8, PutDownKeepsApart, WorkerIsActor DEF Generate, AttemptFailed, rows, queue,
     OnlyPutDown, ControlOK
<1>9. ASSUME NEW w \in Workers, Send(w) PROVE RunnersApart'
  BY <1>9, PutDownKeepsApart, WorkerIsActor DEF Send, AttemptFailed, rows, queue,
     OnlyPutDown, ControlOK
<1>10. ASSUME NEW w \in Workers, Panic(w) PROVE RunnersApart'
  BY <1>10, PutDownKeepsApart, WorkerIsActor DEF Panic, AttemptFailed, rows, queue,
     OnlyPutDown, ControlOK
<1>11. ASSUME NEW w \in Workers, MarkDone(w) PROVE RunnersApart'
  BY <1>11, PutDownKeepsApart, WorkerIsActor DEF MarkDone, Close, Release, queue,
     OnlyPutDown, ControlOK
<1>12. ASSUME NEW w \in Workers, MarkDoneFails(w) PROVE RunnersApart'
  BY <1>12, PutDownKeepsApart, WorkerIsActor DEF MarkDoneFails, Close, Release, queue,
     OnlyPutDown, ControlOK
<1>13. ASSUME NEW w \in Workers, FinishRequest(w) PROVE RunnersApart'
  BY <1>13, PutDownKeepsApart, WorkerIsActor DEF FinishRequest, Release, queue,
     OnlyPutDown, ControlOK
<1>14. ASSUME NEW w \in Workers, FinishRequestFails(w) PROVE RunnersApart'
  BY <1>14, PutDownKeepsApart, WorkerIsActor DEF FinishRequestFails, Release, rows, queue,
     OnlyPutDown, ControlOK
<1>15. ASSUME NEW w \in Workers, Requeue(w) PROVE RunnersApart'
  BY <1>15, PutDownKeepsApart, WorkerIsActor DEF Requeue, PutBack, Release, queue,
     OnlyPutDown, ControlOK
<1>16. ASSUME NEW w \in Workers, RequeueFails(w) PROVE RunnersApart'
  BY <1>16, PutDownKeepsApart, WorkerIsActor DEF RequeueFails, PutBack, queue,
     OnlyPutDown, ControlOK
<1>17. ASSUME NEW w \in Workers, Finalize(w) PROVE RunnersApart'
  BY <1>17, PutDownKeepsApart, WorkerIsActor DEF Finalize, Close, Release, queue,
     OnlyPutDown, ControlOK
<1>18. ASSUME NEW w \in Workers, FinalizeFails(w) PROVE RunnersApart'
  BY <1>18, PutDownKeepsApart, WorkerIsActor DEF FinalizeFails, Close, Release, queue,
     OnlyPutDown, ControlOK
<1>19. ASSUME NEW a \in Actors, FailRequest(a) PROVE RunnersApart'
  BY <1>19, PutDownKeepsApart, WorkerIsActor DEF FailRequest, Release, queue, OnlyPutDown,
     ControlOK
<1>20. ASSUME NEW a \in Actors, FailRequestFails(a) PROVE RunnersApart'
  BY <1>20, PutDownKeepsApart, WorkerIsActor DEF FailRequestFails, Release, queue,
     OnlyPutDown, ControlOK
<1>21. ASSUME NEW a \in Actors, Refund(a) PROVE RunnersApart'
  BY <1>21, PutDownKeepsApart, WorkerIsActor DEF Refund, Release, rows, queue,
     OnlyPutDown, ControlOK
<1>22. ASSUME NEW a \in Actors, RefundFails(a) PROVE RunnersApart'
  BY <1>22, PutDownKeepsApart, WorkerIsActor DEF RefundFails, Release, rows, queue,
     OnlyPutDown, ControlOK
<1>23. ASSUME RequeueStale PROVE RunnersApart'
  BY <1>23, PutDownKeepsApart, WorkerIsActor DEF RequeueStale, RequeueStaleRows,
     SetStatusOfAll, OnlyPutDown, ControlOK
<1>24. ASSUME RequeueStaleFails PROVE RunnersApart'
  BY <1>24, PutDownKeepsApart, WorkerIsActor DEF RequeueStaleFails, RequeueStaleRows,
     SetStatusOfAll, control, OnlyPutDown, ControlOK
<1>25. ASSUME FailStale PROVE RunnersApart'
  BY <1>25, PutDownKeepsApart, WorkerIsActor DEF FailStale, FailStaleRows, SetStatusOfAll,
     OnlyPutDown, ControlOK
<1>26. ASSUME FailStaleFails PROVE RunnersApart'
  BY <1>26, PutDownKeepsApart, WorkerIsActor DEF FailStaleFails, FailStaleRows,
     SetStatusOfAll, Release, queue, OnlyPutDown, ControlOK
<1>27. ASSUME NEW r \in Requests, FinalizeStale(r) PROVE RunnersApart'
  BY <1>27, PutDownKeepsApart, WorkerIsActor, Distinct DEF FinalizeStale, rows, queue,
     OnlyPutDown, ControlOK
<1>28. ASSUME Crash PROVE RunnersApart'
  BY <1>28, PutDownKeepsApart, WorkerIsActor DEF Crash, ProcessEnds, rows, queue,
     OnlyPutDown, ControlOK
<1>29. ASSUME Stop PROVE RunnersApart'
  BY <1>29, PutDownKeepsApart, WorkerIsActor DEF Stop, rows, queue, OnlyPutDown, ControlOK
<1>30. ASSUME Exit PROVE RunnersApart'
  BY <1>30, PutDownKeepsApart, WorkerIsActor DEF Exit, ProcessEnds, rows, queue,
     OnlyPutDown, ControlOK
<1>31. ASSUME Restart PROVE RunnersApart'
  BY <1>31, PutDownKeepsApart, WorkerIsActor DEF Restart, rows, queue, OnlyPutDown,
     ControlOK
<1>32. CASE UNCHANGED vars
  BY <1>32, PutDownKeepsApart DEF vars, control, rows, queue, OnlyPutDown
<1> QED
  BY <1>1, <1>2, <1>3, <1>4, <1>5, <1>6, <1>7, <1>8, <1>9, <1>10, <1>11, <1>12, <1>13,
     <1>14, <1>15, <1>16, <1>17, <1>18, <1>19, <1>20, <1>21, <1>22, <1>23, <1>24, <1>25,
     <1>26, <1>27, <1>28, <1>29, <1>30, <1>31, <1>32
  DEF Next, WorkerStep, WorkerFault, SideEffect, SideEffectFault, Recover, RecoverFault, Process

(* Runners are apart and their attempts counted in every reachable state. *)
LEMMA RunnersStayApart == Spec => []RunnersApart
<1>1. Init => RunnersApart
  BY WorkerIsActor DEF Init, RunnersApart, HeldWasClaimed, TriesCounted, OneRunner
<1> QED
  BY Invariance, <1>1, ApartStep, PTL DEF Spec

(* Two workers never make the same attempt of a job, even when a slow      *)
(* runner's job is taken for stale (ClaimNextGenerationJob counts the      *)
(* attempt as it claims, RequeueStaleRunningJobs spares spent jobs).       *)
THEOREM OneRunnerPerAttempt == Spec => []OneRunner
<1>1. RunnersApart => OneRunner
  BY DEF RunnersApart
<1> QED
  BY RunnersStayApart, <1>1, PTL

(* No attempt is numbered beyond the job's limit. *)
THEOREM AttemptsCounted == Spec => []TriesCounted
<1>1. RunnersApart => TriesCounted
  BY DEF RunnersApart
<1> QED
  BY RunnersStayApart, <1>1, PTL

-----------------------------------------------------------------------------
(* No charge is forgotten.                                                 *)

Undisturbed == Faults \subseteq {"slow", "send"}

(* Where the settlement of a charged request is. *)
Settling(r) ==
  \/ job[r] \in {"queued", "running"} /\ req[r] = "queued"
  \/ job[r] = "done" /\ req[r] = "ok"
  \/ /\ job[r] = "done" /\ req[r] = "queued"
     /\ \E w \in Workers : on[w] = r /\ pc[w] = "finishing"
  \/ /\ job[r] = "failed" /\ req[r] = "queued"
     /\ r \in todo \/ \E a \in Actors : on[a] = r /\ pc[a] = "closing"
  \/ /\ job[r] = "failed" /\ req[r] = "failed"
     /\ r \in refunded \/ \E a \in Actors : on[a] = r /\ pc[a] = "refunding"

(* A recovery pass starts when the rows of the last one are finalized. *)
TodoBefore == pc[Recoverer] = "failing stale" => todo = {}

SeenInv == mode = "up" /\ TodoBefore /\ \A r \in spent : Settling(r)

(* What is still to be done for a request stays with who has it. *)
StillSeenTo(r) ==
  /\ job'[r] = job[r] /\ req'[r] = req[r]
  /\ r \in refunded => r \in refunded'
  /\ r \in todo => r \in todo'
  /\ \A a \in Actors : on[a] = r /\ pc[a] \in {"finishing", "closing", "refunding"} =>
       on'[a] = r /\ pc'[a] = pc[a]

(* A request goes on being settled where it is. *)
LEMMA SettlingFrame ==
  ASSUME NEW r, Settling(r), StillSeenTo(r)
  PROVE  Settling(r)'
  BY WorkerIsActor DEF Settling, StillSeenTo

(* A step of one goroutine leaves the others where they are. *)
Only(a) == \A b \in Actors \ {a} : pc'[b] = pc[b] /\ on'[b] = on[b]

(* A goroutine that changes its stage changes only its own. *)
LEMMA OnlyOne ==
  ASSUME ControlOK, NEW a \in Actors, NEW s, Goto(a, s),
         (on' = on) \/ \E x : on' = [on EXCEPT ![a] = x]
  PROVE  Only(a) /\ pc'[a] = s
  BY DEF Only, Goto, ControlOK

(* A goroutine that was not settling a request cannot leave one unsettled. *)
LEMMA NotSettling ==
  ASSUME NEW a \in Actors, Only(a), pc[a] \notin {"finishing", "closing", "refunding"},
         NEW r, Settling(r), job'[r] = job[r], req'[r] = req[r],
         r \in refunded => r \in refunded', r \in todo => r \in todo'
  PROVE  Settling(r)'
<1>1. StillSeenTo(r)
  BY DEF StillSeenTo, Only
<1> QED
  BY <1>1, SettlingFrame

(* Nor can one that was settling another. *)
LEMMA SettlingOther ==
  ASSUME NEW a \in Actors, Only(a), NEW r, on[a] # r, Settling(r), job'[r] = job[r],
         req'[r] = req[r], r \in refunded => r \in refunded', r \in todo => r \in todo'
  PROVE  Settling(r)'
<1>1. StillSeenTo(r)
  BY DEF StillSeenTo, Only
<1> QED
  BY <1>1, SettlingFrame

(* Undisturbed, the faults of the others do not happen. *)
LEMMA NoFault ==
  ASSUME Undisturbed, mode = "up"
  PROVE  /\ ~WriteMayFail
         /\ \A r \in Requests : ~Resubmit(r)
         /\ \A w \in Workers : ~WorkerFault(w)
         /\ \A a \in Actors : ~SideEffectFault(a)
         /\ ~ClaimAnswerLost /\ ~RecoverFault /\ ~Process
<1>1. /\ "db" \notin Faults /\ "replay" \notin Faults /\ "panic" \notin Faults
      /\ "crash" \notin Faults /\ "stop" \notin Faults
  BY DEF Undisturbed
<1>2. ~WriteMayFail
  BY <1>1 DEF WriteMayFail
<1>3. \A w \in Workers : ~WorkerFault(w)
  BY <1>1, <1>2 DEF WorkerFault, Panic, MarkDoneFails, FinishRequestFails, RequeueFails,
     FinalizeFails
<1>4. \A a \in Actors : ~SideEffectFault(a)
  BY <1>2 DEF SideEffectFault, FailRequestFails, RefundFails
<1>5. ~RecoverFault
  BY <1>1, <1>2 DEF RecoverFault, RequeueStaleFails, FailStaleFails
<1>6. ~Process
  BY <1>1 DEF Process, Crash, Stop, Exit, Restart
<1> QED
  BY <1>1, <1>2, <1>3, <1>4, <1>5, <1>6 DEF Resubmit, ClaimAnswerLost

(* Each worker's step hands its job on to the next who sees to it. *)
LEMMA WorkerSettles ==
  ASSUME IInv, SeenInv, NEW w \in Workers, WorkerStep(w), NEW r \in spent
  PROVE  Settling(r)'
<1> w \in Actors /\ ControlOK /\ RowsOK /\ r \in Requests /\ Settling(r)
  BY WorkerIsActor DEF IInv, TypeOK, RowsOK, MoneyOK, SeenInv
<1> HoldsItsJob(w)
  BY DEF IInv, AllHold
<1>1. CASE Generate(w)
  <2>1. Only(w)
    BY <1>1, OnlyOne DEF Generate, AttemptFailed
  <2> QED
    BY <1>1, <2>1, NotSettling DEF Generate, AttemptFailed, rows, queue, money
<1>2. CASE Send(w)
  <2>1. Only(w)
    BY <1>2, OnlyOne DEF Send, AttemptFailed
  <2> QED
    BY <1>2, <2>1, NotSettling DEF Send, AttemptFailed, rows, queue, money
<1>3. CASE MarkDone(w)
  <2>1. Only(w)
    BY <1>3, OnlyOne DEF MarkDone, Release
  <2>2. UNCHANGED <<req, refunded, todo>>
    BY <1>3 DEF MarkDone, Release, money
  <2>3. CASE on[w] = r /\ job[r] = "running"
    <3>1. job'[r] = "done" /\ pc'[w] = "finishing" /\ on'[w] = r
      BY <1>3, <2>3 DEF MarkDone, Close, SetStatus, Goto, RowsOK, ControlOK
    <3> QED
      BY <2>2, <2>3, <3>1 DEF Settling
  <2>4. CASE ~(on[w] = r /\ job[r] = "running")
    <3>1. job'[r] = job[r]
      BY <1>3, <2>4 DEF MarkDone, Close, SetStatus, queue, RowsOK
    <3> QED
      BY <1>3, <2>1, <2>2, <3>1, NotSettling DEF MarkDone
  <2> QED
    BY <2>3, <2>4
<1>4. CASE FinishRequest(w)
  <2>1. Only(w)
    BY <1>4, OnlyOne DEF FinishRequest, Release
  <2>2. UNCHANGED <<job, refunded, todo>>
    BY <1>4 DEF FinishRequest, Release, queue, money
  <2>3. CASE on[w] = r
    <3>1. job[r] = "done" /\ req[r] \in {"queued", "ok"}
      BY <1>4, <2>3 DEF FinishRequest, HoldsItsJob, Settling
    <3>2. req'[r] = "ok"
      BY <1>4, <2>3, <3>1 DEF FinishRequest, RowsOK
    <3> QED
      BY <2>2, <3>1, <3>2 DEF Settling
  <2>4. CASE on[w] # r
    <3>1. req'[r] = req[r]
      BY <1>4, <2>4 DEF FinishRequest, RowsOK
    <3> QED
      BY <2>1, <2>2, <2>4, <3>1, SettlingOther
  <2> QED
    BY <2>3, <2>4
<1>5. CASE Requeue(w)
  <2>1. Only(w)
    BY <1>5, OnlyOne DEF Requeue, Release
  <2>2. UNCHANGED <<req, refunded, todo>>
    BY <1>5 DEF Requeue, Release, money
  <2>3. CASE on[w] = r /\ job[r] = "running"
    <3>1. job'[r] = "queued"
      BY <1>5, <2>3 DEF Requeue, PutBack, SetStatus, RowsOK
    <3> QED
      BY <2>2, <2>3, <3>1 DEF Settling
  <2>4. CASE ~(on[w] = r /\ job[r] = "running")
    <3>1. job'[r] = job[r]
      BY <1>5, <2>4 DEF Requeue, PutBack, SetStatus, queue, RowsOK
    <3> QED
      BY <1>5, <2>1, <2>2, <3>1, NotSettling DEF Requeue
  <2> QED
    BY <2>3, <2>4
<1>6. CASE Finalize(w)
  <2>1. Only(w)
    BY <1>6, OnlyOne DEF Finalize, Release
  <2>2. UNCHANGED <<req, refunded, todo>>
    BY <1>6 DEF Finalize, Release, money
  <2>3. CASE on[w] = r /\ job[r] = "running"
    <3>1. job'[r] = "failed" /\ pc'[w] = "closing" /\ on'[w] = r
      BY <1>6, <2>3 DEF Finalize, Close, SetStatus, Goto, RowsOK, ControlOK
    <3> QED
      BY <2>2, <2>3, <3>1 DEF Settling
  <2>4. CASE ~(on[w] = r /\ job[r] = "running")
    <3>1. job'[r] = job[r]
      BY <1>6, <2>4 DEF Finalize, Close, SetStatus, queue, RowsOK
    <3> QED
      BY <1>6, <2>1, <2>2, <3>1, NotSettling DEF Finalize
  <2> QED
    BY <2>3, <2>4
<1> QED
  BY <1>1, <1>2, <1>3, <1>4, <1>5, <1>6 DEF WorkerStep

(* The side effects end in a refund, whoever runs them. *)
LEMMA SideEffectSettles ==
  ASSUME IInv, SeenInv, NEW a \in Actors, SideEffect(a), NEW r \in spent
  PROVE  Settling(r)'
<1> ControlOK /\ RowsOK /\ r \in Requests /\ Settling(r) /\ HoldsItsJob(a)
  BY DEF IInv, TypeOK, RowsOK, MoneyOK, SeenInv, AllHold
<1>1. CASE FailRequest(a)
  <2>1. Only(a)
    BY <1>1, OnlyOne DEF FailRequest, Release
  <2>2. UNCHANGED <<job, refunded, todo>>
    BY <1>1 DEF FailRequest, Release, queue, money
  <2>3. CASE on[a] = r
    <3>1. job[r] = "failed" /\ req[r] \in {"queued", "failed"}
      BY <1>1, <2>3 DEF FailRequest, HoldsItsJob, Settling
    <3>2. CASE req[r] = "queued"
      <4>1. req'[r] = "failed" /\ on'[a] = r /\ pc'[a] = "refunding"
        BY <1>1, <2>3, <3>2 DEF FailRequest, Goto, RowsOK, ControlOK
      <4> QED
        BY <2>2, <3>1, <4>1 DEF Settling
    <3>3. CASE req[r] = "failed"
      <4>1. req'[r] = "failed"
        BY <1>1, <2>3, <3>3 DEF FailRequest
      <4>2. r \in refunded \/ \E b \in Actors \ {a} : on[b] = r /\ pc[b] = "refunding"
        BY <1>1, <3>1, <3>3 DEF FailRequest, Settling
      <4> QED
        BY <2>1, <2>2, <3>1, <4>1, <4>2 DEF Settling, Only
    <3> QED
      BY <3>1, <3>2, <3>3
  <2>4. CASE on[a] # r
    <3>1. req'[r] = req[r]
      BY <1>1, <2>4 DEF FailRequest, RowsOK
    <3> QED
      BY <2>1, <2>2, <2>4, <3>1, SettlingOther
  <2> QED
    BY <2>3, <2>4
<1>2. CASE Refund(a)
  <2>1. Only(a)
    BY <1>2, OnlyOne DEF Refund, Release
  <2>2. UNCHANGED <<job, req, todo>>
    BY <1>2 DEF Refund, Release, rows, queue
  <2>3. refunded' = refunded \cup {on[a]}
    BY <1>2 DEF Refund, InsertRefund
  <2>4. CASE on[a] = r
    BY <1>2, <2>2, <2>3, <2>4 DEF Refund, HoldsItsJob, Settling
  <2>5. CASE on[a] # r
    BY <2>1, <2>2, <2>3, <2>5, SettlingOther
  <2> QED
    BY <2>4, <2>5
<1> QED
  BY <1>1, <1>2 DEF SideEffect

(* A recovery pass loses no row that it fails. *)
LEMMA RecoverSettles ==
  ASSUME IInv, SeenInv, Recover, NEW r \in spent
  PROVE  Settling(r)'
<1> Recoverer \in Actors /\ ControlOK /\ RowsOK /\ r \in Requests /\ Settling(r)
  BY RecovererIsActor DEF IInv, TypeOK, RowsOK, MoneyOK, SeenInv
<1>1. CASE RequeueStale
  <2>1. Only(Recoverer)
    BY <1>1, OnlyOne DEF RequeueStale
  <2>2. UNCHANGED <<req, refunded, todo>>
    BY <1>1 DEF RequeueStale, money
  <2>3. job'[r] = IF r \in Retryable THEN "queued" ELSE job[r]
    BY <1>1 DEF RequeueStale, RequeueStaleRows, SetStatusOfAll
  <2>4. CASE r \in Retryable
    BY <2>2, <2>3, <2>4 DEF Retryable, Stale, Settling
  <2>5. CASE r \notin Retryable
    BY <1>1, <2>1, <2>2, <2>3, <2>5, NotSettling DEF RequeueStale, Idle
  <2> QED
    BY <2>4, <2>5
<1>2. CASE FailStale
  <2>1. Only(Recoverer)
    BY <1>2, OnlyOne DEF FailStale
  <2>2. UNCHANGED <<req, refunded>> /\ todo' = Exhausted /\ todo = {}
    BY <1>2 DEF FailStale, money, SeenInv, TodoBefore
  <2>3. job'[r] = IF r \in Exhausted THEN "failed" ELSE job[r]
    BY <1>2 DEF FailStale, FailStaleRows, SetStatusOfAll
  <2>4. CASE r \in Exhausted
    BY <2>2, <2>3, <2>4 DEF Exhausted, Stale, Settling
  <2>5. CASE r \notin Exhausted
    BY <1>2, <2>1, <2>2, <2>3, <2>5, NotSettling DEF FailStale
  <2> QED
    BY <2>4, <2>5
<1>3. ASSUME NEW q \in Requests, FinalizeStale(q) PROVE Settling(r)'
  <2>1. Only(Recoverer) /\ pc'[Recoverer] = "closing"
    BY <1>3, OnlyOne DEF FinalizeStale
  <2>2. UNCHANGED <<job, req, refunded>> /\ todo' = todo \ {q} /\ on'[Recoverer] = q
    BY <1>3 DEF FinalizeStale, rows, queue, money, ControlOK
  <2>3. CASE r # q
    BY <1>3, <2>1, <2>2, <2>3, NotSettling DEF FinalizeStale, Idle
  <2>4. CASE r = q
    <3>1. job[r] = "failed"
      BY <1>3, <2>4 DEF FinalizeStale, IInv, TodoFailed
    <3>2. CASE req[r] = "queued"
      BY <2>1, <2>2, <2>4, <3>1, <3>2 DEF Settling
    <3>3. CASE req[r] # "queued"
      BY <1>3, <2>1, <2>2, <3>1, <3>3 DEF FinalizeStale, Idle, Settling, Only
    <3> QED
      BY <3>2, <3>3
  <2> QED
    BY <2>3, <2>4
<1> QED
  BY <1>1, <1>2, <1>3 DEF Recover

(* A recovery pass starts with nothing left of the last one. *)
LEMMA TodoBeforeStep ==
  ASSUME Undisturbed, IInv, SeenInv, [Next]_vars
  PROVE  TodoBefore'
<1> Recoverer \in Actors /\ ControlOK /\ OwnStages
  BY RecovererIsActor DEF IInv, TypeOK
<1>1. CASE pc'[Recoverer] = pc[Recoverer] /\ todo' = todo
  BY <1>1 DEF TodoBefore, SeenInv
<1>2. ASSUME NEW a \in Accounts, Grant(a) PROVE TodoBefore'
  BY <1>1, <1>2 DEF Grant, control
<1>3. ASSUME NEW r \in Requests, Submit(r) \/ BackoffEnds(r) \/ BecomesStale(r)
      PROVE  TodoBefore'
  BY <1>1, <1>3 DEF Submit, BackoffEnds, BecomesStale, control
<1>4. ASSUME NEW w \in Workers, Claim(w) PROVE TodoBefore'
  BY <1>1, <1>4, Distinct, WorkerIsActor DEF Claim, Goto, ControlOK
<1>5. ASSUME NEW w \in Workers, WorkerStep(w) PROVE TodoBefore'
  <2>1. todo' = todo /\ \E s : Goto(w, s)
    BY <1>5 DEF WorkerStep, Generate, Send, MarkDone, FinishRequest, Requeue, Finalize, Release,
       AttemptFailed
  <2> QED
    BY <1>1, <2>1, Distinct, WorkerIsActor DEF Goto, ControlOK
<1>6. ASSUME NEW a \in Actors, SideEffect(a) PROVE TodoBefore'
  <2>1. todo' = todo /\ \E s : s # "failing stale" /\ Goto(a, s)
    BY <1>6 DEF SideEffect, FailRequest, Refund, Release
  <2>2. pc'[Recoverer] = pc[Recoverer] \/ pc'[Recoverer] # "failing stale"
    BY <2>1 DEF Goto, ControlOK
  <2> QED
    BY <1>1, <2>1, <2>2 DEF TodoBefore
<1>7. CASE Recover
  BY <1>7 DEF Recover, RequeueStale, FailStale, FinalizeStale, Goto, ControlOK, TodoBefore
<1>8. CASE UNCHANGED vars
  BY <1>1, <1>8 DEF vars, control
<1> QED
  BY <1>2, <1>3, <1>4, <1>5, <1>6, <1>7, <1>8, NoFault DEF Next, SeenInv

(* Undisturbed, every charged request stays in somebody's hands. *)
LEMMA SeenStep ==
  ASSUME Undisturbed, IInv, SeenInv, [Next]_vars
  PROVE  SeenInv'
<1> RowsOK /\ MoneyOK /\ ControlOK
  BY DEF IInv, TypeOK
<1>1. mode' = "up"
  <2>1. mode = "up" /\ (Next => mode' = mode)
    BY NoFault
       DEF SeenInv, Next, Grant, Submit, BackoffEnds, BecomesStale, Claim, WorkerStep, Generate,
           Send, MarkDone, FinishRequest, Requeue, Finalize, AttemptFailed, Release, SideEffect,
           FailRequest, Refund, Recover, RequeueStale, FailStale, FinalizeStale, control
  <2> QED
    BY <2>1 DEF vars, control
<1>2. ASSUME NEW r \in spent' PROVE Settling(r)'
  <2>1. ASSUME r \in spent, UNCHANGED <<pc, on, todo, refunded>>, job'[r] = job[r], req'[r] = req[r]
        PROVE  Settling(r)'
    <3>1. StillSeenTo(r) /\ Settling(r)
      BY <2>1 DEF StillSeenTo, SeenInv
    <3> QED
      BY <3>1, SettlingFrame
  <2>2. ASSUME NEW a \in Accounts, Grant(a) PROVE Settling(r)'
    BY <2>1, <2>2 DEF Grant, rows, queue, control
  <2>3. ASSUME NEW q \in Requests, Submit(q) PROVE Settling(r)'
    <3>1. CASE r = q /\ req'[q] = "queued" /\ job'[q] = "queued"
      BY <3>1 DEF Settling
    <3>2. CASE r \in spent /\ r # q
      BY <2>1, <2>3, <3>2 DEF Submit, SetStatus, control, RowsOK, MoneyOK
    <3>3. q \notin spent
      BY <2>3 DEF Submit, NextId, SeenInv, Settling
    <3>4. \/ r = q /\ req'[q] = "queued" /\ job'[q] = "queued"
          \/ r \in spent /\ r # q
      BY <2>3, <3>3 DEF Submit, SetStatus, RowsOK
    <3> QED
      BY <3>1, <3>2, <3>4
  <2>4. ASSUME NEW q \in Requests, BackoffEnds(q) \/ BecomesStale(q) PROVE Settling(r)'
    BY <2>1, <2>4 DEF BackoffEnds, BecomesStale, money, control
  <2>5. ASSUME NEW w \in Workers, Claim(w) PROVE Settling(r)'
    <3>1. UNCHANGED <<req, spent, refunded, todo>>
      BY <2>5 DEF Claim, money
    <3>2. PICK q \in Requests : ClaimRow(q)
      BY <2>5 DEF Claim
    <3>3. r \in Requests /\ r \in spent /\ Settling(r)
      BY <3>1 DEF SeenInv, MoneyOK
    <3>4. job'[r] = IF r = q THEN "running" ELSE job[r]
      BY <3>2, <3>3 DEF ClaimRow, SetStatus, RowsOK
    <3>5. CASE r = q
      BY <3>1, <3>2, <3>3, <3>4, <3>5 DEF ClaimRow, Claimable, Settling
    <3>6. CASE r # q
      <4>1. Only(w)
        BY <2>5, OnlyOne, WorkerIsActor DEF Claim
      <4> QED
        BY <2>5, <3>1, <3>3, <3>4, <3>6, <4>1, NotSettling, WorkerIsActor DEF Claim, Idle
    <3> QED
      BY <3>5, <3>6
  <2>6. ASSUME NEW w \in Workers, WorkerStep(w) PROVE Settling(r)'
    <3>1. spent' = spent
      BY <2>6 DEF WorkerStep, Generate, Send, MarkDone, FinishRequest, Requeue, Finalize, money
    <3> QED
      BY <2>6, <3>1, WorkerSettles
  <2>7. ASSUME NEW a \in Actors, SideEffect(a) PROVE Settling(r)'
    <3>1. spent' = spent
      BY <2>7 DEF SideEffect, FailRequest, Refund, money
    <3> QED
      BY <2>7, <3>1, SideEffectSettles
  <2>8. CASE Recover
    <3>1. spent' = spent
      BY <2>8 DEF Recover, RequeueStale, FailStale, FinalizeStale, money
    <3> QED
      BY <2>8, <3>1, RecoverSettles
  <2>9. CASE UNCHANGED vars
    BY <2>1, <2>9 DEF vars, rows, queue, money, control
  <2> QED
    BY <2>2, <2>3, <2>4, <2>5, <2>6, <2>7, <2>8, <2>9, NoFault DEF Next, SeenInv
<1> QED
  BY <1>1, <1>2, TodoBeforeStep DEF SeenInv

(* No charge is forgotten: at every moment of an undisturbed run a charged *)
(* request that is neither served nor refunded has a worker, the recovery  *)
(* pass or the owner of its side effects to see to it.                     *)
THEOREM NoChargeForgotten == Spec => []OwedIsSeenTo
<1>1. CASE ~Undisturbed
  <2>1. OwedIsSeenTo
    BY <1>1 DEF Undisturbed, OwedIsSeenTo
  <2> QED
    BY <2>1, PTL
<1>2. CASE Undisturbed
  <2>1. Init => SeenInv
    BY RecovererIsActor DEF Init, SeenInv, TodoBefore
  <2>2. IInv /\ SeenInv /\ [Next]_vars => SeenInv'
    BY <1>2, SeenStep
  <2>3. SeenInv => OwedIsSeenTo
    <3> SUFFICES ASSUME SeenInv, NEW r \in Requests, Outcome[r] = "owed" PROVE SeenTo(r)
      BY DEF OwedIsSeenTo
    <3>1. r \in spent /\ r \notin refunded /\ req[r] # "ok"
      BY DEF Outcome, OutcomeOf
    <3> QED
      BY <3>1 DEF SeenInv, Settling, SeenTo, Closing
  <2> QED
    BY Invariance, <2>1, <2>2, <2>3, PTL DEF Spec
<1> QED
  BY <1>1, <1>2

-----------------------------------------------------------------------------
(* The refinement: each step of Generation is a step of Settlement, or one *)
(* that Settlement does not see.                                           *)

(* A step that moves no credits and settles no request. *)
LEMMA OutcomeStutters ==
  ASSUME UNCHANGED money, \A r \in Requests : OutcomeOf(r)' = OutcomeOf(r)
  PROVE  UNCHANGED Contract!vars
  BY DEF Outcome, Contract!vars, money

(* The outcome of one request moves, the rest stays. *)
LEMMA OutcomeMoves ==
  ASSUME NEW r \in Requests, NEW o, OutcomeOf(r)' = o,
         \A q \in Requests \ {r} : OutcomeOf(q)' = OutcomeOf(q)
  PROVE  Outcome' = [Outcome EXCEPT ![r] = o]
  BY DEF Outcome

(* Every step maps to a step of Settlement or to a stutter. *)
LEMMA Refines == IInv /\ [Next]_vars => [Contract!Next]_(Contract!vars)
<1> SUFFICES ASSUME IInv, [Next]_vars PROVE [Contract!Next]_(Contract!vars)
  OBVIOUS
<1> RowsOK /\ MoneyOK
  BY DEF IInv, TypeOK
<1>1. ASSUME NEW a \in Accounts, Grant(a) PROVE [Contract!Next]_(Contract!vars)
  <2>1. Outcome' = Outcome
    BY <1>1 DEF Grant, Outcome, OutcomeOf, rows
  <2>2. balance' = [balance EXCEPT ![a] = balance'[a]] /\ balance'[a] > balance[a]
    BY <1>1 DEF Grant, MoneyOK
  <2> QED
    BY <2>1, <2>2 DEF Contract!Next, Contract!Grant
<1>2. ASSUME NEW r \in Requests, Submit(r) PROVE [Contract!Next]_(Contract!vars)
  <2>1. OutcomeOf(r) = "new"
    BY <1>2 DEF Submit, NextId, IInv, RowsAgree, RowAgrees, OutcomeOf
  <2>2. \A q \in Requests \ {r} : OutcomeOf(q)' = OutcomeOf(q)
    BY <1>2 DEF Submit, OutcomeOf, RowsOK
  <2>3. r \notin refunded /\ r \notin spent
    BY <2>1 DEF OutcomeOf
  <2>4. CASE r \in spent'
    <3>1. OutcomeOf(r)' = "owed"
      BY <1>2, <2>3, <2>4 DEF Submit, OutcomeOf, RowsOK
    <3>2. Contract!Charge(r)
      BY <1>2, <2>1, <2>2, <2>3, <2>4, <3>1, OutcomeMoves DEF Submit, Solvent,
         Contract!Charge, Outcome
    <3> QED
      BY <3>2 DEF Contract!Next
  <2>5. CASE r \notin spent'
    <3>1. OutcomeOf(r)' = "refused"
      BY <1>2, <2>3, <2>5 DEF Submit, OutcomeOf, RowsOK
    <3>2. Contract!Refuse(r)
      BY <1>2, <2>1, <2>2, <2>5, <3>1, OutcomeMoves DEF Submit, Contract!Refuse, Outcome
    <3> QED
      BY <3>2 DEF Contract!Next
  <2> QED
    BY <2>4, <2>5
<1>3. ASSUME NEW r \in Requests, Resubmit(r) PROVE [Contract!Next]_(Contract!vars)
  <2>1. r \in spent
    BY <1>3 DEF Resubmit, IInv, RowsAgree, RowAgrees
  <2> QED
    BY <1>3, <2>1, OutcomeStutters DEF Resubmit, OutcomeOf, RowsOK, money
<1>4. ASSUME NEW r \in Requests, BackoffEnds(r) PROVE [Contract!Next]_(Contract!vars)
  BY <1>4, OutcomeStutters DEF BackoffEnds, OutcomeOf, rows, money
<1>5. ASSUME NEW r \in Requests, BecomesStale(r) PROVE [Contract!Next]_(Contract!vars)
  BY <1>5, OutcomeStutters DEF BecomesStale, OutcomeOf, rows, money
<1>6. ASSUME NEW w \in Workers, Claim(w) PROVE [Contract!Next]_(Contract!vars)
  BY <1>6, OutcomeStutters DEF Claim, OutcomeOf, rows, money
<1>7. ASSUME ClaimAnswerLost PROVE [Contract!Next]_(Contract!vars)
  BY <1>7, OutcomeStutters DEF ClaimAnswerLost, OutcomeOf, rows, money
<1>8. ASSUME NEW w \in Workers, Generate(w) PROVE [Contract!Next]_(Contract!vars)
  BY <1>8, OutcomeStutters DEF Generate, OutcomeOf, rows, money
<1>9. ASSUME NEW w \in Workers, Send(w) PROVE [Contract!Next]_(Contract!vars)
  BY <1>9, OutcomeStutters DEF Send, OutcomeOf, rows, money
<1>10. ASSUME NEW w \in Workers, Panic(w) PROVE [Contract!Next]_(Contract!vars)
  BY <1>10, OutcomeStutters DEF Panic, OutcomeOf, rows, money
<1>11. ASSUME NEW w \in Workers, MarkDone(w) PROVE [Contract!Next]_(Contract!vars)
  BY <1>11, OutcomeStutters DEF MarkDone, OutcomeOf, rows, money
<1>12. ASSUME NEW w \in Workers, MarkDoneFails(w) PROVE [Contract!Next]_(Contract!vars)
  BY <1>12, OutcomeStutters DEF MarkDoneFails, OutcomeOf, rows, money
<1>13. ASSUME NEW w \in Workers, FinishRequest(w) PROVE [Contract!Next]_(Contract!vars)
  <2>0. PICK r \in Requests : r = on[w] /\ r \in spent
    BY <1>13, HeldIsRequest, WorkerIsActor DEF FinishRequest
  <2>1. CASE req[r] # "queued"
    BY <1>13, <2>0, <2>1, OutcomeStutters DEF FinishRequest, OutcomeOf, money
  <2>2. CASE req[r] = "queued"
    <3>1. r \notin refunded
      BY <2>0, <2>2 DEF IInv, RowsAgree, RowAgrees
    <3>2. OutcomeOf(r) = "owed" /\ OutcomeOf(r)' = "served"
      BY <1>13, <2>0, <2>2, <3>1 DEF FinishRequest, OutcomeOf, money, RowsOK
    <3>3. \A q \in Requests \ {r} : OutcomeOf(q)' = OutcomeOf(q)
      BY <1>13, <2>0 DEF FinishRequest, OutcomeOf, money, RowsOK
    <3>4. Outcome' = [Outcome EXCEPT ![r] = "served"]
      BY <2>0, <3>2, <3>3, OutcomeMoves
    <3>5. Contract!Serve(r)
      BY <1>13, <2>0, <3>2, <3>4 DEF FinishRequest, Contract!Serve, Outcome, money
    <3> QED
      BY <2>0, <3>5 DEF Contract!Next, Contract!Settle
  <2> QED
    BY <2>1, <2>2
<1>14. ASSUME NEW w \in Workers, FinishRequestFails(w) PROVE [Contract!Next]_(Contract!vars)
  BY <1>14, OutcomeStutters DEF FinishRequestFails, OutcomeOf, rows, money
<1>15. ASSUME NEW w \in Workers, Requeue(w) PROVE [Contract!Next]_(Contract!vars)
  BY <1>15, OutcomeStutters DEF Requeue, OutcomeOf, rows, money
<1>16. ASSUME NEW w \in Workers, RequeueFails(w) PROVE [Contract!Next]_(Contract!vars)
  BY <1>16, OutcomeStutters DEF RequeueFails, OutcomeOf, rows, money
<1>17. ASSUME NEW w \in Workers, Finalize(w) PROVE [Contract!Next]_(Contract!vars)
  BY <1>17, OutcomeStutters DEF Finalize, OutcomeOf, rows, money
<1>18. ASSUME NEW w \in Workers, FinalizeFails(w) PROVE [Contract!Next]_(Contract!vars)
  BY <1>18, OutcomeStutters DEF FinalizeFails, OutcomeOf, rows, money
<1>19. ASSUME NEW a \in Actors, FailRequest(a) PROVE [Contract!Next]_(Contract!vars)
  <2>0. on[a] \in Requests /\ on[a] \in spent
    BY <1>19, HeldIsRequest DEF FailRequest
  <2>1. \A q \in Requests : OutcomeOf(q)' = OutcomeOf(q)
    BY <1>19, <2>0 DEF FailRequest, OutcomeOf, money, RowsOK
  <2> QED
    BY <1>19, <2>1, OutcomeStutters DEF FailRequest
<1>20. ASSUME NEW a \in Actors, FailRequestFails(a) PROVE [Contract!Next]_(Contract!vars)
  <2>0. on[a] \in Requests /\ on[a] \in spent
    BY <1>20, HeldIsRequest DEF FailRequestFails
  <2>1. \A q \in Requests : OutcomeOf(q)' = OutcomeOf(q)
    BY <1>20, <2>0 DEF FailRequestFails, OutcomeOf, money, RowsOK
  <2> QED
    BY <1>20, <2>1, OutcomeStutters DEF FailRequestFails
<1>21. ASSUME NEW a \in Actors, Refund(a) PROVE [Contract!Next]_(Contract!vars)
  <2>0. PICK r \in Requests : r = on[a] /\ r \in spent
    BY <1>21, HeldIsRequest DEF Refund
  <2>1. req[r] = "failed" /\ r \notin refunded
    BY <1>21, <2>0 DEF Refund, IInv, AllHold, HoldsItsJob
  <2>2. CASE refunded' = refunded /\ balance' = balance
    BY <1>21, <2>2, OutcomeStutters DEF Refund, OutcomeOf, rows, money
  <2>3. CASE InsertRefund(r)
    <3>1. refunded' = refunded \cup {r}
      BY <2>1, <2>3 DEF InsertRefund
    <3>2. OutcomeOf(r) = "owed" /\ OutcomeOf(r)' = "refunded"
      BY <2>0, <2>1, <3>1 DEF OutcomeOf
    <3>3. \A q \in Requests \ {r} : OutcomeOf(q)' = OutcomeOf(q)
      BY <1>21, <3>1 DEF Refund, OutcomeOf, rows
    <3>4. Outcome' = [Outcome EXCEPT ![r] = "refunded"]
      BY <2>0, <3>2, <3>3, OutcomeMoves
    <3>5. Contract!Refund(r)
      BY <2>0, <2>1, <2>3, <3>2, <3>4 DEF InsertRefund, Contract!Refund, Outcome
    <3> QED
      BY <2>0, <3>5 DEF Contract!Next, Contract!Settle
  <2> QED
    BY <1>21, <2>0, <2>2, <2>3 DEF Refund
<1>22. ASSUME NEW a \in Actors, RefundFails(a) PROVE [Contract!Next]_(Contract!vars)
  <2>0. PICK r \in Requests : r = on[a] /\ r \in spent
    BY <1>22, HeldIsRequest DEF RefundFails
  <2>1. req[r] = "failed" /\ r \notin refunded
    BY <1>22, <2>0 DEF RefundFails, IInv, AllHold, HoldsItsJob
  <2>2. CASE refunded' = refunded /\ balance' = balance
    BY <1>22, <2>2, OutcomeStutters DEF RefundFails, OutcomeOf, rows, money
  <2>3. CASE InsertRefund(r)
    <3>1. refunded' = refunded \cup {r}
      BY <2>1, <2>3 DEF InsertRefund
    <3>2. OutcomeOf(r) = "owed" /\ OutcomeOf(r)' = "refunded"
      BY <2>0, <2>1, <3>1 DEF OutcomeOf
    <3>3. \A q \in Requests \ {r} : OutcomeOf(q)' = OutcomeOf(q)
      BY <1>22, <3>1 DEF RefundFails, OutcomeOf, rows
    <3>4. Outcome' = [Outcome EXCEPT ![r] = "refunded"]
      BY <2>0, <3>2, <3>3, OutcomeMoves
    <3>5. Contract!Refund(r)
      BY <2>0, <2>1, <2>3, <3>2, <3>4 DEF InsertRefund, Contract!Refund, Outcome
    <3> QED
      BY <2>0, <3>5 DEF Contract!Next, Contract!Settle
  <2> QED
    BY <1>22, <2>0, <2>2, <2>3 DEF RefundFails
<1>23. ASSUME RequeueStale PROVE [Contract!Next]_(Contract!vars)
  BY <1>23, OutcomeStutters DEF RequeueStale, OutcomeOf, rows, money
<1>24. ASSUME RequeueStaleFails PROVE [Contract!Next]_(Contract!vars)
  BY <1>24, OutcomeStutters DEF RequeueStaleFails, OutcomeOf, rows, money
<1>25. ASSUME FailStale PROVE [Contract!Next]_(Contract!vars)
  BY <1>25, OutcomeStutters DEF FailStale, OutcomeOf, rows, money
<1>26. ASSUME FailStaleFails PROVE [Contract!Next]_(Contract!vars)
  BY <1>26, OutcomeStutters DEF FailStaleFails, OutcomeOf, rows, money
<1>27. ASSUME NEW r \in Requests, FinalizeStale(r) PROVE [Contract!Next]_(Contract!vars)
  BY <1>27, OutcomeStutters DEF FinalizeStale, OutcomeOf, rows, money
<1>28. ASSUME Crash PROVE [Contract!Next]_(Contract!vars)
  BY <1>28, OutcomeStutters DEF Crash, ProcessEnds, OutcomeOf, rows, money
<1>29. ASSUME Stop PROVE [Contract!Next]_(Contract!vars)
  BY <1>29, OutcomeStutters DEF Stop, OutcomeOf, rows, money
<1>30. ASSUME Exit PROVE [Contract!Next]_(Contract!vars)
  BY <1>30, OutcomeStutters DEF Exit, ProcessEnds, OutcomeOf, rows, money
<1>31. ASSUME Restart PROVE [Contract!Next]_(Contract!vars)
  BY <1>31, OutcomeStutters DEF Restart, OutcomeOf, rows, money
<1>32. CASE UNCHANGED vars
  BY <1>32, OutcomeStutters DEF vars, OutcomeOf, rows, money
<1> QED
  BY <1>1, <1>2, <1>3, <1>4, <1>5, <1>6, <1>7, <1>8, <1>9, <1>10, <1>11, <1>12, <1>13,
     <1>14, <1>15, <1>16, <1>17, <1>18, <1>19, <1>20, <1>21, <1>22, <1>23, <1>24, <1>25,
     <1>26, <1>27, <1>28, <1>29, <1>30, <1>31, <1>32
  DEF Next, WorkerStep, WorkerFault, SideEffect, SideEffectFault, Recover, RecoverFault, Process

(* Generation implements Settlement: under every fault, each request is    *)
(* refused for free or charged once, then served or refunded at most once, *)
(* and credits move with exactly those steps.                              *)
THEOREM ImplementsSettlement == Spec => SettledOnce
<1>1. Init => Contract!Init
  BY DEF Init, Contract!Init, Outcome, OutcomeOf
<1> QED
  BY Invariance, <1>1, Refines, PTL DEF Spec, SettledOnce, Contract!Spec
=============================================================================
