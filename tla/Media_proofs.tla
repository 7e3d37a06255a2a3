---------------------------- MODULE Media_proofs ----------------------------
(***************************************************************************)
(* Proofs about Media: the workers and the calls they make keep, together, *)
(* what Generation and Comet promise each on its own, so every theorem     *)
(* about one of them holds of the whole; and what both must agree on, that *)
(* nothing counts as served for which no output was made.                  *)
(***************************************************************************)
EXTENDS Media, Comet_proofs

Proved == INSTANCE Generation_proofs WITH pc <- at

-----------------------------------------------------------------------------
(* Media's Generation is the one that was proved about.                    *)

(* They share the specification. *)
LEMMA SameSpec == Jobs!Spec <=> Proved!Spec
  BY DEF
     Jobs!Spec, Jobs!Init, Jobs!Next, Jobs!vars, Jobs!Actors, Jobs!Grant, Jobs!Submit,
     Jobs!Resubmit, Jobs!BackoffEnds, Jobs!BecomesStale, Jobs!Claim, Jobs!WorkerStep,
     Jobs!WorkerFault, Jobs!ClaimAnswerLost, Jobs!SideEffect, Jobs!SideEffectFault,
     Jobs!Recover, Jobs!RecoverFault, Jobs!Process, Jobs!rows, Jobs!money, Jobs!control,
     Jobs!NextId, Jobs!Solvent, Jobs!SetStatus, Jobs!ChargeMayFail,
     Jobs!Held, Jobs!Idle, Jobs!ClaimRow, Jobs!Goto, Jobs!Generate, Jobs!Send,
     Jobs!MarkDone, Jobs!FinishRequest, Jobs!Requeue, Jobs!Finalize, Jobs!Panic,
     Jobs!MarkDoneFails, Jobs!FinishRequestFails, Jobs!RequeueFails, Jobs!FinalizeFails,
     Jobs!FailRequest, Jobs!Refund, Jobs!FailRequestFails, Jobs!RefundFails,
     Jobs!RequeueStale, Jobs!FailStale, Jobs!FinalizeStale, Jobs!RequeueStaleFails,
     Jobs!FailStaleFails, Jobs!Crash, Jobs!Stop, Jobs!Exit, Jobs!Restart, Jobs!queue,
     Jobs!Claimable, Jobs!AttemptFailed, Jobs!Close, Jobs!Release, Jobs!PutBack,
     Jobs!WriteMayFail, Jobs!InsertRefund, Jobs!RequeueStaleRows, Jobs!FailStaleRows,
     Jobs!Exhausted, Jobs!ProcessEnds, Jobs!SetStatusOfAll, Jobs!Retryable, Jobs!Stale,
     Proved!Spec, Proved!Init, Proved!Next, Proved!vars, Proved!Actors, Proved!Grant,
     Proved!Submit, Proved!Resubmit, Proved!BackoffEnds, Proved!BecomesStale,
     Proved!Claim, Proved!WorkerStep, Proved!WorkerFault, Proved!ClaimAnswerLost,
     Proved!SideEffect, Proved!SideEffectFault, Proved!Recover, Proved!RecoverFault,
     Proved!Process, Proved!rows, Proved!money, Proved!control,
     Proved!NextId, Proved!Solvent, Proved!SetStatus, Proved!ChargeMayFail, Proved!Held,
     Proved!Idle, Proved!ClaimRow, Proved!Goto, Proved!Generate, Proved!Send,
     Proved!MarkDone, Proved!FinishRequest, Proved!Requeue, Proved!Finalize,
     Proved!Panic, Proved!MarkDoneFails, Proved!FinishRequestFails, Proved!RequeueFails,
     Proved!FinalizeFails, Proved!FailRequest, Proved!Refund, Proved!FailRequestFails,
     Proved!RefundFails, Proved!RequeueStale, Proved!FailStale, Proved!FinalizeStale,
     Proved!RequeueStaleFails, Proved!FailStaleFails, Proved!Crash, Proved!Stop,
     Proved!Exit, Proved!Restart, Proved!queue, Proved!Claimable, Proved!AttemptFailed,
     Proved!Close, Proved!Release, Proved!PutBack, Proved!WriteMayFail,
     Proved!InsertRefund, Proved!RequeueStaleRows, Proved!FailStaleRows,
     Proved!Exhausted, Proved!ProcessEnds, Proved!SetStatusOfAll, Proved!Retryable,
     Proved!Stale

(* ... and the contract on credits ... *)
LEMMA SameContract == Jobs!SettledOnce <=> Proved!SettledOnce
  BY DEF
     Jobs!SettledOnce, Jobs!Outcome, Jobs!OutcomeOf, Jobs!Contract!Spec,
     Jobs!Contract!Init, Jobs!Contract!Next, Jobs!Contract!vars, Jobs!Contract!Grant,
     Jobs!Contract!Charge, Jobs!Contract!Refuse, Jobs!Contract!Settle,
     Jobs!Contract!Serve, Jobs!Contract!Refund, Proved!SettledOnce, Proved!Outcome,
     Proved!OutcomeOf, Proved!Contract!Spec, Proved!Contract!Init, Proved!Contract!Next,
     Proved!Contract!vars, Proved!Contract!Grant, Proved!Contract!Charge,
     Proved!Contract!Refuse, Proved!Contract!Settle, Proved!Contract!Serve,
     Proved!Contract!Refund

(* ... and the types. *)
LEMMA SameTypes == Jobs!TypeOK <=> Proved!TypeOK
  BY DEF
     Jobs!TypeOK, Jobs!RowsOK, Jobs!MoneyOK, Jobs!ControlOK, Jobs!RequestStatus,
     Jobs!JobStatus, Jobs!Actors, Jobs!Stages, Proved!TypeOK,
     Proved!RowsOK, Proved!MoneyOK, Proved!ControlOK, Proved!RequestStatus,
     Proved!JobStatus, Proved!Actors, Proved!Stages

(* The constants are as Generation asks. *)
LEMMA SameConstants == Proved!ConstantsAssumption
  BY JobsAssumption DEF Jobs!ConstantsAssumption, Proved!ConstantsAssumption, Jobs!FaultKinds,
     Proved!FaultKinds

(* The recoverer is no worker. *)
LEMMA MediaActors == Jobs!Actors = Workers \cup {Recoverer} /\ Recoverer \notin Workers
  BY JobsAssumption DEF Jobs!ConstantsAssumption, Jobs!Actors

-----------------------------------------------------------------------------
(* The jobs go on as Generation says.                                      *)

(* What a worker does is done by a worker of Generation. *)
LEMMA WorkersStep ==
  ASSUME NEW w \in Workers, Step(w) \/ Fault(w) \/ Panic(w)
  PROVE  Jobs!Next \/ UNCHANGED jobVars
<1>1. CASE AskProvider(w)
  BY <1>1 DEF AskProvider
<1>2. CASE Jobs!WorkerStep(w) \/ Jobs!WorkerFault(w)
  BY <1>2 DEF Jobs!Next
<1> QED
  BY <1>1, <1>2 DEF Step, Fault, Panic, GenerateEnds, GoesOn, Jobs!WorkerStep, Jobs!WorkerFault

(* And so is the rest. *)
LEMMA JobsStep == [MediaNext]_everything => [Jobs!Next]_(Jobs!vars)
<1> SUFFICES ASSUME [MediaNext]_everything PROVE Jobs!Next \/ UNCHANGED Jobs!vars
  OBVIOUS
<1>1. UNCHANGED jobVars => UNCHANGED Jobs!vars
  BY DEF jobVars, Jobs!vars, Jobs!rows, Jobs!queue, Jobs!money, Jobs!control
<1>2. CASE Stop \/ Down
  BY <1>2 DEF Stop, Down, Jobs!Next, Jobs!Process
<1>3. CASE Elsewhere
  BY <1>3 DEF Elsewhere, Jobs!Next, Jobs!Process
<1>4. CASE Outside
  BY <1>1, <1>4 DEF Outside
<1>5. CASE UNCHANGED everything
  BY <1>1, <1>5 DEF everything
<1> QED
  BY <1>1, <1>2, <1>3, <1>4, <1>5, WorkersStep DEF MediaNext

(* Workers that ask the provider client, wait for it and go down with it   *)
(* do nothing that Generation does not allow.                              *)
THEOREM WorkersAsBefore == MediaSpec => Jobs!Spec
<1>1. MediaInit => Jobs!Init
  BY DEF MediaInit
<1> QED
  BY <1>1, JobsStep, PTL DEF MediaSpec, Jobs!Spec

(* The contract on credits survives the composition: whatever the network, *)
(* the provider, retries and recovery do together, credits are taken and   *)
(* given back once for a request.                                          *)
THEOREM MediaSettles == MediaSpec => SettledOnce
<1>1. Proved!Spec => Proved!SettledOnce
  BY SameConstants, Proved!ImplementsSettlement
<1> QED
  BY <1>1, WorkersAsBefore, SameSpec, SameContract DEF SettledOnce

-----------------------------------------------------------------------------
(* The calls go on as Comet says.                                          *)

(* What is known of a worker in the middle of a job: its call is a call. *)
Known ==
  /\ at \in [Jobs!Actors -> Jobs!Stages]
  /\ on \in [Jobs!Actors -> Requests \cup {NoJob}]
  /\ tries \in [Jobs!Actors -> Nat]
  /\ req \in [Requests -> Jobs!RequestStatus]
  /\ \A w \in Workers : at[w] \notin {"idle", "failing stale"} =>
       on[w] \in Requests /\ tries[w] \in 1 .. MaxAttempts[on[w]]

(* It follows from Generation's invariants. *)
LEMMA KnownFollows == Proved!IInv /\ Proved!TriesCounted => Known
<1> SUFFICES ASSUME Proved!IInv, Proved!TriesCounted PROVE Known
  OBVIOUS
<1>1. /\ at \in [Jobs!Actors -> Jobs!Stages]
      /\ on \in [Jobs!Actors -> Requests \cup {NoJob}]
      /\ tries \in [Jobs!Actors -> Nat]
  BY DEF Proved!IInv, Proved!TypeOK, Proved!ControlOK, Proved!Actors, Proved!Stages, Jobs!Actors,
     Jobs!Stages
<1>2. req \in [Requests -> Jobs!RequestStatus]
  BY DEF Proved!IInv, Proved!TypeOK, Proved!RowsOK, Proved!RequestStatus, Jobs!RequestStatus
<1>3. ASSUME NEW w \in Workers, at[w] \notin {"idle", "failing stale"}
      PROVE  on[w] \in Requests /\ tries[w] \in 1 .. MaxAttempts[on[w]]
  <2>1. w \in Jobs!Actors /\ w \in Proved!Actors
    BY DEF Jobs!Actors, Proved!Actors
  <2>2. on[w] # NoJob
    BY <1>3, <2>1 DEF Proved!IInv, Proved!AllHold, Proved!HoldsItsJob
  <2> QED
    BY <1>1, <2>1, <2>2 DEF Proved!TriesCounted
<1> QED
  BY <1>1, <1>2, <1>3 DEF Known

(* So it is always known. *)
LEMMA KnownAlways == MediaSpec => []Known
<1>1. Proved!Spec => []Proved!IInv
  BY SameConstants, Proved!Invariance
<1>2. Proved!Spec => []Proved!TriesCounted
  BY SameConstants, Proved!AttemptsCounted
<1> QED
  BY <1>1, <1>2, WorkersAsBefore, SameSpec, KnownFollows, PTL

(* The call of a busy worker is one of Comet's calls. *)
LEMMA CallKnown ==
  ASSUME Known, NEW w \in Workers, at[w] \notin {"idle", "failing stale"}
  PROVE  CallOf(w) \in Calls /\ on[w] \in Requests /\ tries[w] \in 1 .. MaxAttempts[on[w]]
<1>1. on[w] \in Requests /\ tries[w] \in 1 .. MaxAttempts[on[w]]
  BY DEF Known
<1>2. CallOf(w) \in {on[w]} \X (1 .. MaxAttempts[on[w]])
  BY <1>1 DEF CallOf
<1> QED
  BY <1>1, <1>2, CallsAssumption

(* Every step is a step of the client, or none of its business. *)
LEMMA CallsStep == Known /\ [MediaNext]_everything => [Next]_vars
<1> SUFFICES ASSUME Known, [MediaNext]_everything PROVE Next \/ UNCHANGED vars
  OBVIOUS
<1>1. ASSUME NEW w \in Workers, AskProvider(w) PROVE Next
  <2>1. CallOf(w) \in Calls
    BY <1>1, CallKnown DEF AskProvider
  <2> QED
    BY <1>1, <2>1 DEF AskProvider, Next
<1>2. ASSUME NEW w \in Workers, GenerateEnds(w) \/ GoesOn(w) \/ Fault(w) PROVE UNCHANGED vars
  BY <1>2 DEF GenerateEnds, GoesOn, Fault
<1>3. ASSUME NEW w \in Workers, Panic(w) PROVE Next \/ UNCHANGED vars
  <2>1. CallOf(w) \in Calls
    BY <1>3, CallKnown DEF Panic, Jobs!Panic
  <2> QED
    BY <1>3, <2>1 DEF Panic, Next
<1>4. CASE Stop \/ Down \/ Outside
  BY <1>4 DEF Stop, Down, Outside, Next
<1>5. CASE Elsewhere \/ UNCHANGED everything
  BY <1>5 DEF Elsewhere, everything
<1> QED
  BY <1>1, <1>2, <1>3, <1>4, <1>5 DEF MediaNext, Step

(* Workers ask for each attempt once and give a call up only with          *)
(* themselves, as Comet expects of its callers.                            *)
THEOREM CallsAsBefore == MediaSpec => Spec
<1>1. MediaInit => Init
  BY DEF MediaInit
<1> QED
  BY <1>1, CallsStep, KnownAlways, PTL DEF MediaSpec, Spec

(* Types, of jobs and calls. *)
THEOREM MediaTyped == MediaSpec => []MediaTypeOK
<1>1. Proved!Spec => []Proved!TypeOK
  BY SameConstants, Proved!TypeCorrect
<1>2. TypeOK /\ Jobs!TypeOK => MediaTypeOK
  BY DEF MediaTypeOK
<1> QED
  BY <1>1, <1>2, WorkersAsBefore, CallsAsBefore, CometTyped, SameSpec, SameTypes, PTL

(* What the provider has answered to a job is not asked for again. *)
THEOREM JobsAskOnce == MediaSpec => AnsweredNotResent
  BY CallsAsBefore, AnsweredCallsNotResent

(* A job that is late or shut down asks for nothing more. *)
THEOREM LateJobsAskNothing == MediaSpec => LateSendsNothing
  BY CallsAsBefore, LateCallsSendNothing

(* A job is given every output that its call heard of. *)
THEOREM JobsGetTheirOutput == MediaSpec => FinishedIsDelivered
  BY CallsAsBefore, HeardIsDelivered

-----------------------------------------------------------------------------
(* Served is made.                                                         *)

Past == {"sending", "marking", "finishing"}

(* Behind every result that is sent, and every request that was served,    *)
(* is a call that came back with an output.                                *)
Backed ==
  /\ \A w \in Workers : at[w] \in Past => pc[CallOf(w)] = "ok"
  /\ \A r \in Requests : req[r] = "ok" => \E k \in 1 .. MaxAttempts[r] : pc[<<r, k>>] = "ok"

(* An output stays an output. *)
LEMMA OkStays ==
  ASSUME CallInv, [Next]_vars, NEW c \in Calls, pc[c] = "ok"
  PROVE  pc'[c] = "ok"
<1>1. CallInv'
  BY CallInvStep
<1>2. answer[c] = "output"
  BY DEF answer, Open, Ends
<1>3. answer'[c] = "output"
  <2>1. answer = [d \in Calls |-> answer[d]]
    BY AnswersAre
  <2>2. CASE Promised!Next
    BY <1>2, <2>1, <2>2 DEF Promised!Next, Promised!Ask, Promised!TurnDown, Promised!Make,
       Promised!Deliver, Promised!GiveUp, Promised!GiveUpAll
  <2>3. CASE UNCHANGED Promised!vars
    BY <1>2, <2>3 DEF Promised!vars
  <2> QED
    BY <2>2, <2>3, StepAnswers
<1>4. answer'[c] = AnswerOf(c)'
  BY DEF answer, AnswerOf, Open
<1> QED
  BY <1>3, <1>4 DEF AnswerOf

(* A worker comes past the call only with an output. *)
PastKept ==
  \A w \in Workers : at'[w] \in Past =>
    /\ on'[w] = on[w] /\ tries'[w] = tries[w]
    /\ at[w] \in Past \/ pc[CallOf(w)] = "ok"

(* A request is served by a worker that came past it. *)
ServedByWorker ==
  \A r \in Requests : req'[r] = "ok" =>
    req[r] = "ok" \/ \E w \in Workers : at[w] = "finishing" /\ on[w] = r

Kept == PastKept /\ ServedByWorker

(* What is not the end of a call keeps both. *)
LEMMA JobsKeep ==
  ASSUME Known,
         Elsewhere \/ Stop \/ Down \/ \E w \in Workers : GoesOn(w) \/ Fault(w) \/ Panic(w)
  PROVE  Kept
<1> USE MediaActors
<1>1. ASSUME NEW a \in Accounts, Jobs!Grant(a) PROVE Kept
  BY <1>1 DEF Kept, Jobs!Grant, Jobs!control, Jobs!rows, Known, PastKept, ServedByWorker,
     Past
<1>2. ASSUME NEW r \in Requests, Jobs!Submit(r) PROVE Kept
  BY <1>2 DEF Kept, Jobs!Submit, Jobs!control, Known, PastKept, ServedByWorker, Past
<1>3. ASSUME NEW r \in Requests, Jobs!Resubmit(r) PROVE Kept
  BY <1>3 DEF Kept, Jobs!Resubmit, Jobs!control, Known, PastKept, ServedByWorker, Past
<1>4. ASSUME NEW r \in Requests, Jobs!BackoffEnds(r) PROVE Kept
  BY <1>4 DEF Kept, Jobs!BackoffEnds, Jobs!control, Known, PastKept, ServedByWorker, Past
<1>5. ASSUME NEW r \in Requests, Jobs!BecomesStale(r) PROVE Kept
  BY <1>5 DEF Kept, Jobs!BecomesStale, Jobs!control, Known, PastKept, ServedByWorker, Past
<1>6. ASSUME NEW r \in Requests, Jobs!FinalizeStale(r) PROVE Kept
  BY <1>6 DEF Kept, Jobs!FinalizeStale, Jobs!Goto, Jobs!rows, Known, PastKept,
     ServedByWorker, Past
<1>7. ASSUME NEW w \in Workers, Jobs!Send(w) PROVE Kept
  BY <1>7 DEF Kept, Jobs!Send, Jobs!AttemptFailed, Jobs!Goto, Jobs!rows, Known, PastKept,
     ServedByWorker, Past
<1>8. ASSUME NEW w \in Workers, Jobs!MarkDone(w) PROVE Kept
  BY <1>8 DEF Kept, Jobs!MarkDone, Jobs!Release, Jobs!Goto, Known, PastKept, ServedByWorker,
     Past
<1>9. ASSUME NEW w \in Workers, Jobs!FinishRequest(w) PROVE Kept
  BY <1>9 DEF Kept, Jobs!FinishRequest, Jobs!Release, Jobs!Goto, Known, PastKept,
     ServedByWorker, Past
<1>10. ASSUME NEW w \in Workers, Jobs!Requeue(w) PROVE Kept
  BY <1>10 DEF Kept, Jobs!Requeue, Jobs!Release, Jobs!Goto, Known, PastKept, ServedByWorker,
     Past
<1>11. ASSUME NEW w \in Workers, Jobs!Finalize(w) PROVE Kept
  BY <1>11 DEF Kept, Jobs!Finalize, Jobs!Release, Jobs!Goto, Known, PastKept,
     ServedByWorker, Past
<1>12. ASSUME NEW w \in Workers, Jobs!Panic(w) PROVE Kept
  BY <1>12 DEF Kept, Jobs!Panic, Jobs!AttemptFailed, Jobs!Goto, Jobs!rows, Known, PastKept,
     ServedByWorker, Past
<1>13. ASSUME NEW w \in Workers, Jobs!MarkDoneFails(w) PROVE Kept
  BY <1>13 DEF Kept, Jobs!MarkDoneFails, Jobs!Release, Jobs!Goto, Known, PastKept,
     ServedByWorker, Past
<1>14. ASSUME NEW w \in Workers, Jobs!FinishRequestFails(w) PROVE Kept
  BY <1>14 DEF Kept, Jobs!FinishRequestFails, Jobs!Release, Jobs!Goto, Jobs!rows, Known,
     PastKept, ServedByWorker, Past
<1>15. ASSUME NEW w \in Workers, Jobs!RequeueFails(w) PROVE Kept
  BY <1>15 DEF Kept, Jobs!RequeueFails, Jobs!Goto, Known, PastKept, ServedByWorker, Past
<1>16. ASSUME NEW w \in Workers, Jobs!FinalizeFails(w) PROVE Kept
  BY <1>16 DEF Kept, Jobs!FinalizeFails, Jobs!Release, Jobs!Goto, Known, PastKept,
     ServedByWorker, Past
<1>17. ASSUME NEW w \in Workers, Jobs!Claim(w) PROVE Kept
  BY <1>17 DEF Kept, Jobs!Claim, Jobs!Goto, Known, PastKept, ServedByWorker, Past
<1>18. ASSUME NEW a \in Jobs!Actors, Jobs!FailRequest(a) PROVE Kept
  BY <1>18 DEF Kept, Jobs!FailRequest, Jobs!Release, Jobs!Goto, Known, PastKept,
     ServedByWorker, Past
<1>19. ASSUME NEW a \in Jobs!Actors, Jobs!FailRequestFails(a) PROVE Kept
  BY <1>19 DEF Kept, Jobs!FailRequestFails, Jobs!Release, Jobs!Goto, Known, PastKept,
     ServedByWorker, Past
<1>20. ASSUME NEW a \in Jobs!Actors, Jobs!Refund(a) PROVE Kept
  BY <1>20 DEF Kept, Jobs!Refund, Jobs!Release, Jobs!Goto, Jobs!rows, Known, PastKept,
     ServedByWorker, Past
<1>21. ASSUME NEW a \in Jobs!Actors, Jobs!RefundFails(a) PROVE Kept
  BY <1>21 DEF Kept, Jobs!RefundFails, Jobs!Release, Jobs!Goto, Jobs!rows, Known, PastKept,
     ServedByWorker, Past
<1>22. ASSUME Jobs!ClaimAnswerLost PROVE Kept
  BY <1>22 DEF Kept, Jobs!ClaimAnswerLost, Jobs!control, Known, PastKept, ServedByWorker,
     Past
<1>23. ASSUME Jobs!RequeueStale PROVE Kept
  BY <1>23 DEF Kept, Jobs!RequeueStale, Jobs!Goto, Known, PastKept, ServedByWorker, Past
<1>24. ASSUME Jobs!RequeueStaleFails PROVE Kept
  BY <1>24 DEF Kept, Jobs!RequeueStaleFails, Jobs!control, Known, PastKept, ServedByWorker,
     Past
<1>25. ASSUME Jobs!FailStale PROVE Kept
  BY <1>25 DEF Kept, Jobs!FailStale, Jobs!Goto, Known, PastKept, ServedByWorker, Past
<1>26. ASSUME Jobs!FailStaleFails PROVE Kept
  BY <1>26 DEF Kept, Jobs!FailStaleFails, Jobs!Release, Jobs!Goto, Known, PastKept,
     ServedByWorker, Past
<1>27. ASSUME Jobs!Crash PROVE Kept
  BY <1>27 DEF Kept, Jobs!Crash, Jobs!ProcessEnds, Jobs!rows, Known, PastKept,
     ServedByWorker, Past
<1>28. ASSUME Jobs!Exit PROVE Kept
  BY <1>28 DEF Kept, Jobs!Exit, Jobs!ProcessEnds, Jobs!rows, Known, PastKept,
     ServedByWorker, Past
<1>29. ASSUME Jobs!Stop PROVE Kept
  BY <1>29 DEF Kept, Jobs!Stop, Jobs!rows, Known, PastKept, ServedByWorker, Past
<1>30. ASSUME Jobs!Restart PROVE Kept
  BY <1>30 DEF Kept, Jobs!Restart, Jobs!rows, Known, PastKept, ServedByWorker, Past
<1> QED
  BY <1>1, <1>2, <1>3, <1>4, <1>5, <1>6, <1>7, <1>8, <1>9, <1>10, <1>11, <1>12, <1>13,
     <1>14, <1>15, <1>16, <1>17, <1>18, <1>19, <1>20, <1>21, <1>22, <1>23, <1>24, <1>25,
     <1>26, <1>27, <1>28, <1>29, <1>30
     DEF Elsewhere, Stop, Down, GoesOn, Fault, Panic, Jobs!SideEffect, Jobs!SideEffectFault,
         Jobs!Recover, Jobs!RecoverFault

(* The end of a call does, too: without an output nothing is sent. *)
LEMMA GenerateKeeps ==
  ASSUME Known, NEW w \in Workers, GenerateEnds(w)
  PROVE  Kept
<1>1. UNCHANGED req
  BY DEF GenerateEnds, Jobs!Generate, Jobs!rows
<1>2. UNCHANGED <<on, tries>> /\ \A v \in Workers \ {w} : at'[v] = at[v]
  BY MediaActors DEF GenerateEnds, Jobs!Generate, Jobs!AttemptFailed, Jobs!Goto, Known
<1>3. at'[w] \in Past => pc[CallOf(w)] = "ok"
  <2>1. at'[w] \in {"sending", "finalizing", "requeueing"}
    BY MediaActors DEF GenerateEnds, Jobs!Generate, Jobs!AttemptFailed, Jobs!Goto, Known
  <2> QED
    BY <2>1 DEF Past, GenerateEnds
<1>4. PastKept
  BY <1>2, <1>3 DEF PastKept
<1> QED
  BY <1>1, <1>4 DEF Kept, ServedByWorker

(* So does every step. *)
LEMMA EveryStepKeeps == Known /\ [MediaNext]_everything => Kept
<1> SUFFICES ASSUME Known, [MediaNext]_everything PROVE Kept
  OBVIOUS
<1>1. ASSUME UNCHANGED jobVars PROVE Kept
  BY <1>1 DEF jobVars, Kept, PastKept, ServedByWorker
<1>2. CASE Outside \/ UNCHANGED everything \/ \E w \in Workers : AskProvider(w)
  BY <1>1, <1>2 DEF Outside, everything, AskProvider
<1> QED
  BY <1>2, JobsKeep, GenerateKeeps DEF MediaNext, Step

(* Whoever is past the call has an output behind it, and so has who was    *)
(* served.                                                                 *)
LEMMA BackedStep == Known /\ Known' /\ CallInv /\ Backed /\ [MediaNext]_everything => Backed'
<1> SUFFICES ASSUME Known, Known', CallInv, Backed, [MediaNext]_everything PROVE Backed'
  OBVIOUS
<1>1. Kept /\ [Next]_vars
  BY EveryStepKeeps, CallsStep
<1>2. ASSUME NEW w \in Workers, at'[w] \in Past PROVE pc'[CallOf(w)'] = "ok"
  <2>1. CallOf(w)' = CallOf(w) /\ pc[CallOf(w)] = "ok"
    BY <1>1, <1>2 DEF Kept, PastKept, CallOf, Backed
  <2>2. CallOf(w)' \in Calls
    <3>1. on'[w] \in Requests /\ tries'[w] \in 1 .. MaxAttempts[on'[w]]
      BY <1>2 DEF Known, Past
    <3>2. CallOf(w)' \in {on'[w]} \X (1 .. MaxAttempts[on'[w]])
      BY <3>1 DEF CallOf
    <3> QED
      BY <3>1, <3>2, CallsAssumption
  <2>3. pc'[CallOf(w)] = "ok"
    BY <1>1, <2>1, <2>2, OkStays
  <2> QED
    BY <2>1, <2>3
<1>3. ASSUME NEW r \in Requests, req'[r] = "ok"
      PROVE  \E k \in 1 .. MaxAttempts[r] : pc'[<<r, k>>] = "ok"
  <2>1. \E k \in 1 .. MaxAttempts[r] : pc[<<r, k>>] = "ok"
    <3>1. CASE req[r] = "ok"
      BY <3>1 DEF Backed
    <3>2. ASSUME NEW w \in Workers, at[w] = "finishing", on[w] = r
          PROVE  \E k \in 1 .. MaxAttempts[r] : pc[<<r, k>>] = "ok"
      <4>1. tries[w] \in 1 .. MaxAttempts[r]
        BY <3>2, CallKnown
      <4>2. pc[<<r, tries[w]>>] = "ok"
        BY <3>2 DEF Backed, Past, CallOf
      <4> QED
        BY <4>1, <4>2
    <3> QED
      BY <1>1, <1>3, <3>1, <3>2 DEF Kept, ServedByWorker
  <2>2. PICK k \in 1 .. MaxAttempts[r] : pc[<<r, k>>] = "ok"
    BY <2>1
  <2>3. <<r, k>> \in Calls
    BY CallsAssumption
  <2> QED
    BY <1>1, <2>2, <2>3, OkStays
<1> QED
  BY <1>2, <1>3 DEF Backed

(* A request is served only if the provider made an output for one of its  *)
(* attempts, for any number of requests, attempts and workers and under    *)
(* every fault of the process, the database and the network.               *)
THEOREM ServedIsMade == MediaSpec => []ServedWasMade
<1>1. MediaInit => Backed
  BY MediaActors DEF MediaInit, Jobs!Init, Backed, Past
<1>2. CallInv /\ Backed => ServedWasMade
  <2> SUFFICES ASSUME CallInv, Backed, NEW r \in Requests, req[r] = "ok"
               PROVE  \E k \in 1 .. MaxAttempts[r] : <<r, k>> \in made
    BY DEF ServedWasMade
  <2>1. PICK k \in 1 .. MaxAttempts[r] : pc[<<r, k>>] = "ok"
    BY DEF Backed
  <2>2. <<r, k>> \in Calls
    BY CallsAssumption
  <2> QED
    BY <2>1, <2>2 DEF CallInv, Fits, MadeFits
<1> QED
  BY <1>1, <1>2, BackedStep, KnownAlways, CallsAsBefore, CometInvariance, PTL DEF MediaSpec

-----------------------------------------------------------------------------
(* One caller for a call.                                                  *)

Waits(w, c) == at[w] = "generating" /\ CallOf(w) = c

Called == \A c \in Calls : Open(c) => \E w \in Workers : Waits(w, c)

(* Only the worker itself ends its wait for the provider. *)
LEMMA OthersStay ==
  ASSUME Known, NEW w \in Workers, at[w] = "generating",
         \/ Elsewhere \/ Stop
         \/ \E v \in Workers : GoesOn(v) \/ Fault(v)
         \/ \E v \in Workers \ {w} : Jobs!Panic(v) \/ Jobs!Generate(v)
  PROVE  at'[w] = "generating" /\ CallOf(w)' = CallOf(w)
<1> DEFINE Stays == at'[w] = "generating" /\ on'[w] = on[w] /\ tries'[w] = tries[w]
<1> SUFFICES Stays
  BY DEF CallOf
<1> USE MediaActors
<1>1. ASSUME UNCHANGED <<at, on, tries>> PROVE Stays
  BY <1>1
<1>2. ASSUME NEW a \in Jobs!Actors, NEW stage, a # w, Jobs!Goto(a, stage), UNCHANGED <<on, tries>>
      PROVE  Stays
  BY <1>2 DEF Jobs!Goto, Known
<1>3. ASSUME NEW a \in Jobs!Actors, a # w, Jobs!Release(a)
      PROVE  Stays
  BY <1>3 DEF Jobs!Release, Jobs!Goto, Known
<1> HIDE DEF Stays
<1>4. ASSUME NEW v \in Workers, GoesOn(v) PROVE Stays
  <2>1. v \in Jobs!Actors
    OBVIOUS
  <2>2. CASE Jobs!Send(v)
    BY <1>2, <2>1, <2>2 DEF Jobs!Send, Jobs!AttemptFailed
  <2>3. CASE Jobs!MarkDone(v)
    BY <1>2, <1>3, <2>1, <2>3 DEF Jobs!MarkDone
  <2>4. CASE Jobs!FinishRequest(v)
    BY <1>3, <2>1, <2>4 DEF Jobs!FinishRequest
  <2>5. CASE Jobs!Requeue(v)
    BY <1>3, <2>1, <2>5 DEF Jobs!Requeue
  <2>6. CASE Jobs!Finalize(v)
    BY <1>2, <1>3, <2>1, <2>6 DEF Jobs!Finalize
  <2> QED
    BY <1>4, <2>2, <2>3, <2>4, <2>5, <2>6 DEF GoesOn
<1>5. ASSUME NEW v \in Workers, Fault(v) PROVE Stays
  <2>1. v \in Jobs!Actors
    OBVIOUS
  <2>2. CASE Jobs!MarkDoneFails(v)
    BY <1>3, <2>1, <2>2 DEF Jobs!MarkDoneFails
  <2>3. CASE Jobs!FinishRequestFails(v)
    BY <1>3, <2>1, <2>3 DEF Jobs!FinishRequestFails
  <2>4. CASE Jobs!RequeueFails(v)
    BY <1>2, <2>1, <2>4 DEF Jobs!RequeueFails
  <2>5. CASE Jobs!FinalizeFails(v)
    BY <1>3, <2>1, <2>5 DEF Jobs!FinalizeFails
  <2> QED
    BY <1>5, <2>2, <2>3, <2>4, <2>5 DEF Fault
<1>6. ASSUME NEW v \in Workers \ {w}, Jobs!Panic(v) \/ Jobs!Generate(v) PROVE Stays
  <2>1. v \in Jobs!Actors /\ v # w
    OBVIOUS
  <2> QED
    BY <1>2, <1>6, <2>1 DEF Jobs!Panic, Jobs!Generate, Jobs!AttemptFailed
<1>7. CASE Stop
  BY <1>1, <1>7 DEF Stop, Jobs!Stop
<1>8. ASSUME NEW r \in Requests, Jobs!Submit(r) \/ Jobs!Resubmit(r) \/ Jobs!BackoffEnds(r) \/ Jobs!BecomesStale(r)
      PROVE  Stays
  BY <1>1, <1>8 DEF Jobs!Submit, Jobs!Resubmit, Jobs!BackoffEnds, Jobs!BecomesStale, Jobs!control
<1>9. ASSUME NEW v \in Workers, Jobs!Claim(v) PROVE Stays
  BY <1>9 DEF Stays, Jobs!Claim, Jobs!Idle, Jobs!Goto, Known
<1>10. ASSUME NEW a \in Jobs!Actors, Jobs!SideEffect(a) \/ Jobs!SideEffectFault(a) PROVE Stays
  <2>1. CASE Jobs!FailRequest(a)
    BY <1>2, <1>3, <2>1 DEF Jobs!FailRequest
  <2>2. CASE Jobs!Refund(a)
    BY <1>3, <2>2 DEF Jobs!Refund
  <2>3. CASE Jobs!FailRequestFails(a)
    BY <1>2, <1>3, <2>3 DEF Jobs!FailRequestFails
  <2>4. CASE Jobs!RefundFails(a)
    BY <1>3, <2>4 DEF Jobs!RefundFails
  <2> QED
    BY <1>10, <2>1, <2>2, <2>3, <2>4 DEF Jobs!SideEffect, Jobs!SideEffectFault
<1>11. CASE Jobs!Recover \/ Jobs!RecoverFault
  <2>1. ASSUME NEW r \in Requests, Jobs!FinalizeStale(r) PROVE Stays
    BY <2>1 DEF Stays, Jobs!FinalizeStale, Jobs!Goto, Known
  <2>2. CASE Jobs!RequeueStale \/ Jobs!FailStale
    BY <1>2, <2>2 DEF Jobs!RequeueStale, Jobs!FailStale
  <2>3. CASE Jobs!RequeueStaleFails
    BY <1>1, <2>3 DEF Jobs!RequeueStaleFails, Jobs!control
  <2>4. CASE Jobs!FailStaleFails
    BY <1>3, <2>4 DEF Jobs!FailStaleFails
  <2> QED
    BY <1>11, <2>1, <2>2, <2>3, <2>4 DEF Jobs!Recover, Jobs!RecoverFault
<1>12. CASE Elsewhere
  <2>1. ASSUME NEW a \in Accounts, Jobs!Grant(a) PROVE Stays
    BY <1>1, <2>1 DEF Jobs!Grant, Jobs!control
  <2>2. CASE Jobs!ClaimAnswerLost
    BY <1>1, <2>2 DEF Jobs!ClaimAnswerLost, Jobs!control
  <2>3. CASE Jobs!Restart
    BY <1>1, <2>3 DEF Jobs!Restart
  <2> QED
    BY <1>8, <1>9, <1>10, <1>11, <1>12, <2>1, <2>2, <2>3 DEF Elsewhere
<1> QED
  BY <1>4, <1>5, <1>6, <1>7, <1>12

(* Of the client's steps, only the worker's question opens a call. *)
LEMMA OpenedByStart ==
  ASSUME TypeOK, NEW c \in Calls, NEW d \in Calls, Open(c)',
         \/ CallStep(d) \/ ProviderStep(d) \/ Deadline(d)
         \/ c # d /\ \E request \in Asks : Start(d, request)
         \/ c # d /\ Abandon(d)
         \/ CancelAll
  PROVE  Open(c)
<1>1. ASSUME NEW result \in Ends, Return(d, result) PROVE Open(c)
  BY <1>1 DEF Return, Open, TypeOK
<1>2. ASSUME UNCHANGED pc PROVE Open(c)
  BY <1>2 DEF Open
<1>3. CASE CallStep(d) /\ c = d
  BY <1>3 DEF CallStep, Posting, Polling, Reading, Send, HearAnswer, HearRefusal, HearGarbled,
     HearBusy, HearNoMore, BackOff, StillRunning, HearEnded, PollFails, Pause, ReadOutput,
     ReadNothing, ReadBroken, Open, Ends
<1>4. CASE CallStep(d) /\ c # d
  <2>1. \E stage : pc' = [pc EXCEPT ![d] = stage]
    BY <1>4 DEF CallStep, Posting, Polling, Reading, Send, HearAnswer, HearRefusal, HearGarbled,
       HearBusy, HearNoMore, BackOff, StillRunning, HearEnded, PollFails, Pause, ReadOutput,
       ReadNothing, ReadBroken, Goto, Return, Post
  <2> QED
    BY <1>4, <2>1 DEF Open, TypeOK
<1>5. CASE ProviderStep(d) \/ Deadline(d) \/ CancelAll
  BY <1>2, <1>5 DEF ProviderStep, Execute, EndTask, Deadline, CancelAll, Cancel
<1>6. CASE c # d /\ \E request \in Asks : Start(d, request)
  BY <1>6 DEF Start, Return, Open, TypeOK
<1>7. CASE c # d /\ Abandon(d)
  BY <1>1, <1>7 DEF Abandon, Ends
<1> QED
  BY <1>3, <1>4, <1>5, <1>6, <1>7

(* A call has its worker as long as it is open. *)
LEMMA CalledStep == Known /\ TypeOK /\ Called /\ [MediaNext]_everything => Called'
<1> SUFFICES ASSUME Known, TypeOK, Called, [MediaNext]_everything, NEW c \in Calls, Open(c)'
             PROVE  \E w \in Workers : Waits(w, c)'
  BY DEF Called
<1>1. ASSUME NEW w \in Workers, Waits(w, c), UNCHANGED jobVars
      PROVE  Waits(w, c)'
  BY <1>1 DEF Waits, CallOf, jobVars
<1>2. ASSUME Open(c), UNCHANGED jobVars PROVE \E w \in Workers : Waits(w, c)'
  BY <1>1, <1>2 DEF Called
<1>3. ASSUME UNCHANGED pc PROVE Open(c)
  BY <1>3 DEF Open
<1>4. ASSUME NEW w \in Workers, AskProvider(w) PROVE \E v \in Workers : Waits(v, c)'
  <2>1. CASE CallOf(w) = c
    BY <1>1, <1>4, <2>1 DEF AskProvider, Waits
  <2>2. CASE CallOf(w) # c
    <3>1. CallOf(w) \in Calls
      BY <1>4, CallKnown DEF AskProvider
    <3> QED
      BY <1>2, <1>4, <2>2, <3>1, OpenedByStart DEF AskProvider
  <2> QED
    BY <2>1, <2>2
<1>5. ASSUME NEW w \in Workers, GenerateEnds(w) PROVE \E v \in Workers : Waits(v, c)'
  <2>1. Open(c)
    BY <1>3, <1>5 DEF GenerateEnds, vars
  <2>2. PICK v \in Workers : Waits(v, c)
    BY <2>1 DEF Called
  <2>3. v # w
    BY <1>5, <2>1, <2>2 DEF Waits, GenerateEnds, Open
  <2> QED
    BY <1>5, <2>2, <2>3, OthersStay DEF Waits, GenerateEnds
<1>6. ASSUME NEW w \in Workers, Panic(w) PROVE \E v \in Workers : Waits(v, c)'
  <2>1. CallOf(w) \in Calls
    BY <1>6, CallKnown DEF Panic, Jobs!Panic
  <2>2. Open(c) /\ ~ (Open(CallOf(w)) /\ CallOf(w) = c)
    <3>1. CASE Open(CallOf(w))
      <4>1. c # CallOf(w)
        BY <1>6, <3>1 DEF Panic, Abandon, Return, Open, Ends, TypeOK
      <4> QED
        BY <1>6, <2>1, <3>1, <4>1, OpenedByStart DEF Panic
    <3>2. CASE ~ Open(CallOf(w))
      BY <1>3, <1>6, <3>2 DEF Panic, vars
    <3> QED
      BY <3>1, <3>2
  <2>3. PICK v \in Workers : Waits(v, c)
    BY <2>2 DEF Called
  <2>4. v # w
    BY <2>2, <2>3 DEF Waits
  <2> QED
    BY <1>6, <2>3, <2>4, OthersStay DEF Waits, Panic
<1>7. CASE Elsewhere \/ Stop \/ \E w \in Workers : GoesOn(w) \/ Fault(w)
  <2>1. UNCHANGED pc
    BY <1>7 DEF Elsewhere, Stop, GoesOn, Fault, CancelAll, Cancel, vars
  <2>2. PICK v \in Workers : Waits(v, c)
    BY <1>3, <2>1 DEF Called
  <2> QED
    BY <1>7, <2>2, OthersStay DEF Waits
<1>8. CASE Down
  BY <1>8 DEF Down, AbandonAll, Open, Ends
<1>9. CASE Outside
  BY <1>2, <1>9, OpenedByStart DEF Outside
<1>10. CASE UNCHANGED everything
  BY <1>2, <1>3, <1>10 DEF everything, vars
<1> QED
  BY <1>4, <1>5, <1>6, <1>7, <1>8, <1>9, <1>10 DEF MediaNext, Step

(* Of two workers in one attempt Generation has already told. *)
LEMMA CallerAlone ==
  ASSUME Known, Jobs!OneRunner, Called
  PROVE  OneCaller
<1> SUFFICES ASSUME NEW c \in Calls, Open(c)
             PROVE  \E w \in Workers : at[w] = "generating" /\ {v \in Workers : CallOf(v) = c} = {w}
  BY DEF OneCaller
<1>1. PICK w \in Workers : Waits(w, c)
  BY DEF Called
<1>2. on[w] \in Requests /\ on[w] # NoJob
  BY <1>1, CallKnown, JobsAssumption DEF Waits, Jobs!ConstantsAssumption
<1>3. ASSUME NEW v \in Workers, CallOf(v) = c PROVE v = w
  <2>1. on[v] = on[w] /\ tries[v] = tries[w]
    BY <1>1, <1>3 DEF Waits, CallOf
  <2> QED
    BY <1>2, <2>1 DEF Jobs!OneRunner
<1> QED
  BY <1>1, <1>3 DEF Waits

(* An open call has one worker, which waits for it: for any number of      *)
(* workers and attempts, and also when the reaper has given the job of a   *)
(* slow worker to a second one.                                            *)
THEOREM OneCallerPerCall == MediaSpec => []OneCaller
<1>1. MediaInit => Called
  BY DEF MediaInit, Init, Called, Open
<1>2. Proved!Spec => []Proved!OneRunner
  BY SameConstants, Proved!OneRunnerPerAttempt
<1>3. Proved!OneRunner => Jobs!OneRunner
  BY DEF Proved!OneRunner, Jobs!OneRunner
<1> QED
  BY <1>1, <1>2, <1>3, CalledStep, CallerAlone, KnownAlways, CallsAsBefore, CometTyped,
     WorkersAsBefore, SameSpec, PTL DEF MediaSpec
=============================================================================
