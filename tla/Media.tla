------------------------------- MODULE Media -------------------------------
(***************************************************************************)
(* Generation and Comet together: the workers of internal/generation make  *)
(* each attempt of a job by one call of the provider client.  A call has   *)
(* the job and the number of the attempt for its name.  What Generation    *)
(* leaves open, how and when an attempt ends, is here decided by the       *)
(* network, the provider and the deadline of the call; a shutdown cancels  *)
(* every call, and calls go down with the process.                         *)
(***************************************************************************)
EXTENDS Comet

CONSTANTS
  Requests, Accounts, AccountOf, Cost, InitialBalance, MaxGrants,
  Workers, Recoverer, MaxAttempts, Faults, NoJob  \* as in Generation

ASSUME CallsAssumption == Calls = UNION {{r} \X (1..MaxAttempts[r]) : r \in Requests}

VARIABLES
  req, job, attempts, due, stale, balance, granted, spent, refunded, delivered,
  at,           \* Generation's pc
  on, tries, todo, mode

Jobs == INSTANCE Generation WITH pc <- at

ASSUME JobsAssumption == Jobs!ConstantsAssumption

jobVars == <<req, job, attempts, due, stale, balance, granted, spent, refunded,
             delivered, at, on, tries, todo, mode>>

everything == <<vars, jobVars>>

MediaInit == Init /\ Jobs!Init

(* The call that the worker's attempt makes. *)
CallOf(w) == <<on[w], tries[w]>>

-----------------------------------------------------------------------------
(* A worker between claim and delivery.                                    *)

(* processJob calls Prov.Generate; which protocols the models of the       *)
(* catalogue need is left open.                                            *)
AskProvider(w) ==
  /\ at[w] = "generating"
  /\ \E request \in Asks : Start(CallOf(w), request)
  /\ UNCHANGED jobVars

\* Mutant: the error of the call is dropped, an empty output is sent.
ErrorDropped(w) ==
  /\ at[w] = "generating"
  /\ pc[CallOf(w)] \in Ends
  /\ Jobs!Generate(w)
  /\ at'[w] = "sending"
  /\ UNCHANGED vars

(* ... and has its answer: an output to deliver, or an error. *)
GenerateEnds(w) ==
  /\ at[w] = "generating"
  /\ pc[CallOf(w)] \in Ends
  /\ Jobs!Generate(w)
  /\ at'[w] = "sending" <=> pc[CallOf(w)] = "ok"
  /\ UNCHANGED vars

GoesOn(w) ==
  /\ \/ Jobs!Send(w) \/ Jobs!MarkDone(w) \/ Jobs!FinishRequest(w)
     \/ Jobs!Requeue(w) \/ Jobs!Finalize(w)
  /\ UNCHANGED vars

Step(w) == AskProvider(w) \/ GenerateEnds(w) \/ GoesOn(w)

Fault(w) ==
  /\ \/ Jobs!MarkDoneFails(w) \/ Jobs!FinishRequestFails(w)
     \/ Jobs!RequeueFails(w) \/ Jobs!FinalizeFails(w)
  /\ UNCHANGED vars

\* Mutant: the panic is recovered around the call, which goes on without its worker.
PanicLeavesCall(w) == Jobs!Panic(w) /\ UNCHANGED vars

(* A panic in the middle of a call takes the call with it. *)
Panic(w) ==
  /\ Jobs!Panic(w)
  /\ IF Open(CallOf(w)) THEN Abandon(CallOf(w)) ELSE UNCHANGED vars

-----------------------------------------------------------------------------
(* The process.                                                            *)

Stop == Jobs!Stop /\ CancelAll

Down == (Jobs!Crash \/ Jobs!Exit) /\ AbandonAll

(* What has nothing to do with calls. *)
Elsewhere ==
  /\ \/ \E a \in Accounts : Jobs!Grant(a)
     \/ \E r \in Requests :
          Jobs!Submit(r) \/ Jobs!Resubmit(r) \/ Jobs!BackoffEnds(r) \/ Jobs!BecomesStale(r)
     \/ \E w \in Workers : Jobs!Claim(w)
     \/ Jobs!ClaimAnswerLost
     \/ \E a \in Jobs!Actors : Jobs!SideEffect(a) \/ Jobs!SideEffectFault(a)
     \/ Jobs!Recover \/ Jobs!RecoverFault
     \/ Jobs!Restart
  /\ UNCHANGED vars

Outside ==
  /\ \E c \in Calls : CallStep(c) \/ ProviderStep(c) \/ Deadline(c)
  /\ UNCHANGED jobVars

MediaNext ==
  \/ \E w \in Workers : Step(w) \/ Fault(w) \/ Panic(w)
  \/ Stop \/ Down \/ Elsewhere \/ Outside

MediaSpec == MediaInit /\ [][MediaNext]_everything

(* Generation's fairness, except that an attempt ends only when its call   *)
(* does, and that a call ends is left to Comet's fairness.                 *)
MediaFairness ==
  /\ Fairness
  /\ \A w \in Workers : WF_everything(Step(w))
  /\ SF_jobVars(\E w \in Workers : Jobs!Claim(w))
  /\ WF_jobVars(Jobs!Restart) /\ WF_jobVars(Jobs!Exit)
  /\ \A r \in Requests :
       /\ WF_jobVars(Jobs!BackoffEnds(r)) /\ WF_jobVars(Jobs!BecomesStale(r))
       /\ WF_jobVars(Jobs!FinalizeStale(r))
  /\ \A a \in Jobs!Actors : WF_jobVars(Jobs!SideEffect(a))
  /\ SF_jobVars(Jobs!RequeueStale) /\ SF_jobVars(Jobs!FailStale)

MediaFairSpec == MediaSpec /\ MediaFairness

-----------------------------------------------------------------------------
(* What must be true.                                                      *)

MediaTypeOK == TypeOK /\ Jobs!TypeOK

(* A request is closed as served only if the provider made an output for   *)
(* one of its attempts: no lost answer, restart or repeated attempt makes  *)
(* an empty result look like a delivery.  (Generate, then processJob.)     *)
ServedWasMade == \A r \in Requests : req[r] = "ok" => \E k \in 1..MaxAttempts[r] : <<r, k>> \in made

(* Every call that is open has one worker that waits for it: no attempt is *)
(* asked for, and paid for, by two workers, though the reaper gives a job  *)
(* to a second worker while the first still runs, and no call goes on with *)
(* nobody there to take its answer.  (runClaimedJob, ClaimNextGeneration-  *)
(* Job, RequeueStaleGenerationJobs.)                                       *)
OneCaller ==
  \A c \in Calls : Open(c) =>
    \E w \in Workers : at[w] = "generating" /\ {v \in Workers : CallOf(v) = c} = {w}

(* Retries and recovery keep the contract on credits.  (See Generation.) *)
SettledOnce == Jobs!SettledOnce

(* Every queued job ends, although nothing is assumed of the provider: the *)
(* deadline of its calls ends its attempts.  (timeoutForJob, see also      *)
(* Generation.)                                                            *)
JobsEnd == Jobs!JobsEnd
=============================================================================
