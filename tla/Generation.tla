----------------------------- MODULE Generation -----------------------------
(***************************************************************************)
(* Asynchronous media generation: the transaction that charges a request   *)
(* and queues its job (internal/telegram/handlers.go), the workers that    *)
(* claim, run, deliver and close jobs and the loop that recovers stale     *)
(* ones (internal/generation/service.go), over the tables users,           *)
(* generation_requests, generation_jobs and credit_ledger.                 *)
(*                                                                         *)
(* Every SQL statement, and the whole submit transaction, is one step.     *)
(* Between two of them anything else may run, and the process may die.     *)
(***************************************************************************)
EXTENDS Integers, FiniteSets

CONSTANTS
  Requests,        \* ids of generation_requests rows; a job has the id of its request
  Accounts,        \* one per user and kind of credit
  AccountOf,       \* Requests -> Accounts
  Cost,            \* Requests -> credits (credits.GenerationCost)
  InitialBalance,  \* Accounts -> credits
  MaxGrants,       \* bound: credits granted to an account from outside
  Workers,         \* the s.Workers goroutines that run loop
  Recoverer,       \* the goroutine that runs recoverStaleLoop
  MaxAttempts,     \* Requests -> max_attempts of the job; asyncMaxAttempts is 1
  Faults,          \* what the environment may do, see FaultKinds
  NoJob            \* no job in hand

\* "db"     a statement fails, applied or not        "crash"  the process dies
\* "stop"   graceful shutdown cancels the context    "panic"  processJob panics
\* "slow"   a runner outlives StaleAfter (the default timeouts allow it)
\* "send"   Telegram delivers but the call fails     "replay" an update is handled again
FaultKinds == {"db", "crash", "stop", "panic", "slow", "send", "replay"}

Actors == Workers \cup {Recoverer}

ASSUME ConstantsAssumption ==
  /\ Requests \subseteq Nat
  /\ AccountOf \in [Requests -> Accounts]
  /\ Cost \in [Requests -> Nat \ {0}]
  /\ InitialBalance \in [Accounts -> Nat]
  /\ MaxGrants \in Nat
  /\ MaxAttempts \in [Requests -> Nat \ {0}]
  /\ Recoverer \notin Workers
  /\ NoJob \notin Requests
  /\ Faults \subseteq FaultKinds

VARIABLES
  req,        \* generation_requests.status, "none" before the row exists
  job,        \* generation_jobs.status
  attempts,   \* generation_jobs.attempts
  due,        \* jobs with next_attempt_at <= now()
  stale,      \* jobs with updated_at < now() - StaleAfter
  balance,    \* users.image_balance / video_balance
  granted,    \* credits granted from outside so far
  spent,      \* requests whose op_key spend:gen:<id>:<kind> is in credit_ledger
  refunded,   \* jobs whose op_key refund:job:<id> is in credit_ledger
  delivered,  \* jobs whose media reached the chat
  pc,         \* the statement each goroutine executes next
  on,         \* the job it has in hand
  tries,      \* job.Attempts as the worker read it when it claimed
  todo,       \* rows FailStaleRunningJobs returned, not yet finalized
  mode        \* "up", "stopping" (context cancelled) or "down"

queue   == <<job, attempts, due, stale>>
rows    == <<req, queue>>
money   == <<balance, granted, spent, refunded>>
control == <<pc, on, tries, todo, mode>>
vars    == <<rows, money, delivered, control>>

JobStatus == {"none", "queued", "running", "done", "failed"}

RequestStatus == {"none", "queued", "ok", "failed", "failed_balance"}

\* What a worker is about to do.  "closing" and "refunding" are the two
\* statements of finalizeFailedSideEffects, which the recoverer runs too.
Stages == {"idle", "generating", "sending", "marking", "finishing",
           "requeueing", "finalizing", "failing stale", "closing", "refunding"}

RowsOK ==
  /\ req \in [Requests -> RequestStatus]
  /\ job \in [Requests -> JobStatus]
  /\ attempts \in [Requests -> Nat]
  /\ \A r \in Requests : attempts[r] <= MaxAttempts[r]
  /\ due \subseteq Requests
  /\ stale \subseteq Requests
  /\ delivered \subseteq Requests

\* No balance is ever negative.
MoneyOK ==
  /\ balance \in [Accounts -> Nat]
  /\ granted \in [Accounts -> 0 .. MaxGrants]
  /\ spent \subseteq Requests
  /\ refunded \subseteq Requests

ControlOK ==
  /\ pc \in [Actors -> Stages]
  /\ on \in [Actors -> Requests \cup {NoJob}]
  /\ tries \in [Actors -> Nat]
  /\ todo \subseteq Requests
  /\ mode \in {"up", "stopping", "down"}

TypeOK == RowsOK /\ MoneyOK /\ ControlOK

Init ==
  /\ req = [r \in Requests |-> "none"]
  /\ job = [r \in Requests |-> "none"]
  /\ attempts = [r \in Requests |-> 0]
  /\ due = {}
  /\ stale = {}
  /\ balance = InitialBalance
  /\ granted = [a \in Accounts |-> 0]
  /\ spent = {}
  /\ refunded = {}
  /\ delivered = {}
  /\ pc = [a \in Actors |-> "idle"]
  /\ on = [a \in Actors |-> NoJob]
  /\ tries = [a \in Actors |-> 0]
  /\ todo = {}
  /\ mode = "up"

-----------------------------------------------------------------------------
(* Shared pieces.                                                          *)

Idle(a) == pc[a] = "idle" /\ on[a] = NoJob

Goto(a, stage) == pc' = [pc EXCEPT ![a] = stage]

(* The goroutine is through with its job. *)
Release(a) ==
  /\ Goto(a, "idle")
  /\ on' = [on EXCEPT ![a] = NoJob]
  /\ tries' = [tries EXCEPT ![a] = 0]
  /\ UNCHANGED <<todo, mode>>

(* Any UPDATE of a job row also sets updated_at = now(). *)
SetStatus(r, status) ==
  /\ job' = [job EXCEPT ![r] = status]
  /\ stale' = stale \ {r}

Close(r, status) == SetStatus(r, status) /\ UNCHANGED <<attempts, due>>

(* RequeueGenerationJob: back to the queue, next_attempt_at in the future. *)
PutBack(r) ==
  /\ SetStatus(r, "queued")
  /\ due' = due \ {r}
  /\ UNCHANGED attempts

(* A write may fail, and when the connection breaks the client cannot tell *)
(* whether it was applied.  During shutdown the cancelled context has the  *)
(* same effect on a statement that was prepared under it.                  *)
WriteMayFail == "db" \in Faults \/ mode = "stopping"

\* Mutant: the balance may go one below zero.
SolventOffByOne(r) == balance[AccountOf[r]] + 1 >= Cost[r]

Solvent(r) == balance[AccountOf[r]] >= Cost[r]

-----------------------------------------------------------------------------
(* Submitting.                                                             *)

(* Purchases, bonuses and grants from other parts of the bot. *)
Grant(a) ==
  /\ mode # "down"
  /\ granted[a] < MaxGrants
  /\ granted' = [granted EXCEPT ![a] = @ + 1]
  /\ balance' = [balance EXCEPT ![a] = @ + 1]
  /\ UNCHANGED <<rows, spent, refunded, delivered, control>>

(* BIGSERIAL hands out ids in order. *)
NextId(r) == req[r] = "none" /\ \A q \in Requests : q < r => req[q] # "none"

(* The charge runs in a savepoint: when prevent_negative_balances raises,  *)
(* or the statement fails for any other reason, the transaction goes on    *)
(* without it.                                                             *)
ChargeMayFail(r) == ~Solvent(r) \/ "db" \in Faults

(* submitAsyncGeneration for a new update: request, charge and job in one  *)
(* transaction.  A failed charge commits the request as "failed_balance";  *)
(* any other error rolls everything back and leaves the state as it was.   *)
Submit(r) ==
  /\ mode = "up"
  /\ NextId(r)
  /\ \/ /\ Solvent(r)
        /\ req' = [req EXCEPT ![r] = "queued"]
        /\ SetStatus(r, "queued")
        /\ due' = due \cup {r}
        /\ spent' = spent \cup {r}
        /\ balance' = [balance EXCEPT ![AccountOf[r]] = @ - Cost[r]]
     \/ /\ ChargeMayFail(r)
        /\ req' = [req EXCEPT ![r] = "failed_balance"]
        /\ UNCHANGED <<job, due, stale, spent, balance>>
  /\ UNCHANGED <<attempts, granted, refunded, delivered, control>>

\* Mutant: the spend has no op_key, so handling an update again charges again.
ResubmitChargesAgain(r) ==
  /\ "replay" \in Faults /\ mode = "up" /\ req[r] = "queued" /\ Solvent(r)
  /\ stale' = stale \ {r}
  /\ balance' = [balance EXCEPT ![AccountOf[r]] = @ - Cost[r]]
  /\ UNCHANGED <<req, job, attempts, due, granted, spent, refunded, delivered, control>>

(* The same update is handled once more while its request is open.  The    *)
(* charge is an INSERT ... ON CONFLICT (op_key) DO NOTHING, but the BEFORE *)
(* INSERT trigger checks the balance before the conflict is looked for: it *)
(* raises although the credit was taken the first time.  Otherwise the     *)
(* charge does nothing and the conflict clause of EnqueueGenerationJob     *)
(* refreshes updated_at.  A request in a terminal status only rolls back.  *)
Resubmit(r) ==
  /\ "replay" \in Faults
  /\ mode = "up"
  /\ req[r] = "queued"
  /\ \/ /\ Solvent(r)
        /\ stale' = stale \ {r}
        /\ UNCHANGED req
     \/ /\ ChargeMayFail(r)
        /\ req' = [req EXCEPT ![r] = "failed_balance"]
        /\ UNCHANGED stale
  /\ UNCHANGED <<job, attempts, due, money, delivered, control>>

-----------------------------------------------------------------------------
(* A worker: claim, generate, deliver, close.                              *)

Claimable(r) == job[r] = "queued" /\ r \in due /\ attempts[r] < MaxAttempts[r]

\* Mutant: claiming does not count the attempt.
ClaimRowUncounted(r) ==
  /\ Claimable(r)
  /\ \A q \in Requests : Claimable(q) => r <= q
  /\ SetStatus(r, "running")
  /\ UNCHANGED <<attempts, due>>

(* ClaimNextGenerationJob takes the lowest id (ORDER BY id LIMIT 1). *)
ClaimRow(r) ==
  /\ Claimable(r)
  /\ \A q \in Requests : Claimable(q) => r <= q
  /\ SetStatus(r, "running")
  /\ attempts' = [attempts EXCEPT ![r] = @ + 1]
  /\ UNCHANGED due

Claim(w) ==
  /\ mode = "up"
  /\ Idle(w)
  /\ \E r \in Requests :
       /\ ClaimRow(r)
       /\ on' = [on EXCEPT ![w] = r]
       /\ tries' = [tries EXCEPT ![w] = attempts[r] + 1]
  /\ Goto(w, "generating")
  /\ UNCHANGED <<req, money, delivered, todo, mode>>

(* The claim committed but its answer was lost: nobody runs the job. *)
ClaimAnswerLost ==
  /\ "db" \in Faults
  /\ mode = "up"
  /\ \E w \in Workers : Idle(w)
  /\ \E r \in Requests : ClaimRow(r)
  /\ UNCHANGED <<req, money, delivered, control>>

(* handleFailedAttempt: a moderation verdict or the last attempt is final. *)
AttemptFailed(w, moderated) ==
  /\ Goto(w, IF moderated \/ tries[w] >= MaxAttempts[on[w]] THEN "finalizing"
                                                             ELSE "requeueing")
  /\ UNCHANGED <<on, tries, todo, mode>>

(* Prov.Generate: a result, or an error (timeouts included). *)
Generate(w) ==
  /\ pc[w] = "generating"
  /\ \/ Goto(w, "sending") /\ UNCHANGED <<on, tries, todo, mode>>
     \/ \E moderated \in BOOLEAN : AttemptFailed(w, moderated)
  /\ UNCHANGED <<rows, money, delivered>>

(* sendMediaResult: several attempts over several methods.  A call that    *)
(* fails may still have delivered, so an error does not mean no delivery.  *)
Send(w) ==
  /\ pc[w] = "sending"
  /\ \/ /\ delivered' = delivered \cup {on[w]}
        /\ Goto(w, "marking") /\ UNCHANGED <<on, tries, todo, mode>>
     \/ /\ AttemptFailed(w, FALSE)
        /\ \/ UNCHANGED delivered
           \/ "send" \in Faults /\ delivered' = delivered \cup {on[w]}
  /\ UNCHANGED <<rows, money>>

(* runClaimedJob recovers a panic of processJob as a failed attempt. *)
Panic(w) ==
  /\ "panic" \in Faults
  /\ pc[w] \in {"generating", "sending", "marking", "finishing"}
  /\ AttemptFailed(w, FALSE)
  /\ UNCHANGED <<rows, money, delivered>>

\* Mutant: a job that is no longer running is finished all the same.
MarkDoneIgnoresNoRows(w) ==
  /\ pc[w] = "marking"
  /\ mode = "up"
  /\ IF job[on[w]] = "running" THEN Close(on[w], "done") ELSE UNCHANGED queue
  /\ Goto(w, "finishing")
  /\ UNCHANGED <<req, money, delivered, on, tries, todo, mode>>

\* Mutant: the UPDATE has no WHERE status = 'running'.
MarkDoneUnguarded(w) ==
  /\ pc[w] = "marking"
  /\ mode = "up"
  /\ Close(on[w], "done")
  /\ Goto(w, "finishing")
  /\ UNCHANGED <<req, money, delivered, on, tries, todo, mode>>

(* MarkGenerationJobDone runs under the context that shutdown cancels. *)
MarkDone(w) ==
  /\ pc[w] = "marking"
  /\ mode = "up"
  /\ IF job[on[w]] = "running"
     THEN /\ Close(on[w], "done")
          /\ Goto(w, "finishing") /\ UNCHANGED <<on, tries, todo, mode>>
     ELSE Release(w) /\ UNCHANGED queue
  /\ UNCHANGED <<req, money, delivered>>

MarkDoneFails(w) ==
  /\ pc[w] = "marking"
  /\ WriteMayFail
  /\ Release(w)
  /\ \/ UNCHANGED queue
     \/ job[on[w]] = "running" /\ Close(on[w], "done")
  /\ UNCHANGED <<req, money, delivered>>

(* FinishGenerationRequest; its error is only logged. *)
FinishRequest(w) ==
  /\ pc[w] = "finishing"
  /\ mode = "up"
  /\ IF req[on[w]] = "queued"
     THEN req' = [req EXCEPT ![on[w]] = "ok"]
     ELSE UNCHANGED req
  /\ Release(w)
  /\ UNCHANGED <<queue, money, delivered>>

FinishRequestFails(w) ==
  /\ pc[w] = "finishing"
  /\ WriteMayFail
  /\ Release(w)
  /\ UNCHANGED <<rows, money, delivered>>

-----------------------------------------------------------------------------
(* A failed attempt.                                                       *)

(* RequeueGenerationJob asks only that the row is running, not that it is  *)
(* still running this worker's claim.                                      *)
Requeue(w) ==
  /\ pc[w] = "requeueing"
  /\ Release(w)
  /\ IF job[on[w]] = "running" THEN PutBack(on[w]) ELSE UNCHANGED queue
  /\ UNCHANGED <<req, money, delivered>>

(* An error of the requeue falls back to a permanent failure. *)
RequeueFails(w) ==
  /\ pc[w] = "requeueing"
  /\ WriteMayFail
  /\ Goto(w, "finalizing")
  /\ \/ UNCHANGED queue
     \/ job[on[w]] = "running" /\ PutBack(on[w])
  /\ UNCHANGED <<req, money, delivered, on, tries, todo, mode>>

\* Mutant: the UPDATE has no WHERE status = 'running'.
FinalizeUnguarded(w) ==
  /\ pc[w] = "finalizing"
  /\ Close(on[w], "failed")
  /\ Goto(w, "closing")
  /\ UNCHANGED <<req, money, delivered, on, tries, todo, mode>>

(* finalizeFailedAttempt: whoever moves the row out of "running" owns the  *)
(* side effects.                                                           *)
Finalize(w) ==
  /\ pc[w] = "finalizing"
  /\ IF job[on[w]] = "running"
     THEN /\ Close(on[w], "failed")
          /\ Goto(w, "closing") /\ UNCHANGED <<on, tries, todo, mode>>
     ELSE Release(w) /\ UNCHANGED queue
  /\ UNCHANGED <<req, money, delivered>>

FinalizeFails(w) ==
  /\ pc[w] = "finalizing"
  /\ WriteMayFail
  /\ Release(w)
  /\ \/ UNCHANGED queue
     \/ job[on[w]] = "running" /\ Close(on[w], "failed")
  /\ UNCHANGED <<req, money, delivered>>

\* Mutant: a request that is closed already is refunded all the same.
FailRequestIgnoresNoRows(a) ==
  /\ pc[a] = "closing"
  /\ IF req[on[a]] = "queued"
     THEN req' = [req EXCEPT ![on[a]] = "failed"]
     ELSE UNCHANGED req
  /\ Goto(a, "refunding")
  /\ UNCHANGED <<queue, money, delivered, on, tries, todo, mode>>

(* finalizeFailedSideEffects, first statement: FailGenerationRequest.  No  *)
(* row means the request is closed already, and then nothing is refunded.  *)
FailRequest(a) ==
  /\ pc[a] = "closing"
  /\ IF req[on[a]] = "queued"
     THEN /\ req' = [req EXCEPT ![on[a]] = "failed"]
          /\ Goto(a, "refunding") /\ UNCHANGED <<on, tries, todo, mode>>
     ELSE Release(a) /\ UNCHANGED req
  /\ UNCHANGED <<queue, money, delivered>>

FailRequestFails(a) ==
  /\ pc[a] = "closing"
  /\ WriteMayFail
  /\ Release(a)
  /\ \/ UNCHANGED req
     \/ req[on[a]] = "queued" /\ req' = [req EXCEPT ![on[a]] = "failed"]
  /\ UNCHANGED <<queue, money, delivered>>

\* Mutant: every attempt of the job is paid back.
InsertRefundPerAttempt(r) ==
  IF r \in refunded
  THEN UNCHANGED <<refunded, balance>>
  ELSE /\ refunded' = refunded \cup {r}
       /\ balance' = [balance EXCEPT ![AccountOf[r]] = @ + attempts[r] * Cost[r]]

(* The refund is an INSERT under op_key refund:job:<id>, applied to the    *)
(* balance by a trigger.                                                   *)
InsertRefund(r) ==
  IF r \in refunded
  THEN UNCHANGED <<refunded, balance>>
  ELSE /\ refunded' = refunded \cup {r}
       /\ balance' = [balance EXCEPT ![AccountOf[r]] = @ + Cost[r]]

Refund(a) ==
  /\ pc[a] = "refunding"
  /\ InsertRefund(on[a])
  /\ Release(a)
  /\ UNCHANGED <<rows, granted, spent, delivered>>

(* The error is logged with reconcile_required=true and nothing retries. *)
RefundFails(a) ==
  /\ pc[a] = "refunding"
  /\ WriteMayFail
  /\ \/ UNCHANGED <<refunded, balance>>
     \/ InsertRefund(on[a])
  /\ Release(a)
  /\ UNCHANGED <<rows, granted, spent, delivered>>

-----------------------------------------------------------------------------
(* recoverStaleRunningJobs, at start and then every minute.                *)

Stale(r) == job[r] = "running" /\ r \in stale

(* One UPDATE over a set of rows. *)
SetStatusOfAll(S, status) ==
  /\ job' = [r \in Requests |-> IF r \in S THEN status ELSE job[r]]
  /\ stale' = stale \ S
  /\ UNCHANGED attempts

\* Mutant: a job is requeued although it has used all its attempts.
RetryableInclusive == {r \in Requests : Stale(r) /\ attempts[r] <= MaxAttempts[r]}

Retryable == {r \in Requests : Stale(r) /\ attempts[r] < MaxAttempts[r]}

RequeueStaleRows == SetStatusOfAll(Retryable, "queued") /\ due' = due \cup Retryable

RequeueStale ==
  /\ mode = "up"
  /\ Idle(Recoverer)
  /\ todo = {}
  /\ RequeueStaleRows
  /\ Goto(Recoverer, "failing stale")
  /\ UNCHANGED <<req, money, delivered, on, tries, todo, mode>>

(* The pass ends early, the rows requeued or not. *)
RequeueStaleFails ==
  /\ "db" \in Faults
  /\ mode = "up"
  /\ Idle(Recoverer)
  /\ todo = {}
  /\ RequeueStaleRows
  /\ UNCHANGED <<req, money, delivered, control>>

Exhausted == {r \in Requests : Stale(r) /\ attempts[r] >= MaxAttempts[r]}

FailStaleRows == SetStatusOfAll(Exhausted, "failed") /\ UNCHANGED due

\* Mutant: the returned rows are not finalized.
FailStaleWithoutLoop ==
  /\ mode = "up"
  /\ pc[Recoverer] = "failing stale"
  /\ FailStaleRows
  /\ Goto(Recoverer, "idle")
  /\ UNCHANGED <<req, money, delivered, on, tries, todo, mode>>

FailStale ==
  /\ mode = "up"
  /\ pc[Recoverer] = "failing stale"
  /\ FailStaleRows
  /\ todo' = Exhausted
  /\ Goto(Recoverer, "idle")
  /\ UNCHANGED <<req, money, delivered, on, tries, mode>>

(* Without its RETURNING rows the pass ends; nobody finalizes them. *)
FailStaleFails ==
  /\ pc[Recoverer] = "failing stale"
  /\ WriteMayFail
  /\ UNCHANGED queue \/ FailStaleRows
  /\ Release(Recoverer)
  /\ UNCHANGED <<req, money, delivered>>

(* The loop over the returned rows. *)
FinalizeStale(r) ==
  /\ mode # "down"
  /\ Idle(Recoverer)
  /\ r \in todo
  /\ todo' = todo \ {r}
  /\ on' = [on EXCEPT ![Recoverer] = r]
  /\ Goto(Recoverer, "closing")
  /\ UNCHANGED <<rows, money, delivered, tries, mode>>

-----------------------------------------------------------------------------
(* Time and the process.                                                   *)

(* next_attempt_at of a requeued job passes. *)
BackoffEnds(r) ==
  /\ job[r] = "queued"
  /\ r \notin due
  /\ due' = due \cup {r}
  /\ UNCHANGED <<req, job, attempts, stale, money, delivered, control>>

Held(r) == \E w \in Workers : on[w] = r

(* updated_at falls behind by more than StaleAfter: the runner is gone, or *)
(* it is slow (StaleAfter is 10 minutes, generation alone may take 15).    *)
BecomesStale(r) ==
  /\ job[r] = "running"
  /\ r \notin stale
  /\ Held(r) => "slow" \in Faults
  /\ stale' = stale \cup {r}
  /\ UNCHANGED <<req, job, attempts, due, money, delivered, control>>

(* What the goroutines knew is gone. *)
ProcessEnds ==
  /\ mode' = "down"
  /\ pc' = [a \in Actors |-> "idle"]
  /\ on' = [a \in Actors |-> NoJob]
  /\ tries' = [a \in Actors |-> 0]
  /\ todo' = {}
  /\ UNCHANGED <<rows, money, delivered>>

Crash == "crash" \in Faults /\ mode = "up" /\ ProcessEnds

(* SIGTERM: cancel(), then up to 20 s of waiting, then exit. *)
Stop ==
  /\ "stop" \in Faults
  /\ mode = "up"
  /\ mode' = "stopping"
  /\ UNCHANGED <<rows, money, delivered, pc, on, tries, todo>>

Exit == mode = "stopping" /\ ProcessEnds

Restart ==
  /\ mode = "down"
  /\ mode' = "up"
  /\ UNCHANGED <<rows, money, delivered, pc, on, tries, todo>>

-----------------------------------------------------------------------------

WorkerStep(w) ==
  \/ Generate(w) \/ Send(w) \/ MarkDone(w) \/ FinishRequest(w)
  \/ Requeue(w) \/ Finalize(w)

WorkerFault(w) ==
  \/ Panic(w) \/ MarkDoneFails(w) \/ FinishRequestFails(w)
  \/ RequeueFails(w) \/ FinalizeFails(w)

SideEffect(a) == FailRequest(a) \/ Refund(a)

SideEffectFault(a) == FailRequestFails(a) \/ RefundFails(a)

Recover ==
  \/ RequeueStale \/ FailStale
  \/ \E r \in Requests : FinalizeStale(r)

RecoverFault == RequeueStaleFails \/ FailStaleFails

Process == Crash \/ Stop \/ Exit \/ Restart

Next ==
  \/ \E a \in Accounts : Grant(a)
  \/ \E r \in Requests : Submit(r) \/ Resubmit(r) \/ BackoffEnds(r) \/ BecomesStale(r)
  \/ \E w \in Workers : Claim(w) \/ WorkerStep(w) \/ WorkerFault(w)
  \/ ClaimAnswerLost
  \/ \E a \in Actors : SideEffect(a) \/ SideEffectFault(a)
  \/ Recover \/ RecoverFault
  \/ Process

Spec == Init /\ [][Next]_vars

(* A live process polls (every PollEvery and every minute), its goroutines *)
(* run on, time passes, and a supervisor restarts a dead process.  Claims  *)
(* and recovery passes may be interrupted again and again by restarts, but *)
(* not for ever, hence SF for them.                                        *)
Fairness ==
  /\ WF_vars(Restart) /\ WF_vars(Exit)
  /\ \A r \in Requests :
       WF_vars(BackoffEnds(r)) /\ WF_vars(BecomesStale(r)) /\ WF_vars(FinalizeStale(r))
  /\ \A w \in Workers : WF_vars(WorkerStep(w))
  /\ SF_vars(\E w \in Workers : Claim(w))
  /\ \A a \in Actors : WF_vars(SideEffect(a))
  /\ SF_vars(RequeueStale) /\ SF_vars(FailStale)

FairSpec == Spec /\ Fairness

-----------------------------------------------------------------------------
(* What must be true.                                                      *)

(* A refund goes only to a charged request whose job and request both      *)
(* failed: no order of worker, recoverer and crash pays back credits for a *)
(* job that may still run or that was closed as done.  (finalizeFailed-    *)
(* SideEffects behind the guarded transitions of job and request.)         *)
RefundsAreFailures ==
  \A r \in refunded : r \in spent /\ job[r] = "failed" /\ req[r] = "failed"

(* A request is closed as "ok" only if its media reached the chat and its  *)
(* credits were kept.  (processJob: send, then mark done, then finish.)    *)
OkIsDelivered ==
  \A r \in Requests : req[r] = "ok" =>
     /\ job[r] = "done"
     /\ r \in delivered /\ r \in spent \ refunded

(* Who is committed to running the side effects of a failed job. *)
Closing(a, r) == on[a] = r /\ pc[a] \in {"closing", "refunding"}

(* The side effects of a failure (fail the request, refund, tell the user) *)
(* belong to one goroutine: a worker that finalizes and a recovery pass    *)
(* that fails the row as stale never both own them, and by then the job is *)
(* failed and nothing was refunded.  (The WHERE status = 'running' of      *)
(* MarkGenerationJobFailed and FailStaleRunningJobs.)                      *)
OneFinalizer ==
  /\ \A a, b \in Actors, r \in Requests : Closing(a, r) /\ Closing(b, r) => a = b
  /\ \A a \in Actors, r \in Requests : Closing(a, r) =>
       r \notin todo /\ r \notin refunded /\ job[r] = "failed"
  /\ \A r \in todo : r \notin refunded /\ job[r] = "failed"

(* No attempt of a job has two runners, even if the first one is slow and  *)
(* the job was taken for stale; so a job with one attempt, as the bot      *)
(* queues them, has one runner.  (ClaimNextGenerationJob counts the        *)
(* attempt, RequeueStaleRunningJobs does not give it back.)                *)
OneRunner ==
  \A v, w \in Workers :
    on[v] = on[w] /\ on[v] # NoJob /\ tries[v] = tries[w] => v = w

(* A closed job or request is never reopened or closed differently, by a   *)
(* late worker, a recovery pass or an update that is handled again.        *)
NothingRevived ==
  [][\A r \in Requests :
       /\ job[r] \in {"done", "failed"} => job'[r] = job[r]
       /\ req[r] \notin {"none", "queued"} => req'[r] = req[r]]_vars

(* Every queued job is done or failed in the end, whatever crashes and     *)
(* lost answers come in between.                                           *)
JobsEnd ==
  \A r \in Requests :
    job[r] \in {"queued", "running"} ~> job[r] \in {"done", "failed"}

(* "A generation error -> refund" (testguide.txt): the credits of every    *)
(* failed job come back.                                                   *)
FailureRefunded ==
  \A r \in Requests : job[r] = "failed" ~> r \in refunded

(* "op_key is idempotent" (testguide.txt): handling an update again finds  *)
(* its charge in place, so no charged request is turned down for lack of   *)
(* credits.                                                                *)
ChargedNotRefused == \A r \in spent : req[r] # "failed_balance"

-----------------------------------------------------------------------------
(* Generation implements Settlement.                                       *)

OutcomeOf(r) ==
  IF r \in refunded THEN "refunded"
  ELSE IF req[r] = "ok" THEN "served"
  ELSE IF r \in spent THEN "owed"
  ELSE IF req[r] = "failed_balance" THEN "refused" ELSE "new"

Outcome == [r \in Requests |-> OutcomeOf(r)]

Contract == INSTANCE Settlement WITH outcome <- Outcome

(* Each request is refused free of charge or charged once, and then served *)
(* or refunded at most once, and no other step moves credits, under every  *)
(* fault.                                                                  *)
SettledOnce == Contract!Spec

(* Somebody is to see to the job: a worker that will claim it or has it,   *)
(* the worker that closes its request, or who owns its side effects.       *)
SeenTo(r) ==
  \/ job[r] \in {"queued", "running"}
  \/ job[r] = "done" /\ \E w \in Workers : on[w] = r /\ pc[w] = "finishing"
  \/ job[r] = "failed" /\ (r \in todo \/ \E a \in Actors : Closing(a, r))

(* No charge is forgotten: unless a statement fails, something panics, the *)
(* process goes down or an update is handled again, a charged request that *)
(* is neither served nor refunded has somebody to see to it, at every      *)
(* moment.  (processJob and finalizeFailedSideEffects, whose last steps    *)
(* nothing repeats.)                                                       *)
OwedIsSeenTo ==
  Faults \subseteq {"slow", "send"} =>
    \A r \in Requests : Outcome[r] = "owed" => SeenTo(r)

(* Every charge is also settled in the end, if no statement fails, nothing *)
(* panics and the process stays up; runners may still outlive StaleAfter   *)
(* and deliveries may be reported as failed.                               *)
SettledInTheEnd == Contract!FairSpec
=============================================================================
