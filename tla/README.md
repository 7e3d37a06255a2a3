# Unitool: a verification project

Unitool is a Telegram bot written in Go that sells credits and spends them on
generated text, images and videos. It is one process over one PostgreSQL
database, started by `src/cmd/bot/main.go`; what makes it hard is that users'
money passes through three statement-by-statement protocols (update intake,
payments, generation), each of which is run by several goroutines, is cut off by
crashes and shutdowns, and is repeated by the outside: Telegram, YooKassa and
the bot's own recovery loop.

This directory holds TLA+ models of those protocols, TLC configurations that
check them on small instances, and TLAPS proofs of what matters most for every
instance. Paths such as `generation/service.go` below are relative to
`src/internal/`.

## 1. The system

| part | state it keeps | operations | hard because |
|---|---|---|---|
| asynchronous generation (`generation/service.go`, `telegram/handlers.go` `submitAsyncGeneration`) | `generation_requests.status`, `generation_jobs` (status, attempts, next_attempt_at, updated_at), `credit_ledger`, balances | submit transaction, claim, process, mark done or failed, requeue, refund, recover stale jobs | workers race the recovery loop; failure is three statements without a transaction; crash and shutdown in between |
| payments (`payments/service.go`, `payments/yookassa.go`) | `orders.status`, `credit_ledger`, balances | create order and invoice or SBP link, pre-checkout, successful payment, webhook, cancellation, manual review | duplicate and late notifications, lost answers, bans and boost rule between check and payment |
| update intake (`cmd/bot/main.go`, `telegram_updates`) | one row per update (processing, failed, done) | begin, dispatch, handle, mark done or failed, turn away | Telegram repeats; the row is a lease; the queue is bounded; shutdown order |
| update worker pool (`workers/pool.go`) | bounded channel, closed flag | `TrySubmit`, worker loop, `StopAndWait` | submitting while it is closed |
| notifier (`notifier/service.go`) | `user_notification_state`, `broadcast_campaigns` | four reminders, broadcasts in batches | side effect and saved progress cannot be one step |
| credit ledger and balances (`credit_ledger.sql`, triggers of `0001_schema.sql`) | `credit_ledger` with a unique `op_key`, three balances per user | spend, refund, purchase, bonus, grant | the negative-balance trigger fires before the `op_key` conflict is seen |
| synchronous text generation (`handleSyncPrompt` and below in `telegram/handlers.go`) | request row, ledger, chat history | charge, stream, edit message, refund | nothing calls it: `handleMessage` turns every mode but image and video away first |
| sign-up (`telegram/middleware.go`) | `users`, ledger | look up, upsert, bonus | three statements without a transaction |
| media groups and pending references (`telegram/references.go`, `handleMessage` and `enqueueAsyncMediaPrompt` in `telegram/handlers.go`) | two maps in memory, a timer per album | collect, flush, peek, clear, put back | a timer that has fired races a late photo; every error has to put photos back once |
| router (`telegram/handlers.go`) | dialogue state per user in memory | commands, callbacks | two updates of one user at once |
| admin panel (`telegram/admin.go`, `admin/service.go`) | users, packages, ledger | ban, grant, packages, statistics, CSV | acts beside everything else |
| rate limiter (`rate/limiter.go`) | one token bucket for all users and kinds | `AllowKind` | refilled when asked, in whole intervals |
| retention (`retention/service.go`, `run_retention_cleanup`) | deletes old rows | one daily pass | - |
| provider client (`src/pkg/provider/comet/client.go`) | none between calls | one POST with retries, or a task and its polling; looking for the output in the answer | no idempotency key; seven protocols; deadlines that fall into waits |
| moderation (`moderation/openai.go`) | none | one HTTP call | - |
| storage, configuration, logging, metrics, health | connections, counters | plumbing | - |

How the parts meet: the webhook handler turns an update into a row of
`telegram_updates` and a closure in the pool (UpdateIntake); the closure runs the
router, which calls the payment handlers (Orders) or the submit transaction
(Generation), on the way of References when photos come with the prompt; a
generation worker makes one call of the provider client for each attempt (Media);
the workers and the notifier poll their tables on their own. All of them share the
ledger, whose `op_key` is what makes each movement of credits happen once. On SIGTERM `main` shuts the HTTP server down, cancels the
common context, closes the pool and waits 20 seconds for everybody.

What correctness means, part by part:

* generation: a charged request is served or refunded, never both, never twice;
  every job ends; nobody reopens what is closed;
* payments: an order ends once, is credited once and only for money that was
  taken; SBP money always ends in credits or with a person;
* intake: an update is with one goroutine at a time, is done only if it was
  handled, is not handled again without need, and is not lost when Telegram was
  asked to retry;
* notifier: no reminder twice, no recipient skipped, every broadcast ends;
* provider client: a call comes back whatever the provider does, with an output only
  if one was made, with that output if it was heard of, and without asking for it twice;
* references: no photo is lost or used with two prompts;
* limiter: no more passes than burst and refill allow.

## 2. The modules

| module | what it is |
|---|---|
| `Settlement` | abstract: refused, or charged once and then served or refunded once |
| `Generation` | the generation protocol, statement by statement; implements `Settlement` |
| `Purchase` | abstract: an order is open until credited, refused or put aside |
| `Orders` | the payment protocol; implements `Purchase` |
| `WorkerPool` | the bounded queue of `workers/pool.go`, used by `UpdateIntake` |
| `UpdateIntake` | webhook, dedup table, pool, shutdown |
| `Notifier` | reminders and broadcasts |
| `ProviderCall` | abstract: what `provider.ModelProvider` promises of one call |
| `Comet` | the provider client; implements `ProviderCall` |
| `Media` | `Generation` over `Comet`: each attempt of a job is a call of the client |
| `RateLimiter` | the token bucket, used by `References` |
| `References` | albums, pending photos and the way of a prompt with photos |
| `MCGeneration`, `MCMedia`, `MCOrders`, `MCUpdateIntake`, `MCNotifier`, `MCReferences` | values of the constants for TLC |
| `Generation_proofs`, `Media_proofs`, `Comet_proofs`, `Orders_proofs`, `UpdateIntake_proofs`, `Notifier_proofs`, `References_proofs` | theorems |

Common conventions. One SQL statement, and one database transaction, is one
step; between two of them every other goroutine may run. A goroutine is a `pc`
(the statement it executes next) and the row it has in hand. Stages are named for
what comes next: `"marking"` means that `MarkGenerationJobDone` is about to be
executed. An action whose name ends in `Fails` is the error path of the
statement of that name; under fault `"db"` the statement may have been carried
out all the same (the commit succeeded, the answer was lost). What the
environment may do is a constant `Faults`, a set of names, so that a property can
say under which faults it holds; each module explains its names. The operators
marked `Mutant:` are not part of the models: each is one of the definitions with
a plausible bug, kept to show that the properties notice it.

### Generation

`req`, `job`, `attempts`, `due`, `stale` are columns of `generation_requests` and
`generation_jobs`; time is abstracted to two sets, the jobs whose
`next_attempt_at` has passed and the jobs whose `updated_at` is older than
`StaleAfter`. `spent` and `refunded` are the `op_key`s of the ledger. `Submit` is
the transaction of `submitAsyncGeneration`, with its savepoint: a charge that
fails leaves the request `failed_balance` and commits. `Resubmit` is the same
update handled again. `Claim` is `ClaimNextGenerationJob`; `Generate`, `Send`,
`MarkDone`, `FinishRequest`, `Requeue`, `Finalize` follow `processJob` and
`handleJobFailure`; `FailRequest` and `Refund` are the two statements of
`finalizeFailedSideEffects`, run by workers and by the recovery loop
(`RequeueStale`, `FailStale`, `FinalizeStale`). `Stop` cancels the context and
then statements may fail as the code lets them: `withStateWriteCtx` decides once,
when it is called, which context the writes run under. `MaxAttempts` is a column of
the job; the bot gives every job one attempt, the model allows more.

### Orders

`status` is `orders.status`, `credited` the `op_key`s of the ledger. `money` and
`pending` are external: what Telegram or YooKassa knows of the payment and which
notifications are still to come. `InsertOrder`, `Offer`, `SendLink` create an
order; `CheckUser`, `CheckBoost`, `MarkPreCheckout`, `AnswerPreCheckout` are
`validatePreCheckout`; `CheckPayer`, `MarkPaid`, `MarkManualReview` and the two
`Skipped` actions (no row changed) are `processPaidOrder`; `FailOrder` is
`failOrder`. Amounts and currencies are reduced to whether they match. The
statements `ensurePaymentAllowed` reads with are one step, and the provider
payment id that `SetOrderProviderPayment` stores is not kept: a YooKassa payment
is found by the order id in its metadata. A Telegram payment is acknowledged when
its update is queued, before it is handled, as UpdateIntake shows; an SBP webhook
is answered when it was handled.

### UpdateIntake and WorkerPool

`row` and `stale` are `telegram_updates`, `jobs` and `stopped` the pool's channel.
`BeginUpdate`, `SkipDuplicate` and `BeginUpdateFails` are the outcomes of
`BeginUpdateProcessing`; `Dispatch`, `TurnAway`, `Take`, `Handle`, `MarkDone` and
`MarkFailed` follow `dispatchTelegramUpdate` and `processUpdate`. A pre-checkout
is handled by the server goroutine before it answers, every other update is
queued. `StopServing`, `StopPool`, `Exit` are the order of shutdown in `main`.
What the router does with an update is success or failure here.

### Notifier

One goroutine, so `pc`, `kind`, `todo`, `campaign`, `batch`, `upto` are its
locals. `QueryDue`, `MarkReminder`, `Tell` are what the four `process...`
functions have in common, with the kinds numbered in their order; a kind in
`Recurring` is marked with the time of the last activity (`active`), any other
once. Onboarding and no-purchase reminders end for good with the first
generation or payment (`Engage`). `ClaimCampaign`, `ListRecipients`, `WriteNext`,
`SaveProgress`, `FinishCampaign`, `FailCampaign` are `processBroadcastBatch`. Under
a cancelled context no statement is executed. That includes the save that a
broken-off batch makes on its way out, so such a batch is sent again.

### Comet and ProviderCall

A call of `Generate` is a goroutine: `Route` picks its protocol from model and
references as `Generate` and the `generate...` functions do. `Send`, the five `Hear...`
actions and `BackOff` are the loop that `postJSON`, `postMultipart` and the three
`create...Task` functions share: three attempts, again after silence, a 429 or 5xx,
and in `postJSON` after JSON that breaks off. `StillRunning`, `HearEnded`, `PollFails`,
`Pause` are the three `wait...Complete` loops: a status request that fails gives up the
call, an unknown status counts as running. `ReadOutput` looks the output up: `NamedAt`
is where an answer of each protocol may name it, `firstKlingVideoURL` and the other
lookups are the places the code looks at, `FromRawJSON` and `KeptAt` are the search of
the raw body and the field its find is kept in. The provider is external (`fate`,
`made`): it may execute a POST the client has given up. `Deadline`, `CancelAll`,
`Abandon` end the context of a job, of all jobs, or the goroutine.

### Media

`Jobs` is an instance of Generation with its `pc` renamed to `at`. `AskProvider` starts
the call of the attempt, `GenerateEnds` is Generation's `Generate` when the call has come
back, and it goes on to deliver exactly when the call has an output. A shutdown cancels
every call, a panic takes the worker's call with it, a crash or exit takes all of them.
Everything else of Generation is as it was.

### References and RateLimiter

One user's dialogue with its two maps. A handler of an update and the callback of an
album's timer are goroutines with a `stage`, the photos in hand (`held`) and the
`prompt` they go with. `collectMediaGroupPhoto`, `KeepSingle`, `TakeCaptioned` and
`TakeText` are the ways of a message through `handleMessage` and `handlePhotoMessage`;
`Fire` and `TakeGroup` are `flushMediaGroup`; `LoadSession` to `Restore` are
`processReferencePrompt` and `enqueueAsyncMediaPrompt` with every error return. A timer
that was stopped too late still fires. What the environment may do is `Mishaps`; the
limiter is asked in `Admit`. `used`, `told` and `doubtful` say what became of each
photo.

## 3. What the runs check

| run | instance | shows |
|---|---|---|
| `gen_safe` | 2 requests, one with 1 attempt and one with 2, credits for one and a grant, 2 workers, recoverer, all faults | `TypeOK`, `RefundsAreFailures`, `OkIsDelivered`, `OneFinalizer`, `OneRunner`, `NothingRevived`, `SettledOnce` (refinement) |
| `media` | 1 request with 2 attempts, 2 workers, recoverer, one request for each protocol of the client, every network fault, all faults of Generation but `replay` and `slow` | `MediaTypeOK`, `ServedWasMade`, `OneCaller`, `FinishedIsDelivered`, `AnsweredNotResent`, `LateSendsNothing`, `CallsAnswered` (refinement of the fair `ProviderCall`), `SettledOnce` with requeueing, `JobsEnd` |
| `gen_settles` | 2 requests, 2 workers, faults `slow` and `send` | `OwedIsSeenTo`, `SettledInTheEnd`: the fair abstract specification |
| `gen_lost_refund` | 1 request, 1 worker, a shutdown | `FailureRefunded` is **violated** |
| `gen_replayed_charge` | 1 request, a replayed update | `ChargedNotRefused` is **violated** |
| `orders` | an SBP order and a boost paid through Telegram, 2 handlers, all faults | `TypeOK`, `ConsentRecorded`, `SbpMoneyNotLost`, `PurchaseKept` (refinement), `SbpSettled` |
| `orders_boost` | 2 boost orders, no faults | `BoostNeedsBase` is **violated** |
| `intake_safe` | 2 queued updates and a pre-checkout, 2 servers, 1 worker, queue of 1, all faults but `slow` | `TypeOK`, `OneHolder`, `DoneIsServed` |
| `intake_live` | the same, faults `lost`, `stop`, `error` | `ServedOnce`, `NothingStuck`, `AnsweredIsHad`, `RetriedWhenTold` |
| `intake_retry` | 2 queued updates, failing statements | `RetriedWhenTold` is **violated** |
| `notifier` | 2 users, one reminder of each sort, 1 broadcast in batches of 2, all faults | `TypeOK`, `ToldOnce`, `NobodySkipped`, `SavedNotRepeated`, `CampaignEnds` |
| `references` | an album of 2 photos, one with a caption, 2 more photos, 2 texts, 1 handler beside the timers, a model that takes 1 reference, a bucket of 1, a clock of 4 with a refill every 2, all mishaps but `gap` | `RefTypeOK`, `PhotoAccounted`, `PhotoOnce`, `RateKept`, `PhotosSettle` |

Each property of a passing run comes with a mutant that breaks it in that run, some
with two.

Each liveness property has a safety property beside it that says why nothing gets stuck
on the way, and that is proved: `OwedIsSeenTo` for `SettledInTheEnd`, `OneCaller` for
`JobsEnd` (an open call has a worker that takes its answer), `SbpMoneyNotLost` for
`SbpSettled`, `AnsweredIsHad` for `RetriedWhenTold`, `SavedNotRepeated` for
`CampaignEnds` (each save moves on) and `PhotoAccounted` for `PhotosSettle`.

### Bounds, and why they are enough

The statements never relate more than one request, order, update or campaign at a
time except through a balance, the last paid package, a place in the queue or a
goroutine; two of each are enough for every such contest: two requests on one
account that covers one, two handlers on one order, two goroutines on one row, a
queue of one with two updates. Two attempts are the smallest number with a retry; in
`media` they make two calls, each with up to three POSTs, and the two workers contest
the one job. An album needs two photos for a timer that is set anew, one of them late;
a second text is needed to find photos that were put back. The clock of the limiter runs
for two intervals: a bucket that rests for both must not hold more than its burst, and
one that is asked in the middle of an interval must not gain by it. `MaxGrants` bounds the credits that come in from outside,
`MaxActivity` how often a user's row is updated, `MayBeDue` which reminders come due
(one user is new, the other comes and goes). Attempts and POSTs are bounded by the code
itself. Deadlock is checked wherever the system cannot rest; `references`,
`orders_boost` and `intake_retry` may end with everything done. The safety properties
of all modules do not depend on these bounds: they are proved (section 5).

### Fairness, and why the code justifies it

* A goroutine that has work goes on: WF for the steps of workers, handlers,
  servers and the notifier. A supervisor (`restart: unless-stopped` in
  `deploy/docker-compose.yml`, or the next deployment after a graceful stop) starts a
  dead process again, and `Exit` happens because `main` waits at most 20 seconds:
  WF. Time passes: WF for `BackoffEnds` and `BecomesStale`.
* Generation: `Claim`, `RequeueStale` and `FailStale` run on timers and are cut off
  by restarts again and again, but not every time: SF.
* Orders: YooKassa repeats a webhook until it is answered with 200: SF for
  `StartWebhook` and the statements behind it, since database errors and crashes
  may hit many attempts but not all of them. YooKassa really stops after 24 hours;
  the liveness of `SbpSettled` is about trouble that ends before. Nothing is
  assumed of Telegram payments, which are acknowledged before they are handled.
* UpdateIntake: Telegram posts an update until it is answered with 200, and not
  every answer is lost: SF for `BeginUpdate` or `SkipDuplicate` and for the arrival
  of an answer.
* Notifier: neither the claim of a broadcast nor the statement at its end fails
  every time: SF. `CampaignEnds` releases its promise when the process goes down
  and takes it up when it is back.
* Comet: the goroutine of a call goes on, and the context of every job has a timeout
  (`timeoutForJob`): WF for both. Nothing is assumed of the provider or the network, so
  `CallsAnswered` and `JobsEnd` hold even if it never answers.
* Media: as Generation, but that an attempt ends is not assumed, it follows from the
  end of its call.
* References: as long as a timer runs or a goroutine is at work, one of them goes on: one
  WF for all of them, since none works for ever. No message need arrive.

Strong fairness is stated of what the goroutines of a kind do together, one condition
for one cause ("some handler starts the webhook"), which is weaker than a condition
for each of finitely many.

## 4. Where the code and its documents disagree

1. *A lost refund* (`gen_lost_refund`). `testguide.txt` lists "generation error ->
   refund". A shutdown between `MarkGenerationJobFailed` and the refund, under a
   context taken before the cancellation, makes the refund fail; it is logged with
   `reconcile_required=true` and nothing repeats it.
2. *A replayed charge* (`gen_replayed_charge`). `testguide.txt`: "`op_key` is
   idempotent". When an update is handled again and the balance has dropped below
   the price meanwhile, the negative-balance trigger raises before the `op_key`
   conflict counts, and the charged request is turned down as `failed_balance`.
3. *Two boosts* (`orders_boost`). Users are told that a boost can be bought once
   after a base package. The rule is checked when an order is created and at
   pre-checkout, never when it is paid.
4. *A retry that is dropped* (`intake_retry`). The webhook answers 503 "queue is
   full, retry later", but ignores the error of the statement that releases the
   row; if it failed, the retry is a duplicate and the update is lost.

## 5. What is proved

The proofs are for every value of the constants that satisfies the assumptions of the
module (`ConstantsAssumption`; `QueueSizeAssumption`, `LimiterAssumption`,
`ReferencesAssumption`, `CallsAssumption`), in particular any number of requests,
workers, orders, handlers, updates, users, photos and calls, and any set of faults
unless stated.

**Generation_proofs.** The properties are not inductive. The invariant `IInv` adds:
`RowsAgree` (job, request and ledger of one request tell one story: a refund only
where both are failed, `ok` only where the job is done and the media delivered),
`AllHold` with `OwnStages` (what each goroutine knows of its row at the statement
it is about to execute, workers and recoverer in their own stages), `ClosersAlone`
(only one goroutine runs the side effects of a failed job, because only one
guarded `UPDATE` changed the row) and `TodoFailed` (rows the recovery pass holds
are failed and belong to nobody else). From it follow `TypeCorrect`,
`RefundsOnlyFailures`, `OkOnlyDelivered`, `OneOwner`, `ClosedForGood` (the action
property), `OneRunnerPerAttempt` (`RunnersApart` adds that a worker's attempt was counted
and is not above its job's; so a job with one attempt, which is what the bot queues, has
one runner) and `ImplementsSettlement`: every step is a step of `Settlement` or a stutter.
`NoChargeForgotten` needs a further invariant, `SeenInv`: while no statement fails and
the process stays up, the job of a charged request is open, or the goroutine that closed
it is at the statements that close the request and refund it, or the recovery pass holds
it; only a pass that has finalized its rows starts anew (`TodoBefore`).

**Comet_proofs.** `CallInv` is `TypeOK` and, of each call, what was heard at each stage,
that tasks are made only by routes that have them, that an attempt is left where a POST
may be sent, and whose output was made. From it follow `CometTyped` and the action properties
`AnsweredCallsNotResent`, `LateCallsSendNothing` and `HeardIsDelivered`; the last one
rests on `EveryPlaceFound`, that for each protocol the lookups and the search of the
raw JSON cover every place an output can be named at. `CometKeepsPromise`: Comet
implements the safety part of `ProviderCall`.

**Media_proofs.** `WorkersAsBefore` and `CallsAsBefore`: the composition implements both
Generation and Comet, so what is proved of either holds of it; the one needs nothing,
the other that the attempt a worker makes is one its job has (`AttemptsCounted` in
Generation_proofs). `MediaSettles` and `MediaTyped` are theorems of Generation and
Comet carried over, `JobsAskOnce`, `LateJobsAskNothing` and `JobsGetTheirOutput` those
about steps. `ServedIsMade` is what only both together give, by the invariant `Backed`: a
worker that is past the call, and a request that is closed as served, has behind it a
call that returned with an output. `OneCallerPerCall` does too: a call is opened only by
a worker for its own attempt and is closed when the worker leaves (`Called`), and by
`OneRunnerPerAttempt` nobody else has that attempt.

**Orders_proofs.** `IInv` is `TypeOK`, `RowsAgree` (paid if and only if credited,
and only with the money taken), `HandlersKnow` (what the status, read or marked
earlier, still allows at each stage) and `Alone` (one handler creates an order).
Theorems `OrdersTyped`, `ConsentOnlyWhenRecorded`, `ImplementsPurchase` and, by a second
invariant (`SbpInv`: a failed SBP order, and one that a handler is about to fail, is one
that nobody can pay any more; and YooKassa notifies of each paid one until it is closed,
which `NoticeKept` shows of every statement that answers it), `SbpMoneyIsNotLost`.

**UpdateIntake_proofs.** `IInv` is `TypeOK`, `Leased` (while nobody is slow, every
update in a hand or in the queue is in `processing`, is not stale, and is there
once), `MarksServed` (who is about to mark a row done has handled it) and
`DoneIsServed`. Theorems `IntakeTyped`, `OneHolderAlways`, `DoneOnlyServed`. Two
further invariants, `ShutInv` for the stages of shutdown and `ServedInv` for what a
served update's row may still be, hold if no statement fails, nothing crashes and
shutdown ends in time (`Quiet`); they give `NothingLeftBehind` and, without slow
handlers, `HandledOnce`. Under `Quiet`, and if no post overtakes the 503 of the one
before, a row in `processing` has its update in the queue or with a goroutine past it
(those of the pool always are, `PoolPast`), so that the answer "duplicate" is true of
it: `AnsweredIsTaken`. Outside these conditions both are false of the code: a
row whose update was served but not marked is taken up again when its lease ends.

**Notifier_proofs.** `IInv` is `TypeOK`, `ToldInv` (a reminder that was told is marked,
and who is in hand to be told was not told yet) and `SentInv` (everyone up to the saved
progress of a broadcast, and up to the unsaved one, was reached or is excused, because
they were banned or came later; the batch in hand leaves nobody out and lies ahead of
the progress). Theorems `NotifierTyped`, `RemindersToldOnce`, `BroadcastsSkipNobody`,
`BatchesStartBehindProgress`.

**References_proofs.** `ReferencesTyped` and `RateIsKept` hold without condition. For
the latter `LimiterInv` bounds what passed and what is left by what the time is worth,
since the start and, in `Window`, since any tick; the arithmetic of whole intervals is in
lemmas of its own (`QuotientsAdd`, `QuotientsOverlap`). `TimerInv`, also without
condition, says that an album with photos has a callback that is going to take them.
`PlaceInv` says that each photo is in one place only: not handled yet,
pending, in an album, in one hand, or settled. It holds if no message comes between
the reading and the clearing of the pending photos (`Gapless`); then `PhotosGoOnce` and
`PhotosAreAccounted` follow. With the gap both the invariant and `PhotoAccounted` are false
of the code: the photo that comes in between is cleared unread.

Only model-checked: the liveness properties `JobsEnd`, `SettledInTheEnd`, `SbpSettled`,
`RetriedWhenTold`, `CampaignEnds`, `PhotosSettle` and the liveness part of `CallsAnswered`
(fairness and ENABLED are beyond the prover).

## 6. What is left out

Abstracted inside the models: contents of prompts, media, messages and receipts;
amounts (match or mismatch); the history in `chat_messages`; the counters of
broadcasts; updates without an id, wrong secrets and malformed bodies, which are
answered without touching state; the reads of `ensurePaymentAllowed` as one step.

Also left out: what photos, pending payments and dialogue states kept in memory lose in
a restart; more than one user in References; durations, which appear as events (a
deadline passes, a row becomes stale).

Not modelled: image resizing, keyboards and dialogue layout, configuration, logging,
metrics, storage. Synchronous text generation (`handleSyncPrompt`, `generateChat`,
`GenerateStream`) is not reachable: `handleMessage` answers every mode other than image
and video before it. Moderation is a step of References that allows, objects or fails.
Retention deletes rows that are at least 30 days old and to which no module refers.

Known behaviour of the code that no property excludes, because nothing promises more:

* A POST whose answer is late is sent again without an idempotency key. With the
  default `COMET_TIMEOUT` of 25 seconds, a slow synchronous image is asked for up to three
  times, and the provider may make, and charge, each.
* A crash between the creation of a user and the bonus loses the bonus
  (`telegram/middleware.go`).
* Two messages with an e-mail that find the same pending payment create two SBP orders.
* A delivered request stays `queued` if its last statement fails (`OwedIsSeenTo` and
  `SettledInTheEnd` are about runs in which none does).
* An update that was queued and failed is not repeated by Telegram.
* With two attempts, a runner that outlives `StaleAfter` can put back a job that another
  worker has claimed since, and two runners of one job are possible. This is dormant:
  every job has one attempt.

## 7. Plan

Written, in this order: Settlement and Generation; Purchase and Orders; WorkerPool
and UpdateIntake; Notifier; ProviderCall and Comet; Media; RateLimiter and References;
then the proofs about all of them. What is left is smaller:

1. **Signup**: `EnsureUser` and the bonus as three statements, two updates of a new
   user at once, a crash in between. The bonus once; the lost bonus as a known loss.
2. **PendingPayment**: two messages with an e-mail that find the same pending choice, a
   choice canceled in between; composes with Orders.
3. **Intake over References and Orders**: `Handle` of UpdateIntake is success or
   failure; a composition would let the replay of one update meet photos that were
   taken and orders that were created by its first handling.
4. **Ledger**: an abstract ledger with `op_key`, which Generation and Orders both
   implement, so that balances are stated once.

## 8. How to run

    tlc -workers 2 -config gen_safe.cfg MCGeneration     # likewise for every .cfg
    tlapm Generation_proofs.tla

The `gen_`, `media`, `orders`, `intake_`, `notifier` and `references` configurations belong to
`MCGeneration`, `MCMedia`, `MCOrders`, `MCUpdateIntake`, `MCNotifier` and `MCReferences`. The
longest runs, `media` and `references`, take two to three minutes.
