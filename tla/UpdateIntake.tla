---------------------------- MODULE UpdateIntake ----------------------------
(***************************************************************************)
(* How the bot takes updates from Telegram (cmd/bot/main.go): the webhook  *)
(* handler, the table telegram_updates that tells new updates from known   *)
(* ones, the worker pool, and shutdown.  A pre-checkout is handled before  *)
(* the webhook is answered, every other update is queued and answered at   *)
(* once.  What an update does to the bot is not modelled here.             *)
(*                                                                         *)
(* Telegram is external: it posts an update until it is answered with 200. *)
(***************************************************************************)
EXTENDS WorkerPool

CONSTANTS
  Updates,   \* update ids
  Sync,      \* those with a pre-checkout query
  Servers,   \* goroutines that serve HTTP requests
  Workers,   \* goroutines of the pool
  Faults,    \* what the environment may do, see FaultKinds
  NoUpdate   \* no update in hand

\* "db"    a statement fails, carried out or not    "crash" the process dies
\* "stop"  graceful shutdown    "deadline" its 20 seconds are not enough
\* "lost"  an answer does not arrive    "early" Telegram posts again before it
\* "error" a handler fails or panics
\* "slow"  an update is at work for longer than WebhookStaleSec
FaultKinds == {"db", "crash", "stop", "deadline", "lost", "early", "error", "slow"}

Actors == Servers \cup Workers

ASSUME ConstantsAssumption ==
  /\ Sync \subseteq Updates
  /\ Servers \cap Workers = {}
  /\ NoUpdate \notin Updates
  /\ Faults \subseteq FaultKinds

VARIABLES
  row,         \* telegram_updates.status, "none" before the row exists
  stale,       \* rows with processing_started_at before now() - WebhookStaleSec
  unanswered,  \* external: updates Telegram still has to deliver
  served,      \* updates for which Router.HandleUpdate returned without error
  pc,          \* what each goroutine does next
  on,          \* the update it has in hand
  mode         \* "up", "draining" (no new requests), "stopping" (cancelled), "down"

table   == <<row, stale>>
pool    == <<jobs, stopped>>
control == <<pc, on>>
vars    == <<table, pool, unanswered, served, control, mode>>

RowStatus == {"none", "processing", "failed", "done"}

Stages == {"idle", "dispatching", "turning away", "handling", "marking done", "marking failed"}

TypeOK ==
  /\ row \in [Updates -> RowStatus]
  /\ stale \subseteq Updates /\ unanswered \subseteq Updates /\ served \subseteq Updates
  /\ jobs \in Seq(Updates) /\ Len(jobs) <= QueueSize
  /\ stopped \in BOOLEAN
  /\ pc \in [Actors -> Stages]
  /\ on \in [Actors -> Updates \cup {NoUpdate}]
  /\ \A a \in Actors : pc[a] = "idle" <=> on[a] = NoUpdate
  /\ mode \in {"up", "draining", "stopping", "down"}

Init ==
  /\ row = [u \in Updates |-> "none"]
  /\ stale = {}
  /\ unanswered = Updates
  /\ served = {}
  /\ InitPool
  /\ pc = [a \in Actors |-> "idle"]
  /\ on = [a \in Actors |-> NoUpdate]
  /\ mode = "up"

-----------------------------------------------------------------------------
(* Shared pieces.                                                          *)

Goto(a, stage) == pc' = [pc EXCEPT ![a] = stage]

Continue(a, stage) == Goto(a, stage) /\ UNCHANGED on

Begin(a, u, stage) ==
  /\ pc[a] = "idle"
  /\ Goto(a, stage)
  /\ on' = [on EXCEPT ![a] = u]

Finish(a) == Goto(a, "idle") /\ on' = [on EXCEPT ![a] = NoUpdate]

(* 200: Telegram drops the update, unless the answer does not arrive. *)
Answer(u) ==
  \/ unanswered' = unanswered \ {u}
  \/ "lost" \in Faults /\ UNCHANGED unanswered

(* MarkUpdateFailed and MarkUpdateDone ask for a row in "processing". *)
SetFailed(u) ==
  /\ row' = [row EXCEPT ![u] = IF @ = "processing" THEN "failed" ELSE @]
  /\ UNCHANGED stale

SetDone(u) ==
  /\ row[u] = "processing"
  /\ row' = [row EXCEPT ![u] = "done"]
  /\ UNCHANGED stale

-----------------------------------------------------------------------------
(* The webhook handler.                                                    *)

(* Telegram posts one request at a time for an update, if it gets answers. *)
Posted(h, u) ==
  /\ mode = "up"
  /\ pc[h] = "idle"
  /\ u \in unanswered
  /\ "early" \notin Faults => \A g \in Servers : on[g] # u

\* Mutant: a row that is done is not told from one that failed.
BeginsDone(u) == row[u] = "processing" => u \in stale

\* Mutant: a row in "processing" may be begun again at any time.
BeginsAlways(u) == row[u] # "done"

(* The WHERE clause of BeginUpdateProcessing. *)
Begins(u) ==
  \/ row[u] \in {"none", "failed"}
  \/ row[u] = "processing" /\ u \in stale

(* BeginUpdateProcessing. *)
SetProcessing(u) ==
  /\ row' = [row EXCEPT ![u] = "processing"]
  /\ stale' = stale \ {u}

BeginUpdate(h, u) ==
  /\ Posted(h, u)
  /\ Begins(u)
  /\ SetProcessing(u)
  /\ Begin(h, u, "dispatching")
  /\ UNCHANGED <<pool, unanswered, served, mode>>

(* "duplicate": true *)
SkipDuplicate(h, u) ==
  /\ Posted(h, u)
  /\ ~Begins(u)
  /\ Answer(u)
  /\ UNCHANGED <<table, pool, served, control, mode>>

(* 500, "failed to deduplicate update" *)
BeginUpdateFails(h, u) ==
  /\ "db" \in Faults
  /\ Posted(h, u)
  /\ UNCHANGED table \/ (Begins(u) /\ SetProcessing(u))
  /\ UNCHANGED <<pool, unanswered, served, control, mode>>

(* dispatchTelegramUpdate *)
Dispatch(h) ==
  /\ pc[h] = "dispatching"
  /\ \/ /\ on[h] \in Sync
        /\ Continue(h, "handling")
        /\ UNCHANGED <<pool, unanswered>>
     \/ /\ on[h] \notin Sync
        /\ TrySubmit(on[h])
        /\ Answer(on[h])
        /\ Finish(h)
     \/ /\ on[h] \notin Sync
        /\ ~Accepts
        /\ Continue(h, "turning away")
        /\ UNCHANGED <<pool, unanswered>>
  /\ UNCHANGED <<table, served, mode>>

\* Mutant: the row stays in "processing".
TurnAwayOnly(h) ==
  /\ pc[h] = "turning away"
  /\ Finish(h)
  /\ UNCHANGED <<table, pool, unanswered, served, mode>>

(* 503, "queue is full, retry later" *)
TurnAway(h) ==
  /\ pc[h] = "turning away"
  /\ SetFailed(on[h])
  /\ Finish(h)
  /\ UNCHANGED <<pool, unanswered, served, mode>>

(* The error of MarkUpdateFailed is dropped. *)
TurnAwayFails(h) ==
  /\ "db" \in Faults
  /\ pc[h] = "turning away"
  /\ UNCHANGED table
  /\ Finish(h)
  /\ UNCHANGED <<pool, unanswered, served, mode>>

-----------------------------------------------------------------------------
(* processUpdate, in a worker or in the server of a pre-checkout.          *)

Take(w) ==
  /\ \E u \in Updates : Receive(u) /\ Begin(w, u, "handling")
  /\ UNCHANGED <<table, unanswered, served, mode>>

(* Shutdown cancels the context of Router.HandleUpdate. *)
MayFail == "error" \in Faults \/ mode = "stopping"

\* Mutant: the error is not looked at.
HandleIgnoresError(a) ==
  /\ pc[a] = "handling"
  /\ Continue(a, "marking done")
  /\ \/ served' = served \cup {on[a]}
     \/ MayFail /\ UNCHANGED served
  /\ UNCHANGED <<table, pool, unanswered, mode>>

(* Router.HandleUpdate; an error and a panic are both marked as failed. *)
Handle(a) ==
  /\ pc[a] = "handling"
  /\ \/ served' = served \cup {on[a]} /\ Continue(a, "marking done")
     \/ MayFail /\ UNCHANGED served /\ Continue(a, "marking failed")
  /\ UNCHANGED <<table, pool, unanswered, mode>>

(* 200 for a pre-checkout, nothing more for a queued update. *)
Succeed(a) ==
  /\ IF a \in Servers THEN Answer(on[a]) ELSE UNCHANGED unanswered
  /\ Finish(a)

MarkDone(a) ==
  /\ pc[a] = "marking done"
  /\ \/ SetDone(on[a]) /\ Succeed(a)
     \/ /\ row[on[a]] # "processing"
        /\ Continue(a, "marking failed")
        /\ UNCHANGED <<table, unanswered>>
  /\ UNCHANGED <<pool, served, mode>>

MarkDoneFails(a) ==
  /\ "db" \in Faults
  /\ pc[a] = "marking done"
  /\ UNCHANGED table \/ SetDone(on[a])
  /\ Continue(a, "marking failed")
  /\ UNCHANGED <<pool, unanswered, served, mode>>

\* Mutant: a panic ends the job before its row is marked.
MarkFailedOrPanic(a) ==
  /\ pc[a] = "marking failed"
  /\ SetFailed(on[a]) \/ UNCHANGED table
  /\ Finish(a)
  /\ UNCHANGED <<pool, unanswered, served, mode>>

(* 500 for a pre-checkout. *)
MarkFailed(a) ==
  /\ pc[a] = "marking failed"
  /\ SetFailed(on[a])
  /\ Finish(a)
  /\ UNCHANGED <<pool, unanswered, served, mode>>

MarkFailedFails(a) ==
  /\ "db" \in Faults
  /\ pc[a] = "marking failed"
  /\ UNCHANGED table
  /\ Finish(a)
  /\ UNCHANGED <<pool, unanswered, served, mode>>

-----------------------------------------------------------------------------
(* Time and the process.                                                   *)

Queued(u) == \E i \in 1 .. Len(jobs) : jobs[i] = u

AtWork(u) == Queued(u) \/ \E a \in Actors : on[a] = u

(* Handling takes 15 seconds at most and WebhookStaleSec is 300, but the   *)
(* time an update waits in the queue has no limit.                         *)
BecomesStale(u) ==
  /\ row[u] = "processing"
  /\ u \notin stale
  /\ AtWork(u) => "slow" \in Faults
  /\ stale' = stale \cup {u}
  /\ UNCHANGED <<row, pool, unanswered, served, control, mode>>

(* SIGTERM: healthSrv.Shutdown waits for the requests that are served, *)
StopServing ==
  /\ "stop" \in Faults
  /\ mode = "up"
  /\ mode' = "draining"
  /\ UNCHANGED <<table, pool, unanswered, served, control>>

(* then the context is cancelled and the pool closed, *)
StopPool ==
  /\ mode = "draining"
  /\ (\A h \in Servers : pc[h] = "idle") \/ "deadline" \in Faults
  /\ mode' = "stopping"
  /\ ClosePool
  /\ UNCHANGED <<table, unanswered, served, control>>

ProcessEnds ==
  /\ mode' = "down"
  /\ pc' = [a \in Actors |-> "idle"]
  /\ on' = [a \in Actors |-> NoUpdate]
  /\ jobs' = <<>>
  /\ UNCHANGED <<table, unanswered, served, stopped>>

Drained == jobs = <<>> /\ \A w \in Workers : pc[w] = "idle"

(* and the process ends when the workers have, or time is up. *)
Exit ==
  /\ mode = "stopping"
  /\ Drained \/ "deadline" \in Faults
  /\ ProcessEnds

Crash == "crash" \in Faults /\ mode # "down" /\ ProcessEnds

Restart ==
  /\ mode = "down"
  /\ mode' = "up"
  /\ stopped' = FALSE
  /\ UNCHANGED <<table, jobs, unanswered, served, control>>

-----------------------------------------------------------------------------

Serve(h) == Dispatch(h) \/ TurnAway(h)

Process(a) == Handle(a) \/ MarkDone(a) \/ MarkFailed(a)

Fault(a) == TurnAwayFails(a) \/ MarkDoneFails(a) \/ MarkFailedFails(a)

Next ==
  \/ \E h \in Servers, u \in Updates :
       BeginUpdate(h, u) \/ SkipDuplicate(h, u) \/ BeginUpdateFails(h, u)
  \/ \E h \in Servers : Serve(h)
  \/ \E w \in Workers : Take(w)
  \/ \E a \in Actors : Process(a) \/ Fault(a)
  \/ \E u \in Updates : BecomesStale(u)
  \/ StopServing \/ StopPool \/ Exit \/ Crash \/ Restart

Spec == Init /\ [][Next]_vars

(* An answer of 200 that does arrive. *)
AnswerArrives(h, u) ==
  /\ \/ on[h] = u /\ (Dispatch(h) \/ MarkDone(h))
     \/ SkipDuplicate(h, u)
  /\ unanswered' # unanswered

(* Goroutines run on and a supervisor restarts the process.  Telegram      *)
(* posts an update again until it is answered, however often the process   *)
(* is down in between, and not every answer is lost, hence SF.             *)
Fairness ==
  /\ WF_vars(StopPool) /\ WF_vars(Exit) /\ WF_vars(Restart)
  /\ \A h \in Servers : WF_vars(Serve(h))
  /\ \A w \in Workers : WF_vars(Take(w))
  /\ \A a \in Actors : WF_vars(Process(a))
  /\ \A u \in Updates :
       /\ SF_vars(\E h \in Servers : BeginUpdate(h, u) \/ SkipDuplicate(h, u))
       /\ SF_vars(\E h \in Servers : AnswerArrives(h, u))

FairSpec == Spec /\ Fairness

-----------------------------------------------------------------------------
(* What must be true.                                                      *)

(* Two goroutines never work on the same update, and it is not queued      *)
(* while one does, whatever Telegram posts again or too early and whatever *)
(* crashes, as long as no update outlives WebhookStaleSec.                 *)
(* (BeginUpdateProcessing as a lease.)                                     *)
OneHolder ==
  "slow" \notin Faults =>
    /\ \A a, b \in Actors : on[a] = on[b] /\ on[a] # NoUpdate => a = b
    /\ \A a \in Actors, i \in 1 .. Len(jobs) : jobs[i] # on[a]
    /\ \A i, j \in 1 .. Len(jobs) : jobs[i] = jobs[j] => i = j

(* An update is closed as done only if it was handled without an error.    *)
(* (processUpdate marks the row after Router.HandleUpdate.)                *)
DoneIsServed == \A u \in Updates : row[u] = "done" => u \in served

(* As long as the database answers, the process does not die and nothing   *)
(* outlives its lease, an update that was handled is not handled again,    *)
(* although Telegram posts it again when an answer was lost.               *)
ServedOnce == \A a \in Actors : pc[a] = "handling" => on[a] \notin served

(* A graceful shutdown that ends in time leaves no update in "processing", *)
(* where Telegram's next attempt would be dropped as a duplicate.          *)
(* (healthSrv.Shutdown, then StopAndWait.)                                 *)
NothingStuck == mode = "down" => \A u \in Updates : row[u] # "processing"

(* 200 is said only of an update that the bot has: it is queued, a         *)
(* goroutine is past the queue with it, or it was handled before.  In      *)
(* between nothing is said, whatever is posted again; so Telegram keeps    *)
(* what is turned away and what a shutdown interrupts before it is queued. *)
(* (The answers of the webhook handler, against BeginUpdateProcessing.)    *)
Has(u) ==
  \/ Queued(u)
  \/ \E a \in Actors : on[a] = u /\ pc[a] \notin {"dispatching", "turning away"}
  \/ u \in served

AnsweredIsHad == [][\A u \in unanswered \ unanswered' : Has(u) \/ Queued(u)']_vars

(* "queue is full, retry later" (main.go): an update that is turned away   *)
(* is handled in the end, over any number of graceful restarts.  Telegram  *)
(* does retry, but one that is "early", before the 503, is answered with   *)
(* 200 as a duplicate, and the update is gone.                             *)
RetriedWhenTold ==
  \A u \in Updates :
    (\E h \in Servers : pc[h] = "turning away" /\ on[h] = u)
      ~> (\E a \in Actors : pc[a] = "handling" /\ on[a] = u)
=============================================================================
