----------------------------- MODULE WorkerPool -----------------------------
(***************************************************************************)
(* The bounded queue of internal/workers/pool.go: a buffered channel that  *)
(* handlers submit to without waiting and that is closed once, at          *)
(* shutdown; what is in it then is still worked off.                       *)
(***************************************************************************)
EXTENDS Naturals, Sequences

CONSTANT QueueSize  \* capacity of the channel (QUEUE_BUFFER)

ASSUME QueueSizeAssumption == QueueSize \in Nat \ {0}

VARIABLES
  jobs,    \* the channel
  stopped  \* it was closed

InitPool == jobs = <<>> /\ stopped = FALSE

\* Mutant: one job too many.
AcceptsOneMore == ~stopped /\ Len(jobs) <= QueueSize

(* TrySubmit holds the read lock, so the channel is not closed under it. *)
Accepts == ~stopped /\ Len(jobs) < QueueSize

TrySubmit(job) == Accepts /\ jobs' = Append(jobs, job) /\ UNCHANGED stopped

(* A worker receives, from a closed channel too until it is empty. *)
Receive(job) ==
  /\ jobs # <<>>
  /\ job = Head(jobs)
  /\ jobs' = Tail(jobs)
  /\ UNCHANGED stopped

(* StopAndWait, first half. *)
ClosePool == ~stopped /\ stopped' = TRUE /\ UNCHANGED jobs
=============================================================================
