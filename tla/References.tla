----------------------------- MODULE References -----------------------------
(***************************************************************************)
(* Photos that a user sends as references for a prompt                     *)
(* (telegram/references.go, handleMessage and enqueueAsyncMediaPrompt in   *)
(* telegram/handlers.go), for one user.  A photo with a caption is a       *)
(* prompt of its own, an album is collected until no photo of it has come  *)
(* for a while, and photos without a caption are kept in memory until the  *)
(* next text takes them.                                                   *)
(*                                                                         *)
(* The two maps of the router have a lock each, held for one operation.  A *)
(* handler of an update, and the callback of an album's timer, passes      *)
(* through several steps, and between two of them the others run.  A       *)
(* callback goes by the name of the photo that set the timer.              *)
(***************************************************************************)
EXTENDS RateLimiter, Sequences

CONSTANTS
  Photos, Texts,  \* the messages of the user
  Captioned,      \* photos with a caption
  Albums,
  AlbumOf,        \* Photos -> Albums, or None
  Handlers,       \* goroutines of the update worker pool
  Limit,          \* how many references the chosen model takes
  Mishaps,        \* see MishapKinds
  None

\* "db" a statement fails     "telegram" a photo cannot be fetched
\* "moderation" the check fails or objects     "credits" they do not suffice
\* "doubt" a submission fails after its commit
\* "gap" another message comes between reading and clearing the pending photos
MishapKinds == {"db", "telegram", "moderation", "credits", "doubt", "gap"}

AlbumPhotos == {p \in Photos : AlbumOf[p] # None}
Single      == Photos \ AlbumPhotos
Prompts     == Texts \cup Captioned
Goroutines  == Handlers \cup AlbumPhotos

ASSUME ReferencesAssumption ==
  /\ Photos \cap Texts = {} /\ Captioned \subseteq Photos
  /\ AlbumOf \in [Photos -> Albums \cup {None}]
  /\ Handlers \cap Photos = {} /\ None \notin Photos \cup Texts \cup Albums
  /\ Limit \in Nat \ {0}
  /\ Mishaps \subseteq MishapKinds

VARIABLES
  inbox,      \* messages not handled yet
  chosen,     \* the session has a mode and a model
  pending,    \* r.pendingRefs of the user
  group,      \* r.mediaGroups: FileIDs, empty without an entry
  caption,    \* r.mediaGroups: the photo whose caption is Prompt
  timer,      \* r.mediaGroups: Timer
  stage,      \* what each goroutine does next
  held,       \* the photos it has in hand
  prompt,     \* the message they go with
  used,       \* the prompts each photo was submitted with
  told,       \* ghost: other photos given up with a message to the user
  doubtful    \* ghost: photos of a submission with an unknown outcome

albums  == <<group, caption, timer>>
work    == <<stage, held, prompt>>
fates   == <<used, told, doubtful>>
refVars == <<inbox, chosen, pending, albums, work, fates>>

InSeq(s) == {s[i] : i \in DOMAIN s}

DialogueStages ==
  {"idle", "clearing", "loading", "encoding", "admitting", "moderating",
   "submitting", "restoring", "armed", "flushing", "keeping"}

RefTypeOK ==
  /\ inbox \subseteq Photos \cup Texts
  /\ chosen \in BOOLEAN
  /\ pending \in Seq(Photos)
  /\ group \in [Albums -> Seq(Photos)]
  /\ caption \in [Albums -> Captioned \cup {None}]
  /\ timer \in [Albums -> AlbumPhotos \cup {None}]
  /\ stage \in [Goroutines -> DialogueStages]
  /\ held \in [Goroutines -> Seq(Photos)]
  /\ prompt \in [Goroutines -> Prompts \cup {None}]
  /\ used \in [Photos -> SUBSET Prompts]
  /\ told \subseteq Photos /\ doubtful \subseteq Photos

RefInit ==
  /\ inbox = Photos \cup Texts
  /\ chosen = FALSE
  /\ pending = <<>>
  /\ group = [a \in Albums |-> <<>>]
  /\ caption = [a \in Albums |-> None]
  /\ timer = [a \in Albums |-> None]
  /\ stage = [g \in Goroutines |-> "idle"]
  /\ held = [g \in Goroutines |-> <<>>]
  /\ prompt = [g \in Goroutines |-> None]
  /\ used = [p \in Photos |-> {}]
  /\ told = {} /\ doubtful = {}
  /\ LimiterInit

-----------------------------------------------------------------------------

Moves(g, next) == stage' = [stage EXCEPT ![g] = next] /\ UNCHANGED <<held, prompt>>

Begins(g, next, photos, message) ==
  /\ stage' = [stage EXCEPT ![g] = next]
  /\ held' = [held EXCEPT ![g] = photos]
  /\ prompt' = [prompt EXCEPT ![g] = message]

Done(g) == Begins(g, "idle", <<>>, None)

(* peekPendingReferences and clearPendingReferences lock for themselves. *)
NoGap == "gap" \in Mishaps \/ \A h \in Handlers : stage[h] # "clearing"

appendPendingReferences(photos) == NoGap /\ pending' = pending \o photos

Receives(h, m) == stage[h] = "idle" /\ m \in inbox /\ inbox' = inbox \ {m}

-----------------------------------------------------------------------------
(* A message arrives: handleMessage and handlePhotoMessage.                *)

(* selectMode stores the session. *)
ChooseModel ==
  /\ ~chosen /\ chosen' = TRUE
  /\ UNCHANGED <<inbox, pending, albums, work, fates, limiterVars>>

\* Mutant: only the first photo of an album sets the timer.
StopTimer(p, a) ==
  [g \in Goroutines |-> IF g = p /\ timer[a] = None THEN "armed"
                        ELSE IF g = timer[a] /\ stage[g] = "armed" THEN "idle"
                        ELSE stage[g]]

(* Stop keeps a timer from firing, but does not call back one that has.    *)
(* Only the timer that the entry names can be stopped.                     *)
ResetTimer(p, a) ==
  [g \in Goroutines |-> IF g = p THEN "armed"
                        ELSE IF g = timer[a] /\ stage[g] = "armed" THEN "idle"
                        ELSE stage[g]]

\* Mutant: a photo without a caption erases the caption.
LastPrompt(p, a) == p

(* group.Prompt: the first caption counts. *)
FirstPrompt(p, a) == IF caption[a] = None /\ p \in Captioned THEN p ELSE caption[a]

collectMediaGroupPhoto(h, p) ==
  /\ p \in AlbumPhotos /\ Receives(h, p)
  /\ LET a == AlbumOf[p] IN
     /\ group' = [group EXCEPT ![a] = Append(@, p)]
     /\ caption' = [caption EXCEPT ![a] = FirstPrompt(p, a)]
     /\ timer' = [timer EXCEPT ![a] = p]
     /\ stage' = ResetTimer(p, a)
  /\ UNCHANGED <<chosen, pending, held, prompt, fates>>

KeepSingle(h, p) ==
  /\ p \in Single \ Captioned /\ Receives(h, p)
  /\ appendPendingReferences(<<p>>)
  /\ UNCHANGED <<chosen, albums, work, fates>>

TakeCaptioned(h, p) ==
  /\ p \in Single \cap Captioned /\ Receives(h, p)
  /\ Begins(h, "loading", <<p>>, p)
  /\ UNCHANGED <<chosen, pending, albums, fates>>

(* A text takes the pending photos.  Without a session, or when it cannot  *)
(* be read, the text is dropped.                                           *)
TakeText(h, t) ==
  /\ t \in Texts /\ Receives(h, t)
  /\ \/ /\ chosen /\ NoGap
        /\ Begins(h, IF pending = <<>> THEN "admitting" ELSE "clearing", pending, t)
     \/ ~chosen /\ UNCHANGED work
     \/ "db" \in Mishaps /\ UNCHANGED work
  /\ UNCHANGED <<chosen, pending, albums, fates>>

\* Mutant: the photos stay pending while they are worked on.
LeavePending(h) ==
  /\ stage[h] = "clearing"
  /\ Moves(h, "loading")
  /\ UNCHANGED <<inbox, chosen, pending, albums, fates>>

ClearPending(h) ==
  /\ stage[h] = "clearing"
  /\ pending' = <<>>
  /\ Moves(h, "loading")
  /\ UNCHANGED <<inbox, chosen, albums, fates>>

-----------------------------------------------------------------------------
(* flushMediaGroup, in the goroutine of the timer.                         *)

Fire(p) ==
  /\ stage[p] = "armed"
  /\ Moves(p, "flushing")
  /\ UNCHANGED <<inbox, chosen, pending, albums, fates>>

TakeGroup(p) ==
  /\ stage[p] = "flushing"
  /\ LET a == AlbumOf[p] IN
     /\ group' = [group EXCEPT ![a] = <<>>]
     /\ caption' = [caption EXCEPT ![a] = None]
     /\ timer' = [timer EXCEPT ![a] = None]
     /\ IF group[a] = <<>> THEN Done(p)
        ELSE Begins(p, IF caption[a] = None THEN "keeping" ELSE "loading", group[a], caption[a])
  /\ UNCHANGED <<inbox, chosen, pending, fates>>

KeepGroup(p) ==
  /\ stage[p] = "keeping"
  /\ appendPendingReferences(held[p])
  /\ Done(p)
  /\ UNCHANGED <<inbox, chosen, albums, fates>>

-----------------------------------------------------------------------------
(* processReferencePrompt and enqueueAsyncMediaPrompt.                     *)

(* The user learns that these photos are not used. *)
Tells(photos) == told' = told \cup {p \in photos : used[p] = {} /\ p \notin doubtful}

GivenUp(g) == Done(g) /\ Tells(InSeq(held[g])) /\ UNCHANGED <<used, doubtful>>

\* Mutant: nothing is put back.
OnlyReturns(g) == Done(g) /\ UNCHANGED fates

(* An error: handleMessage puts the photos that a text took back.  The     *)
(* callers for photos with a caption only drop it.                         *)
Fails(g) ==
  \/ prompt[g] \in Texts /\ held[g] # <<>> /\ Moves(g, "restoring") /\ UNCHANGED fates
  \/ ~(prompt[g] \in Texts /\ held[g] # <<>>) /\ GivenUp(g)

LoadSession(g) ==
  /\ stage[g] = "loading"
  /\ \/ chosen /\ Moves(g, "encoding") /\ UNCHANGED <<pending, fates>>
     \/ ~chosen /\ appendPendingReferences(held[g]) /\ Done(g) /\ UNCHANGED fates
     \/ "db" \in Mishaps /\ Fails(g) /\ UNCHANGED pending
  /\ UNCHANGED <<inbox, chosen, albums>>

Encode(g) ==
  /\ stage[g] = "encoding"
  /\ \/ Moves(g, "admitting") /\ UNCHANGED fates
     \/ "telegram" \in Mishaps /\ Fails(g)
  /\ UNCHANGED <<inbox, chosen, pending, albums>>

(* allowGenerationRequest *)
Admit(g) ==
  /\ stage[g] = "admitting"
  /\ \/ Allow /\ Moves(g, "moderating") /\ UNCHANGED fates
     \/ Deny /\ GivenUp(g)
  /\ UNCHANGED <<inbox, chosen, pending, albums>>

(* CheckPrompt and ensureConvID. *)
Moderate(g) ==
  /\ stage[g] = "moderating"
  /\ \/ Moves(g, "submitting") /\ UNCHANGED fates
     \/ "moderation" \in Mishaps /\ GivenUp(g)
     \/ Mishaps \cap {"moderation", "db"} # {} /\ Fails(g)
  /\ UNCHANGED <<inbox, chosen, pending, albums>>

(* referenceFileIDsForModeModel: the first ones, and a warning about the   *)
(* rest, which are put back like the others if there is an error.          *)
referenceFileIDs(g) == InSeq(SubSeq(held[g], 1, Lesser(Limit, Len(held[g]))))

Uses(g) ==
  used' = [p \in Photos |-> IF p \in referenceFileIDs(g) \ doubtful
                            THEN used[p] \cup {prompt[g]} ELSE used[p]]

(* submitAsyncGeneration commits; "accepted, it waits in the queue". *)
Accepted(g) ==
  /\ stage[g] = "submitting"
  /\ Uses(g)
  /\ Tells(InSeq(held[g]) \ referenceFileIDs(g))
  /\ Done(g)
  /\ UNCHANGED <<inbox, chosen, pending, albums, doubtful>>

(* Too few credits, or the job could not be queued. *)
TurnedDown(g) ==
  /\ stage[g] = "submitting"
  /\ Mishaps \cap {"credits", "db"} # {}
  /\ GivenUp(g)
  /\ UNCHANGED <<inbox, chosen, pending, albums>>

NotSubmitted(g) ==
  /\ stage[g] = "submitting"
  /\ "db" \in Mishaps
  /\ Fails(g)
  /\ UNCHANGED <<inbox, chosen, pending, albums>>

(* The commit went through, its answer did not. *)
SubmittedInDoubt(g) ==
  /\ stage[g] = "submitting"
  /\ "doubt" \in Mishaps
  /\ doubtful' = doubtful \cup InSeq(held[g])
  /\ IF prompt[g] \in Texts /\ held[g] # <<>> THEN Moves(g, "restoring") ELSE Done(g)
  /\ UNCHANGED <<used, told>>
  /\ UNCHANGED <<inbox, chosen, pending, albums>>

Restore(h) ==
  /\ stage[h] = "restoring"
  /\ appendPendingReferences(held[h])
  /\ Done(h)
  /\ UNCHANGED <<inbox, chosen, albums, fates>>

-----------------------------------------------------------------------------

Arrives(h) ==
  /\ \/ \E p \in Photos : collectMediaGroupPhoto(h, p) \/ KeepSingle(h, p) \/ TakeCaptioned(h, p)
     \/ \E t \in Texts : TakeText(h, t)
  /\ UNCHANGED limiterVars

Prepares(g) ==
  /\ ClearPending(g) \/ KeepGroup(g) \/ LoadSession(g) \/ Encode(g) \/ Moderate(g) \/ Restore(g)
  /\ UNCHANGED limiterVars

Submits(g) ==
  /\ Accepted(g) \/ TurnedDown(g) \/ NotSubmitted(g) \/ SubmittedInDoubt(g)
  /\ UNCHANGED limiterVars

Flushes(p) ==
  /\ Fire(p) \/ TakeGroup(p)
  /\ UNCHANGED limiterVars

Goes(g) == Prepares(g) \/ Admit(g) \/ Submits(g)

RefNext ==
  \/ ChooseModel
  \/ \E h \in Handlers : Arrives(h)
  \/ \E p \in AlbumPhotos : Flushes(p)
  \/ \E g \in Goroutines : Goes(g)
  \/ Tick /\ UNCHANGED refVars

dialogueVars == <<refVars, limiterVars>>

RefSpec == RefInit /\ [][RefNext]_dialogueVars

(* As long as a timer runs or a goroutine is at work, something goes on.   *)
(* Which one does not matter: none of them works for ever.                 *)
RefFairness ==
  WF_dialogueVars((\E g \in Goroutines : Goes(g)) \/ (\E p \in AlbumPhotos : Flushes(p)))

RefFairSpec == RefSpec /\ RefFairness

-----------------------------------------------------------------------------
(* What must be true.                                                      *)

(* A callback is going to take the photos of the album. *)
Tended(a) == \E p \in AlbumPhotos : AlbumOf[p] = a /\ stage[p] \in {"armed", "flushing"}

Kept(p) ==
  \/ p \in InSeq(pending)
  \/ \E a \in Albums : p \in InSeq(group[a]) /\ Tended(a)
  \/ \E g \in Goroutines : p \in InSeq(held[g]) /\ stage[g] # "idle"

Settled(p) == used[p] # {} \/ p \in told \cup doubtful

(* No photo gets lost on its way: it waits for a text, somebody has it or  *)
(* is going to take it, it was submitted, or the user knows that it is not *)
(* used, whichever of the steps fails and however timers and texts         *)
(* interleave.  (The calls of appendPendingReferences in handleMessage,    *)
(* flushMediaGroup and processReferencePrompt, the timer that every photo  *)
(* of an album sets anew.)                                                 *)
PhotoAccounted == \A p \in Photos \ inbox : Kept(p) \/ Settled(p)

(* No photo goes with two prompts, although errors put photos back and     *)
(* albums are flushed by several timers.  (peekPendingReferences, then     *)
(* clearPendingReferences; delete in flushMediaGroup.)                     *)
PhotoOnce == \A p \in Photos : \A s, t \in used[p] : s = t

(* Photos do not stay in an album or in the hands of a goroutine: in the   *)
(* end each one waits for a text or is settled.  (The timer that every     *)
(* photo of an album sets anew.)                                           *)
PhotosSettle == <>[](\A p \in Photos \ inbox : p \in InSeq(pending) \/ Settled(p))
=============================================================================
