------------------------------- MODULE Comet -------------------------------
(***************************************************************************)
(* The client of the Comet API (pkg/provider/comet/client.go), which makes *)
(* the outputs of generations.  A call of Generate picks one of several    *)
(* HTTP protocols for the model asked for.  Either one POST answers with   *)
(* the output, or it creates a task that is polled until it has ended.  A  *)
(* POST that fails is sent again, at most Attempts times, without telling  *)
(* the provider that it is the same one; the context of the job limits the *)
(* whole call.                                                             *)
(*                                                                         *)
(* The provider is external: fate[c] is what became of the latest POST,    *)
(* whether or not the client has heard of it.  What it does for a call     *)
(* that has ended is not followed.  Durations are left out, the deadline   *)
(* is an event.                                                            *)
(***************************************************************************)
EXTENDS Integers

CONSTANTS
  Calls,       \* calls of Generate
  Asks,        \* the requests they are made with
  NetFaults    \* what the network and the provider may do, see NetFaultKinds

\* "network" an answer does not arrive      "busy"  429 or a 5xx answer
\* "garbled" an answer cannot be used       "stuck" a task without a known status
NetFaultKinds == {"network", "busy", "garbled", "stuck"}

-----------------------------------------------------------------------------
(* Which protocol serves a request.  Models are reduced to the families    *)
(* the code tells apart; references are data URIs, or links, or absent.    *)
(* Jobs ask for images and videos only; the protocol for text has no other *)
(* caller.                                                                 *)

Models == {"gpt-image", "gemini-image", "imagen", "kling image",
           "kling video", "task video", "other"}

Asked == [kind : {"image", "video"}, model : Models, refs : {"none", "data", "link"}]

ImageRoute(model, refs) ==
  CASE model = "kling image"                      -> "kling image"
    [] model = "gemini-image" /\ refs # "link"    -> "gemini"
    [] model = "gpt-image" /\ refs = "data"       -> "edits"
    [] model = "gpt-image" /\ refs = "link"       -> "unsupported"
    [] model \in {"gpt-image", "imagen"} /\ refs = "none" -> "images"
    [] OTHER                                      -> "chat"

VideoRoute(model) ==
  CASE model = "kling video" -> "kling video"
    [] model = "task video"  -> "video"
    [] OTHER                 -> "unsupported"

Route(request) ==
  CASE request.kind = "image" -> ImageRoute(request.model, request.refs)
    [] request.kind = "video" -> VideoRoute(request.model)

Routes == {"images", "gemini", "edits", "chat", "video", "kling video",
           "kling image", "unsupported"}

TaskRoutes  == {"video", "kling video", "kling image"}
KlingRoutes == {"kling video", "kling image"}

(* The routes that send with postJSON; the others do not send again when   *)
(* the JSON of an answer breaks off.                                       *)
JSONRoutes == {"chat", "images", "gemini"}

-----------------------------------------------------------------------------
(* Where an answer may name its output.  A Kling answer has it in a field  *)
(* of the envelope itself or under so many levels of "data"; level 4       *)
(* stands for all that klingVideoTaskEnvelope does not spell out.  An      *)
(* answer of the chat has it in its content or in the text beside it, the  *)
(* others in one of a few fields.                                          *)

OutputFields(route) ==
  {"result_url", "url"} \cup (IF route = "kling video" THEN {"videos"} ELSE {"images", "image"})

URLForms == {"link", "data URI"}

NamedAt(route) ==
  CASE route \in KlingRoutes         -> OutputFields(route) \X (0..4)
    [] route \in {"images", "edits"} -> {"url", "b64_json"}
    [] route = "gemini"              -> {"inlineData", "inline_data"}
    [] route = "chat"                -> {"string", "parts", "text"} \X URLForms
    [] route = "video"               -> ({"url", "output_url", "content_url"} \X (0..1))
                                          \cup {<<"nowhere", 0>>}

firstKlingVideoURL ==
  ({"videos", "result_url"} \X (0..3)) \cup ({"url"} \X (0..2))

firstKlingImageURL == {"images", "result_url", "url", "image"} \X (0..3)

(* The first image with data that is not part of a thought. *)
firstGeminiImageDataURI == {"inlineData", "inline_data"}

(* A string, or parts that are searched to a depth of ten. *)
extractMessageContentFirstURL == {"string", "parts"} \X URLForms

extractFirstImageReference == {"text"} \X URLForms

(* The content endpoint of the task serves what no field names. *)
firstVideoURL == ({"url", "output_url", "content_url"} \X (0..1)) \cup {<<"nowhere", 0>>}

KlingURL(route) == IF route = "kling video" THEN firstKlingVideoURL ELSE firstKlingImageURL

(* firstKlingURLFromRawJSON searches the whole body. *)
FromRawJSON(route) == OutputFields(route) \X (0..4)

\* Mutant: what the search finds is kept where the video lookup does not look.
KeptAtTaskResult(route, place) == IF place \in FromRawJSON(route) THEN <<"url", 3>> ELSE place

(* ... and its find is kept in Data.ResultURL. *)
KeptAt(route, place) == IF place \in FromRawJSON(route) THEN <<"result_url", 1>> ELSE place

FindsOutput(route, place) ==
  CASE route \in KlingRoutes         -> place \in KlingURL(route) \/ KeptAt(route, place) \in KlingURL(route)
    [] route \in {"images", "edits"} -> place \in {"url", "b64_json"}
    [] route = "gemini"              -> place \in firstGeminiImageDataURI
    [] route = "chat"                -> place \in extractMessageContentFirstURL \cup extractFirstImageReference
    [] route = "video"               -> place \in firstVideoURL

-----------------------------------------------------------------------------

ASSUME ConstantsAssumption ==
  /\ Asks \subseteq Asked
  /\ NetFaults \subseteq NetFaultKinds

Attempts == 3

VARIABLES
  pc,       \* what the call does next
  route,    \* the protocol that serves it
  attempt,  \* POSTs sent so far
  late,     \* calls whose context is done
  heard,    \* the last usable answer to an open call
  fate,     \* external: what became of the latest POST
  made      \* external: calls an output was made for that was not lost

vars == <<pc, route, attempt, late, heard, fate, made>>

Ends == {"ok", "failed", "gone"}

Stages == {"idle", "posting", "waiting", "backing off", "polling", "pausing", "reading"} \cup Ends

Fates == {"none", "running", "output", "empty", "broken"}

TypeOK ==
  /\ pc \in [Calls -> Stages]
  /\ route \in [Calls -> Routes \cup {"none"}]
  /\ attempt \in [Calls -> 0..Attempts]
  /\ late \subseteq Calls
  /\ heard \in [Calls -> Fates]
  /\ fate \in [Calls -> Fates]
  /\ made \subseteq Calls

Init ==
  /\ pc = [c \in Calls |-> "idle"]
  /\ route = [c \in Calls |-> "none"]
  /\ attempt = [c \in Calls |-> 0]
  /\ late = {}
  /\ heard = [c \in Calls |-> "none"]
  /\ fate = [c \in Calls |-> "none"]
  /\ made = {}

Open(c) == pc[c] \notin {"idle"} \cup Ends

Goto(c, stage) ==
  /\ pc' = [pc EXCEPT ![c] = stage]
  /\ UNCHANGED <<route, attempt, late, fate, made>>

Hear(c, what) == heard' = [heard EXCEPT ![c] = what]

(* Generate returns.  Of a call that failed nothing is left. *)
Return(c, result) ==
  /\ pc' = [pc EXCEPT ![c] = result]
  /\ route' = [route EXCEPT ![c] = "none"]
  /\ attempt' = [attempt EXCEPT ![c] = 0]
  /\ late' = late \ {c}
  /\ Hear(c, "none")
  /\ fate' = [fate EXCEPT ![c] = "none"]
  /\ made' = IF result = "ok" THEN made ELSE made \ {c}

-----------------------------------------------------------------------------
(* The POST and its repetitions: postJSON, postMultipart, createVideoTask, *)
(* createKlingVideoTask and createKlingImageTask share this loop.          *)

Start(c, request) ==
  /\ pc[c] = "idle"
  /\ \/ Route(request) = "unsupported" /\ Return(c, "failed")
     \/ /\ Route(request) # "unsupported"
        /\ pc' = [pc EXCEPT ![c] = "posting"]
        /\ route' = [route EXCEPT ![c] = Route(request)]
        /\ UNCHANGED <<attempt, late, heard, fate, made>>

(* One more POST; whatever became of the one before is not asked any more. *)
Post(c) ==
  /\ pc' = [pc EXCEPT ![c] = "waiting"]
  /\ attempt' = [attempt EXCEPT ![c] = @ + 1]
  /\ fate' = [fate EXCEPT ![c] = "none"]
  /\ UNCHANGED <<route, late, heard, made>>

\* Mutant: ctx.Err() is not asked at the head of the loop.
SendAnyway(c) == pc[c] = "posting" /\ Post(c)

Send(c) ==
  /\ pc[c] = "posting"
  /\ \/ c \in late /\ Return(c, "failed")
     \/ c \notin late /\ Post(c)

(* A usable answer: the id of a task, or all there will be. *)
HearAnswer(c) ==
  /\ pc[c] = "waiting"
  /\ fate[c] # "none"
  /\ \/ /\ route[c] \in TaskRoutes
        /\ Hear(c, "running") /\ Goto(c, "polling")
     \/ /\ route[c] \notin TaskRoutes
        /\ Hear(c, fate[c]) /\ Goto(c, "reading")

(* Any other 4xx, or an error in the body of a 200. *)
HearRefusal(c) ==
  /\ pc[c] = "waiting"
  /\ fate[c] = "none"
  /\ Return(c, "failed")

(* A 2xx answer that cannot be used.  Only postJSON sends again, and only  *)
(* when the JSON broke off and an attempt is left.                         *)
HearGarbled(c) ==
  /\ "garbled" \in NetFaults
  /\ pc[c] = "waiting"
  /\ fate[c] # "none"
  /\ \/ Return(c, "failed")
     \/ /\ route[c] \in JSONRoutes /\ attempt[c] < Attempts
        /\ Goto(c, "backing off") /\ UNCHANGED heard

(* 429 and 5xx.  A gateway may say so of a request that goes on behind it. *)
HearBusy(c) ==
  /\ "busy" \in NetFaults
  /\ pc[c] = "waiting"
  /\ Goto(c, "backing off") /\ UNCHANGED heard

(* The connection breaks, or http.Client.Timeout or the context ends it. *)
HearNoMore(c) ==
  /\ pc[c] = "waiting"
  /\ "network" \in NetFaults \/ c \in late
  /\ Goto(c, "backing off") /\ UNCHANGED heard

\* Mutant: the loop makes one attempt too many.
BackOffOnceMore(c) ==
  /\ pc[c] = "backing off"
  /\ \/ attempt[c] <= Attempts /\ Goto(c, "posting") /\ UNCHANGED heard
     \/ attempt[c] > Attempts /\ Return(c, "failed")
     \/ c \in late /\ Return(c, "failed")

(* computeBackoff and sleepContext: a wait of zero, which Retry-After can  *)
(* ask for, does not look at the context.                                  *)
BackOff(c) ==
  /\ pc[c] = "backing off"
  /\ \/ attempt[c] < Attempts /\ Goto(c, "posting") /\ UNCHANGED heard
     \/ attempt[c] = Attempts /\ Return(c, "failed")
     \/ c \in late /\ Return(c, "failed")

-----------------------------------------------------------------------------
(* Polling: waitVideoComplete, waitKlingVideoComplete, -ImageComplete.     *)

(* A status that is none of the listed ones counts as still running. *)
StillRunning(c) ==
  /\ pc[c] = "polling" /\ c \notin late
  /\ fate[c] = "running" \/ "stuck" \in NetFaults
  /\ Goto(c, "pausing") /\ UNCHANGED heard

HearEnded(c) ==
  /\ pc[c] = "polling" /\ c \notin late
  /\ fate[c] \in {"output", "empty", "broken"}
  /\ Hear(c, fate[c]) /\ Goto(c, "reading")

(* One status request that fails, in any way, gives up the whole call. *)
PollFails(c) ==
  /\ pc[c] = "polling"
  /\ c \in late \/ NetFaults \cap {"network", "busy", "garbled"} # {}
  /\ Return(c, "failed")

Pause(c) ==
  /\ pc[c] = "pausing"
  /\ \/ Goto(c, "polling") /\ UNCHANGED heard
     \/ c \in late /\ Return(c, "failed")

-----------------------------------------------------------------------------
(* Reading the answer: the generate... functions.                          *)

(* The call ends well only if the output is found in the answer. *)
ReadOutput(c) ==
  /\ pc[c] = "reading"
  /\ heard[c] = "output"
  /\ \E place \in NamedAt(route[c]) :
       Return(c, IF FindsOutput(route[c], place) THEN "ok" ELSE "failed")

\* Mutant: an answer without an output is asked for again.
AskAgain(c) ==
  /\ pc[c] = "reading"
  /\ heard[c] = "empty"
  /\ Goto(c, "backing off") /\ UNCHANGED heard

(* No output in it: blocked by safety rules, text only, no URL. *)
ReadNothing(c) ==
  /\ pc[c] = "reading"
  /\ heard[c] = "empty"
  /\ Return(c, "failed")

\* Mutant: a failed task counts as one that has ended, and its URL is given out.
BrokenIsEnded(c) ==
  /\ pc[c] = "reading"
  /\ heard[c] = "broken"
  /\ Return(c, "ok")

ReadBroken(c) ==
  /\ pc[c] = "reading"
  /\ heard[c] = "broken"
  /\ Return(c, "failed")

-----------------------------------------------------------------------------
(* The context of a job ends: its timeout, or a shutdown for every job. *)
Cancel(S) ==
  /\ late' = late \cup S
  /\ UNCHANGED <<pc, route, attempt, heard, fate, made>>

Deadline(c) == Open(c) /\ c \notin late /\ Cancel({c})

(* The root context: calls that begin afterwards are late from the start. *)
CancelAll == Cancel({c \in Calls : pc[c] \notin Ends})

(* The goroutine of the call panics, or the process ends with all of them. *)
Abandon(c) == Open(c) /\ Return(c, "gone")

AbandonAll ==
  /\ pc' = [c \in Calls |-> IF Open(c) THEN "gone" ELSE pc[c]]
  /\ route' = [c \in Calls |-> "none"]
  /\ attempt' = [c \in Calls |-> 0]
  /\ late' = {}
  /\ heard' = [c \in Calls |-> "none"]
  /\ fate' = [c \in Calls |-> "none"]
  /\ made' = {c \in made : pc[c] = "ok"}

(* The provider executes the latest POST, maybe after the client gave it   *)
(* up and while it waits to send the next one.                             *)
Execute(c) ==
  /\ Open(c) /\ attempt[c] > 0
  /\ fate[c] = "none" /\ heard[c] = "none"
  /\ \/ /\ route[c] \in TaskRoutes
        /\ fate' = [fate EXCEPT ![c] = "running"] /\ UNCHANGED made
     \/ /\ route[c] \notin TaskRoutes
        /\ \/ fate' = [fate EXCEPT ![c] = "output"] /\ made' = made \cup {c}
           \/ fate' = [fate EXCEPT ![c] = "empty"] /\ UNCHANGED made
  /\ UNCHANGED <<pc, route, attempt, late, heard>>

EndTask(c) ==
  /\ fate[c] = "running"
  /\ \/ fate' = [fate EXCEPT ![c] = "output"] /\ made' = made \cup {c}
     \/ fate' = [fate EXCEPT ![c] = "broken"] /\ UNCHANGED made
     \/ /\ route[c] \in KlingRoutes
        /\ fate' = [fate EXCEPT ![c] = "empty"] /\ UNCHANGED made
  /\ UNCHANGED <<pc, route, attempt, late, heard>>

-----------------------------------------------------------------------------

Posting(c) ==
  \/ Send(c) \/ HearAnswer(c) \/ HearRefusal(c) \/ HearGarbled(c)
  \/ HearBusy(c) \/ HearNoMore(c) \/ BackOff(c)

Polling(c) == StillRunning(c) \/ HearEnded(c) \/ PollFails(c) \/ Pause(c)

Reading(c) == ReadOutput(c) \/ ReadNothing(c) \/ ReadBroken(c)

CallStep(c) == Posting(c) \/ Polling(c) \/ Reading(c)

ProviderStep(c) == Execute(c) \/ EndTask(c)

Next ==
  \/ \E c \in Calls, request \in Asks : Start(c, request)
  \/ \E c \in Calls : CallStep(c) \/ ProviderStep(c) \/ Deadline(c) \/ Abandon(c)
  \/ CancelAll \/ AbandonAll

Spec == Init /\ [][Next]_vars

(* The goroutine goes on, and every context has a timeout                  *)
(* (generation.timeoutForJob).  Nothing is asked of the provider.          *)
Fairness == \A c \in Calls : WF_vars(CallStep(c)) /\ WF_vars(Deadline(c))

FairSpec == Spec /\ Fairness

-----------------------------------------------------------------------------
(* What must be true.                                                      *)

answer ==
  [c \in Calls |-> CASE pc[c] = "idle" -> "none"
                     [] pc[c] = "ok"   -> "output"
                     [] Open(c)        -> "open"
                     [] OTHER          -> "error"]

Promised == INSTANCE ProviderCall WITH outputs <- made

(* Every call of Generate comes back, once, whatever the provider answers  *)
(* or fails to answer, and it comes back with an output only if the        *)
(* provider made one for this call.  (The loops of post... and wait...,    *)
(* which end with the context.)                                            *)
CallsAnswered == Promised!FairSpec

(* An output is delivered wherever in the answer it is named: the lookups  *)
(* by field and the search of the raw JSON miss no place between them, and *)
(* only a panic or the end of the process comes in between.                *)
(* (getKlingVideoStatus, firstKling...URL, generateImage.., generateVideo.) *)
FinishedIsDelivered ==
  [][\A c \in Calls : heard[c] = "output" => pc'[c] \in {"reading", "ok", "gone"}]_vars

(* What the provider has answered is not asked for again: a second POST,   *)
(* which the provider would execute and bill once more, only follows       *)
(* silence, a broken-off answer or an overloaded provider.                 *)
AnsweredNotResent == [][\A c \in Calls : heard[c] # "none" => attempt'[c] <= attempt[c]]_vars

(* No POST is sent once the job has run out of time, not even after a wait *)
(* that did not look at the context.                                       *)
LateSendsNothing == [][\A c \in late : attempt'[c] <= attempt[c]]_vars
=============================================================================
