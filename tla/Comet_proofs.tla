---------------------------- MODULE Comet_proofs ----------------------------
(***************************************************************************)
(* Proofs about Comet for any set of calls, requests and faults: types,    *)
(* that an output that was made and heard of is delivered, that nothing is *)
(* sent again or too late, and that Comet implements the safety part of    *)
(* ProviderCall.                                                           *)
(***************************************************************************)
EXTENDS Comet, TLAPS

-----------------------------------------------------------------------------
(* The inductive invariant, of one call.                                   *)

(* What was heard fits what is done next. *)
HeardFits(c) ==
  /\ pc[c] \in {"idle", "posting", "waiting", "backing off"} \cup Ends => heard[c] = "none"
  /\ pc[c] \in {"polling", "pausing"} => heard[c] = "running"
  /\ pc[c] = "reading" => heard[c] \in {"output", "empty", "broken"}

(* An open call has a protocol, and only some have tasks. *)
RouteFits(c) ==
  /\ Open(c) => route[c] \in Routes \ {"unsupported"}
  /\ fate[c] = "running" => route[c] \in TaskRoutes

(* A POST is left where one may be sent. *)
AttemptFits(c) ==
  /\ pc[c] = "idle" => attempt[c] = 0
  /\ pc[c] = "posting" => attempt[c] < Attempts

(* Who heard of an output, or could, can have it, and so has who returned  *)
(* with one; who did not ask, or got an error, has none, and nothing is    *)
(* done for a call that is not open.                                       *)
MadeFits(c) ==
  /\ heard[c] = "output" \/ fate[c] = "output" => c \in made
  /\ pc[c] = "ok" => c \in made
  /\ pc[c] \in {"idle", "failed", "gone"} => c \notin made
  /\ ~Open(c) => fate[c] = "none"

Fits(c) == HeardFits(c) /\ RouteFits(c) /\ AttemptFits(c) /\ MadeFits(c)

CallInv == TypeOK /\ \A c \in Calls : Fits(c)

-----------------------------------------------------------------------------
(* What the operators that steps are made of do.                           *)

(* Sending reaches the routes. *)
LEMMA RouteType ==
  ASSUME NEW request \in Asked
  PROVE  Route(request) \in Routes
<1>1. request.kind \in {"image", "video"} /\ request.model \in Models /\ request.refs \in {"none", "data", "link"}
  BY DEF Asked
<1>2. ImageRoute(request.model, request.refs) \in Routes
  BY <1>1 DEF ImageRoute, Routes
<1>3. VideoRoute(request.model) \in Routes
  BY <1>1 DEF VideoRoute, Routes
<1> QED
  BY <1>1, <1>2, <1>3 DEF Route

(* The lookups find the output wherever an answer names it. *)
LEMMA EveryPlaceFound ==
  ASSUME NEW r \in Routes \ {"unsupported"}, NEW place \in NamedAt(r)
  PROVE  FindsOutput(r, place)
<1>1. CASE r \in KlingRoutes
  <2>1. place \in OutputFields(r) \X (0 .. 4)
    BY <1>1 DEF NamedAt, KlingRoutes
  <2>2. KeptAt(r, place) = <<"result_url", 1>>
    BY <2>1 DEF KeptAt, FromRawJSON
  <2>3. <<"result_url", 1>> \in {"videos", "result_url"} \X (0 .. 3)
    OBVIOUS
  <2>4. <<"result_url", 1>> \in {"images", "result_url", "url", "image"} \X (0 .. 3)
    OBVIOUS
  <2>5. <<"result_url", 1>> \in KlingURL(r)
    BY <2>3, <2>4 DEF KlingURL, firstKlingVideoURL, firstKlingImageURL
  <2> QED
    BY <1>1, <2>2, <2>5 DEF FindsOutput, KlingRoutes
<1>2. CASE r \in {"images", "edits"}
  BY <1>2 DEF NamedAt, FindsOutput, KlingRoutes
<1>3. CASE r = "gemini"
  BY <1>3 DEF NamedAt, FindsOutput, KlingRoutes, firstGeminiImageDataURI
<1>4. CASE r = "chat"
  <2>1. place \in {"string", "parts", "text"} \X URLForms
    BY <1>4 DEF NamedAt, KlingRoutes
  <2>2. place \in extractMessageContentFirstURL \cup extractFirstImageReference
    BY <2>1 DEF extractMessageContentFirstURL, extractFirstImageReference
  <2> QED
    BY <1>4, <2>2 DEF FindsOutput, KlingRoutes
<1>5. CASE r = "video"
  BY <1>5 DEF NamedAt, FindsOutput, KlingRoutes, firstVideoURL
<1> QED
  BY <1>1, <1>2, <1>3, <1>4, <1>5 DEF Routes, KlingRoutes

(* A call that returns is over, the others stay as they are. *)
LEMMA ReturnFits ==
  ASSUME CallInv, NEW c \in Calls, NEW result \in Ends, Return(c, result), result = "ok" => c \in made
  PROVE  CallInv'
<1>1. TypeOK'
  <2>1. Ends \subseteq Stages /\ 0 \in 0 .. Attempts /\ "none" \in Fates
    BY DEF Stages, Ends, Fates, Attempts
  <2> QED
    BY <2>1 DEF CallInv, TypeOK, Return, Hear
<1>2. ASSUME NEW d \in Calls PROVE Fits(d)'
  <2>1. Fits(d)
    BY DEF CallInv
  <2>2. CASE d = c
    <3>1. /\ pc'[d] = result /\ heard'[d] = "none" /\ fate'[d] = "none"
          /\ d \in made' <=> result = "ok"
      BY <2>2 DEF Return, Hear, CallInv, TypeOK
    <3> QED
      BY <3>1 DEF Fits, HeardFits, RouteFits, AttemptFits, MadeFits, Open, Ends
  <2>3. CASE d # c
    <3>1. /\ pc'[d] = pc[d] /\ heard'[d] = heard[d] /\ fate'[d] = fate[d] /\ route'[d] = route[d] /\ attempt'[d] = attempt[d]
          /\ (d \in made' <=> d \in made)
      BY <2>3 DEF Return, Hear, CallInv, TypeOK
    <3> QED
      BY <2>1, <3>1 DEF Fits, HeardFits, RouteFits, AttemptFits, MadeFits, Open
  <2> QED
    BY <2>2, <2>3
<1> QED
  BY <1>1, <1>2 DEF CallInv

(* A call that goes on, having heard something fitting. *)
LEMMA GoesFits ==
  ASSUME CallInv, NEW c \in Calls, NEW s \in Stages \ Ends, NEW what \in Fates,
         Open(c), s # "idle",
         pc' = [pc EXCEPT ![c] = s], heard' = [heard EXCEPT ![c] = what],
         UNCHANGED <<route, attempt, late, fate, made>>,
         s \in {"posting", "waiting", "backing off"} => what = "none",
         s \in {"polling", "pausing"} => what = "running",
         s = "reading" => what \in {"output", "empty", "broken"},
         s = "posting" => attempt[c] < Attempts,
         what = "output" => fate[c] = "output" \/ heard[c] = "output"
  PROVE  CallInv'
<1>1. TypeOK'
  BY DEF CallInv, TypeOK
<1>2. ASSUME NEW d \in Calls PROVE Fits(d)'
  <2>1. Fits(d) /\ Fits(c)
    BY DEF CallInv
  <2>2. CASE d = c
    <3>1. pc'[d] = s /\ heard'[d] = what /\ fate'[d] = fate[d] /\ route'[d] = route[d] /\ attempt'[d] = attempt[d]
      BY <2>2 DEF CallInv, TypeOK
    <3>2. HeardFits(d)'
      BY <3>1 DEF HeardFits, Ends, Stages
    <3>3. RouteFits(d)'
      BY <2>1, <2>2, <3>1 DEF Fits, RouteFits
    <3>4. MadeFits(d)'
      BY <2>1, <2>2, <3>1 DEF Fits, MadeFits, Open, Ends
    <3>5. AttemptFits(d)'
      BY <2>2, <3>1 DEF AttemptFits
    <3> QED
      BY <3>2, <3>3, <3>4, <3>5 DEF Fits
  <2>3. CASE d # c
    <3>1. pc'[d] = pc[d] /\ heard'[d] = heard[d] /\ fate'[d] = fate[d] /\ route'[d] = route[d] /\ attempt'[d] = attempt[d]
      BY <2>3 DEF CallInv, TypeOK
    <3> QED
      BY <2>1, <3>1 DEF Fits, HeardFits, RouteFits, AttemptFits, MadeFits, Open
  <2> QED
    BY <2>2, <2>3
<1> QED
  BY <1>1, <1>2 DEF CallInv

(* Going on without having heard anything new. *)
LEMMA GotoFits ==
  ASSUME CallInv, NEW c \in Calls, NEW s \in Stages \ Ends, Open(c), s # "idle", Goto(c, s), UNCHANGED heard,
         s \in {"posting", "waiting", "backing off"} => heard[c] = "none",
         s \in {"polling", "pausing"} => heard[c] = "running",
         s # "reading", s = "posting" => attempt[c] < Attempts
  PROVE  CallInv'
<1>1. heard' = [heard EXCEPT ![c] = heard[c]] /\ heard[c] \in Fates
  BY DEF CallInv, TypeOK
<1> QED
  BY <1>1, GoesFits DEF Goto

-----------------------------------------------------------------------------
(* The steps keep the invariant.                                           *)

(* Starting a call. *)
LEMMA StartFits ==
  ASSUME CallInv, NEW c \in Calls, NEW request \in Asks, Start(c, request)
  PROVE  CallInv'
<1>1. CASE Return(c, "failed")
  BY <1>1, ReturnFits DEF Ends
<1>2. CASE /\ Route(request) # "unsupported"
           /\ pc' = [pc EXCEPT ![c] = "posting"] /\ route' = [route EXCEPT ![c] = Route(request)]
           /\ UNCHANGED <<attempt, late, heard, fate, made>>
  <2>1. pc[c] = "idle" /\ Route(request) \in Routes
    BY RouteType, ConstantsAssumption DEF Start, ConstantsAssumption
  <2>2. TypeOK'
    BY <1>2, <2>1 DEF CallInv, TypeOK, Stages
  <2>3. ASSUME NEW d \in Calls PROVE Fits(d)'
    <3>1. Fits(d) /\ Fits(c)
      BY DEF CallInv
    <3>2. CASE d = c
      <4>1. pc'[d] = "posting" /\ route'[d] = Route(request) /\ heard'[d] = heard[d] /\ fate'[d] = fate[d] /\ attempt'[d] = attempt[d]
        BY <1>2, <3>2 DEF CallInv, TypeOK
      <4>2. heard[d] = "none" /\ fate[d] = "none" /\ attempt[d] < Attempts
        <5>1. heard[d] = "none" /\ fate[d] = "none"
          BY <2>1, <3>1, <3>2 DEF Fits, HeardFits, MadeFits, Open, Ends
        <5>2. attempt[d] = 0
          BY <2>1, <3>1, <3>2 DEF Fits, AttemptFits
        <5> QED
          BY <5>1, <5>2 DEF Attempts
      <4> QED
        BY <1>2, <2>1, <4>1, <4>2 DEF Fits, HeardFits, RouteFits, AttemptFits, MadeFits, Open, Ends
    <3>3. CASE d # c
      <4>1. pc'[d] = pc[d] /\ heard'[d] = heard[d] /\ fate'[d] = fate[d] /\ route'[d] = route[d] /\ made' = made /\ attempt'[d] = attempt[d]
        BY <1>2, <3>3 DEF CallInv, TypeOK
      <4> QED
        BY <3>1, <4>1 DEF Fits, HeardFits, RouteFits, AttemptFits, MadeFits, Open
    <3> QED
      BY <3>2, <3>3
  <2> QED
    BY <2>2, <2>3 DEF CallInv
<1> QED
  BY <1>1, <1>2 DEF Start

(* Another POST. *)
LEMMA PostFits ==
  ASSUME CallInv, NEW c \in Calls, Post(c), pc[c] = "posting"
  PROVE  CallInv'
<1>1. TypeOK'
  <2>1. attempt[c] + 1 \in 0 .. Attempts
    BY DEF CallInv, TypeOK, Attempts, Fits, AttemptFits
  <2> QED
    BY <2>1 DEF Post, CallInv, TypeOK, Stages, Fates
<1>2. ASSUME NEW d \in Calls PROVE Fits(d)'
  <2>1. Fits(d) /\ Fits(c)
    BY DEF CallInv
  <2>2. CASE d = c
    <3>1. pc'[d] = "waiting" /\ route'[d] = route[d] /\ heard'[d] = heard[d] /\ fate'[d] = "none" /\ made' = made
      BY <2>2 DEF Post, CallInv, TypeOK
    <3>2. heard[d] = "none" /\ Open(d)
      BY <2>1, <2>2 DEF Fits, HeardFits, Open, Ends
    <3> QED
      BY <2>1, <2>2, <3>1, <3>2 DEF Fits, HeardFits, RouteFits, AttemptFits, MadeFits, Open, Ends
  <2>3. CASE d # c
    <3>1. pc'[d] = pc[d] /\ heard'[d] = heard[d] /\ fate'[d] = fate[d] /\ route'[d] = route[d] /\ made' = made /\ attempt'[d] = attempt[d]
      BY <2>3 DEF Post, CallInv, TypeOK
    <3> QED
      BY <2>1, <3>1 DEF Fits, HeardFits, RouteFits, AttemptFits, MadeFits, Open
  <2> QED
    BY <2>2, <2>3
<1> QED
  BY <1>1, <1>2 DEF CallInv

(* A step of the goroutine that made the call. *)
LEMMA CallFits ==
  ASSUME CallInv, NEW c \in Calls, CallStep(c)
  PROVE  CallInv'
<1>1. Fits(c) /\ attempt[c] \in 0 .. Attempts /\ heard[c] \in Fates /\ fate[c] \in Fates
  BY DEF CallInv, TypeOK
<1>2. {"failed", "ok"} \subseteq Ends /\ {"posting", "backing off", "polling", "pausing", "reading"} \subseteq Stages \ Ends
  BY DEF Ends, Stages
<1>3. CASE Return(c, "failed")
  BY <1>2, <1>3, ReturnFits
<1>4. CASE Send(c)
  BY <1>3, <1>4, PostFits DEF Send
<1>5. CASE BackOff(c)
  <2>1. CASE pc[c] = "backing off" /\ attempt[c] < Attempts /\ Goto(c, "posting") /\ UNCHANGED heard
    BY <1>1, <1>2, <2>1, GotoFits DEF Fits, HeardFits, Open, Ends
  <2> QED
    BY <1>3, <1>5, <2>1 DEF BackOff
<1>6. CASE HearAnswer(c) \/ HearGarbled(c) \/ HearBusy(c) \/ HearNoMore(c)
  <2>1. pc[c] = "waiting" /\ heard[c] = "none" /\ Open(c)
    BY <1>1, <1>6 DEF HearAnswer, HearGarbled, HearBusy, HearNoMore, Fits, HeardFits, Open, Ends
  <2>2. CASE Goto(c, "backing off") /\ UNCHANGED heard
    BY <1>2, <2>1, <2>2, GotoFits
  <2>3. CASE Hear(c, "running") /\ Goto(c, "polling")
    BY <1>2, <2>1, <2>3, GoesFits DEF Hear, Goto, Fates
  <2>4. CASE route[c] \notin TaskRoutes /\ fate[c] # "none" /\ Hear(c, fate[c]) /\ Goto(c, "reading")
    <3>1. fate[c] \in {"output", "empty", "broken"}
      BY <1>1, <2>4 DEF Fits, RouteFits, Fates
    <3> QED
      BY <1>1, <1>2, <2>1, <2>4, <3>1, GoesFits DEF Hear, Goto
  <2> QED
    BY <1>3, <1>6, <2>2, <2>3, <2>4 DEF HearAnswer, HearGarbled, HearBusy, HearNoMore
<1>7. CASE Polling(c)
  <2>1. CASE pc[c] = "polling" /\ Goto(c, "pausing") /\ UNCHANGED heard
    BY <1>1, <1>2, <2>1, GotoFits DEF Fits, HeardFits, Open, Ends
  <2>2. CASE pc[c] = "pausing" /\ Goto(c, "polling") /\ UNCHANGED heard
    BY <1>1, <1>2, <2>2, GotoFits DEF Fits, HeardFits, Open, Ends
  <2>3. CASE HearEnded(c)
    BY <1>1, <1>2, <2>3, GoesFits DEF HearEnded, Hear, Goto, Open, Ends
  <2> QED
    BY <1>3, <1>7, <2>1, <2>2, <2>3 DEF Polling, StillRunning, PollFails, Pause
<1>8. CASE ReadOutput(c)
  <2>1. c \in made
    BY <1>1, <1>8 DEF ReadOutput, Fits, MadeFits
  <2>2. Return(c, "failed") \/ Return(c, "ok")
    BY <1>8 DEF ReadOutput
  <2> QED
    BY <1>2, <1>3, <2>1, <2>2, ReturnFits
<1> QED
  BY <1>3, <1>4, <1>5, <1>6, <1>7, <1>8
     DEF CallStep, Posting, HearRefusal, Reading, ReadNothing, ReadBroken

(* A step of the provider. *)
LEMMA ProviderFits ==
  ASSUME CallInv, NEW c \in Calls, ProviderStep(c)
  PROVE  CallInv'
<1>1. Fits(c)
  BY DEF CallInv
<1>2. /\ UNCHANGED <<pc, route, attempt, late, heard>>
      /\ \E what \in {"running", "output", "empty", "broken"} :
           /\ fate' = [fate EXCEPT ![c] = what]
           /\ made' = IF what = "output" THEN made \cup {c} ELSE made
           /\ what = "running" => route[c] \in TaskRoutes
  BY DEF ProviderStep, Execute, EndTask
<1>3. PICK what \in {"running", "output", "empty", "broken"} :
        /\ fate' = [fate EXCEPT ![c] = what]
        /\ made' = IF what = "output" THEN made \cup {c} ELSE made
        /\ what = "running" => route[c] \in TaskRoutes
  BY <1>2
<1>4. Open(c)
  BY <1>1 DEF ProviderStep, Execute, EndTask, Fits, MadeFits
<1>5. TypeOK'
  BY <1>2, <1>3 DEF CallInv, TypeOK, Fates
<1>6. ASSUME NEW d \in Calls PROVE Fits(d)'
  <2>1. Fits(d)
    BY DEF CallInv
  <2>2. fate'[d] = IF d = c THEN what ELSE fate[d]
    BY <1>3 DEF CallInv, TypeOK
  <2>3. HeardFits(d)' /\ AttemptFits(d)'
    BY <1>2, <2>1 DEF Fits, HeardFits, AttemptFits
  <2>4. RouteFits(d)'
    BY <1>2, <1>3, <2>1, <2>2 DEF Fits, RouteFits, Open
  <2>5. MadeFits(d)'
    BY <1>2, <1>3, <1>4, <2>1, <2>2 DEF Fits, MadeFits, Open, Ends
  <2> QED
    BY <2>3, <2>4, <2>5 DEF Fits
<1> QED
  BY <1>5, <1>6 DEF CallInv

(* The context ends, or the call with its goroutine, or all of them. *)
LEMMA OutsideFits ==
  ASSUME CallInv, CancelAll \/ AbandonAll \/ \E c \in Calls : Deadline(c) \/ Abandon(c)
  PROVE  CallInv'
<1>1. CASE CancelAll \/ \E c \in Calls : Deadline(c)
  <2>1. UNCHANGED <<pc, route, attempt, heard, fate, made>> /\ late' \subseteq Calls
    BY <1>1 DEF CancelAll, Deadline, Cancel, CallInv, TypeOK
  <2> QED
    BY <2>1 DEF CallInv, TypeOK, Fits, HeardFits, RouteFits, AttemptFits, MadeFits, Open
<1>2. CASE \E c \in Calls : Abandon(c)
  BY <1>2, ReturnFits DEF Abandon, Ends
<1>3. CASE AbandonAll
  <2>1. TypeOK'
    <3>1. "gone" \in Stages /\ 0 \in 0 .. Attempts /\ "none" \in Fates
      BY DEF Stages, Ends, Fates, Attempts
    <3>2. pc' \in [Calls -> Stages] /\ made' \subseteq Calls /\ late' \subseteq Calls
      BY <1>3, <3>1 DEF AbandonAll, CallInv, TypeOK
    <3>3. /\ route' \in [Calls -> Routes \cup {"none"}] /\ attempt' \in [Calls -> 0 .. Attempts]
          /\ heard' \in [Calls -> Fates] /\ fate' \in [Calls -> Fates]
      BY <1>3, <3>1 DEF AbandonAll
    <3> QED
      BY <3>2, <3>3 DEF TypeOK
  <2>2. ASSUME NEW d \in Calls PROVE Fits(d)'
    <3>1. Fits(d)
      BY DEF CallInv
    <3>2. /\ pc'[d] = IF Open(d) THEN "gone" ELSE pc[d]
          /\ heard'[d] = "none" /\ fate'[d] = "none" /\ attempt'[d] = 0
          /\ d \in made' <=> d \in made /\ pc[d] = "ok"
      BY <1>3 DEF AbandonAll
    <3>3. pc'[d] \in {"idle"} \cup Ends /\ (pc'[d] = "idle" => pc[d] = "idle")
      BY <3>2 DEF Open, Ends
    <3> QED
      BY <3>1, <3>2, <3>3 DEF Fits, HeardFits, RouteFits, AttemptFits, MadeFits, Open, Ends
  <2> QED
    BY <2>1, <2>2 DEF CallInv
<1> QED
  BY <1>1, <1>2, <1>3

(* Every step keeps the invariant. *)
LEMMA CallInvStep == CallInv /\ [Next]_vars => CallInv'
<1> SUFFICES ASSUME CallInv, [Next]_vars PROVE CallInv'
  OBVIOUS
<1>1. CASE UNCHANGED vars
  BY <1>1 DEF vars, CallInv, TypeOK, Fits, HeardFits, RouteFits, AttemptFits, MadeFits, Open
<1> QED
  BY <1>1, StartFits, CallFits, ProviderFits, OutsideFits DEF Next

(* At the start nothing was asked. *)
LEMMA CallInvInit == Init => CallInv
BY DEF Init, CallInv, TypeOK, Fits, HeardFits, RouteFits, AttemptFits, MadeFits, Open, Stages, Ends,
       Fates, Attempts

(* The invariant holds in every reachable state. *)
THEOREM CometInvariance == Spec => []CallInv
BY CallInvInit, CallInvStep, PTL DEF Spec

(* Types, for any calls, requests and faults. *)
THEOREM CometTyped == Spec => []TypeOK
<1>1. CallInv => TypeOK
  BY DEF CallInv
<1> QED
  BY CometInvariance, <1>1, PTL

-----------------------------------------------------------------------------
(* What steps never do.                                                    *)

(* What the steps of one call do to another: nothing. *)
LEMMA OtherCalls ==
  ASSUME CallInv, NEW c \in Calls, NEW d \in Calls, d # c,
         CallStep(c) \/ ProviderStep(c) \/ Deadline(c) \/ Abandon(c) \/ \E request \in Asks : Start(c, request)
  PROVE  pc'[d] = pc[d] /\ attempt'[d] = attempt[d] /\ (d \in made' <=> d \in made)
<1> USE DEF CallInv, TypeOK
<1>1. CASE \E result \in Ends : Return(c, result)
  BY <1>1 DEF Return
<1>2. CASE \E s : Goto(c, s)
  BY <1>2 DEF Goto
<1>3. CASE ProviderStep(c) \/ Deadline(c)
  BY <1>3 DEF ProviderStep, Execute, EndTask, Deadline, Cancel
<1>4. CASE Post(c)
  BY <1>4 DEF Post
<1>5. CASE \E request \in Asks : Start(c, request) /\ ~Return(c, "failed")
  BY <1>5 DEF Start
<1>6. {"failed", "ok", "gone"} \subseteq Ends
  BY DEF Ends
<1>7. CASE Abandon(c) \/ \E request \in Asks : Start(c, request) /\ Return(c, "failed")
  BY <1>1, <1>6, <1>7 DEF Abandon
<1>8. CASE CallStep(c)
  <2>1. CASE Posting(c)
    BY <1>1, <1>2, <1>4, <1>6, <2>1
       DEF Posting, Send, HearAnswer, HearRefusal, HearGarbled, HearBusy, HearNoMore, BackOff
  <2>2. CASE Polling(c)
    BY <1>1, <1>2, <1>6, <2>2 DEF Polling, StillRunning, HearEnded, PollFails, Pause
  <2>3. CASE Reading(c)
    BY <1>1, <1>6, <2>3 DEF Reading, ReadOutput, ReadNothing, ReadBroken
  <2> QED
    BY <1>8, <2>1, <2>2, <2>3 DEF CallStep
<1> QED
  BY <1>3, <1>5, <1>7, <1>8

(* Attempts are only made by sending. *)
LEMMA OnlySending ==
  ASSUME CallInv, NEW c \in Calls, NEW d \in Calls,
         CallStep(c) \/ ProviderStep(c) \/ Deadline(c) \/ Abandon(c) \/ \E request \in Asks : Start(c, request)
  PROVE  attempt'[d] <= attempt[d] \/ (d = c /\ pc[c] = "posting" /\ c \notin late)
<1> attempt[d] \in Nat /\ attempt \in [Calls -> 0 .. Attempts]
  BY DEF CallInv, TypeOK, Attempts
<1> SUFFICES ASSUME d = c, ~(pc[c] = "posting" /\ c \notin late) PROVE attempt'[c] <= attempt[c]
  BY OtherCalls
<1>1. CASE \E result : Return(c, result)
  <2>1. attempt'[c] = 0
    BY <1>1 DEF Return
  <2> QED
    BY <2>1
<1>2. CASE \E s : Goto(c, s)
  BY <1>2 DEF Goto
<1>3. CASE ProviderStep(c) \/ Deadline(c)
  BY <1>3 DEF ProviderStep, Execute, EndTask, Deadline, Cancel
<1>4. CASE Abandon(c) \/ \E request \in Asks : Start(c, request)
  BY <1>1, <1>4 DEF Abandon, Start
<1>5. CASE CallStep(c)
  <2>1. CASE Posting(c)
    BY <1>1, <1>2, <2>1
       DEF Posting, Send, HearAnswer, HearRefusal, HearGarbled, HearBusy, HearNoMore, BackOff
  <2>2. CASE Polling(c)
    BY <1>1, <1>2, <2>2 DEF Polling, StillRunning, HearEnded, PollFails, Pause
  <2>3. CASE Reading(c)
    BY <1>1, <2>3 DEF Reading, ReadOutput, ReadNothing, ReadBroken
  <2> QED
    BY <1>5, <2>1, <2>2, <2>3 DEF CallStep
<1> QED
  BY <1>3, <1>4, <1>5

(* In every step, what was answered is not sent again, nor what is late. *)
LEMMA NothingSentInVain ==
  ASSUME CallInv, [Next]_vars, NEW d \in Calls, heard[d] # "none" \/ d \in late
  PROVE  attempt'[d] <= attempt[d]
<1> attempt[d] \in Nat
  BY DEF CallInv, TypeOK, Attempts
<1>1. ~(pc[d] = "posting" /\ d \notin late)
  BY DEF CallInv, Fits, HeardFits
<1>2. CASE CancelAll \/ UNCHANGED vars
  BY <1>2 DEF CancelAll, Cancel, vars
<1>3. CASE AbandonAll
  <2>1. attempt'[d] = 0
    BY <1>3 DEF AbandonAll
  <2> QED
    BY <2>1
<1> QED
  BY <1>1, <1>2, <1>3, OnlySending DEF Next

(* What the provider has answered is not asked for again, whatever the     *)
(* protocol, the faults and the order of the answers.                      *)
THEOREM AnsweredCallsNotResent == Spec => AnsweredNotResent
<1>1. CallInv /\ [Next]_vars => \A c \in Calls : heard[c] # "none" => attempt'[c] <= attempt[c]
  BY NothingSentInVain
<1> QED
  BY CometInvariance, <1>1, PTL DEF Spec, AnsweredNotResent

(* No call sends a POST once its context is done. *)
THEOREM LateCallsSendNothing == Spec => LateSendsNothing
<1>1. CallInv /\ [Next]_vars => \A c \in late : attempt'[c] <= attempt[c]
  <2>1. CallInv => late \subseteq Calls
    BY DEF CallInv, TypeOK
  <2> QED
    BY <2>1, NothingSentInVain
<1> QED
  BY CometInvariance, <1>1, PTL DEF Spec, LateSendsNothing

(* An output that was heard of stays, is delivered, or goes down with the  *)
(* goroutine: the lookups find it wherever it is named.                    *)
LEMMA HeardDelivered ==
  ASSUME CallInv, [Next]_vars, NEW d \in Calls, heard[d] = "output"
  PROVE  pc'[d] \in {"reading", "ok", "gone"}
<1>1. pc[d] = "reading" /\ Open(d) /\ Fits(d)
  BY DEF CallInv, TypeOK, Fits, HeardFits, Stages, Open, Ends
<1>2. CASE CancelAll \/ UNCHANGED vars
  BY <1>1, <1>2 DEF CancelAll, Cancel, vars
<1>3. CASE AbandonAll
  BY <1>1, <1>3 DEF AbandonAll
<1>4. CASE ReadOutput(d)
  <2>1. route[d] \in Routes \ {"unsupported"}
    BY <1>1 DEF Fits, RouteFits
  <2>2. PICK place \in NamedAt(route[d]) : Return(d, IF FindsOutput(route[d], place) THEN "ok" ELSE "failed")
    BY <1>4 DEF ReadOutput
  <2>3. Return(d, "ok")
    BY <2>1, <2>2, EveryPlaceFound
  <2> QED
    BY <2>3 DEF Return, CallInv, TypeOK
<1>5. CASE ProviderStep(d) \/ Deadline(d)
  BY <1>1, <1>5 DEF ProviderStep, Execute, EndTask, Deadline, Cancel
<1>6. CASE Abandon(d)
  BY <1>6 DEF Abandon, Return, CallInv, TypeOK
<1>7. ~\E request \in Asks : Start(d, request)
  BY <1>1 DEF Start
<1>8. CallStep(d) => ReadOutput(d)
  BY <1>1 DEF CallStep, Posting, Send, HearAnswer, HearRefusal, HearGarbled, HearBusy, HearNoMore, BackOff,
              Polling, StillRunning, HearEnded, PollFails, Pause, Reading, ReadNothing, ReadBroken
<1> QED
  BY <1>1, <1>2, <1>3, <1>4, <1>5, <1>6, <1>7, <1>8, OtherCalls DEF Next

(* No output that the provider made and the client has heard of is lost    *)
(* between the protocols and the lookups in their answers.                 *)
THEOREM HeardIsDelivered == Spec => FinishedIsDelivered
<1>1. CallInv /\ [Next]_vars =>
        \A c \in Calls : heard[c] = "output" => pc'[c] \in {"reading", "ok", "gone"}
  BY HeardDelivered
<1> QED
  BY CometInvariance, <1>1, PTL DEF Spec, FinishedIsDelivered

-----------------------------------------------------------------------------
(* Comet implements the safety part of ProviderCall.                       *)

(* How one call was answered. *)
AnswerOf(c) ==
  CASE pc[c] = "idle" -> "none"
    [] pc[c] = "ok"   -> "output"
    [] Open(c)        -> "open"
    [] OTHER          -> "error"

(* The answers are those of the calls. *)
LEMMA AnswersAre ==
  /\ answer = [d \in Calls |-> answer[d]]
  /\ \A d \in Calls : answer[d] = AnswerOf(d)
<1>1. answer = [d \in Calls |-> AnswerOf(d)]
  BY DEF answer, AnswerOf
<1> QED
  BY <1>1

(* A step that changes one call changes its answer only. *)
LEMMA AnswerChanges ==
  ASSUME TypeOK, NEW c \in Calls, NEW s \in Stages, pc' = [pc EXCEPT ![c] = s]
  PROVE  answer' = [answer EXCEPT ![c] = AnswerOf(c)']
<1>1. ASSUME NEW d \in Calls, d # c PROVE AnswerOf(d)' = AnswerOf(d)
  <2>1. pc'[d] = pc[d]
    BY <1>1 DEF TypeOK
  <2> QED
    BY <2>1 DEF AnswerOf, Open
<1>2. answer' = [d \in Calls |-> AnswerOf(d)'] /\ answer = [d \in Calls |-> AnswerOf(d)]
  BY DEF answer, AnswerOf, Open
<1> QED
  BY <1>1, <1>2

(* And one that leaves a call open changes nothing. *)
LEMMA StaysOpen ==
  ASSUME TypeOK, NEW c \in Calls, NEW s \in Stages \ Ends, s # "idle", Open(c), pc' = [pc EXCEPT ![c] = s],
         UNCHANGED made
  PROVE  UNCHANGED <<answer, made>>
<1>1. AnswerOf(c) = "open" /\ AnswerOf(c)' = "open"
  BY DEF AnswerOf, Open, Ends, TypeOK
<1>2. answer[c] = "open" /\ answer = [d \in Calls |-> answer[d]]
  BY <1>1, AnswersAre
<1>3. answer' = [answer EXCEPT ![c] = AnswerOf(c)']
  BY AnswerChanges
<1>4. answer' = [answer EXCEPT ![c] = "open"]
  BY <1>1, <1>3
<1>5. answer' = answer
  BY <1>2, <1>4
<1> QED
  BY <1>5

(* Nothing of the calls' stages changes, so no answer does. *)
LEMMA StagesStay ==
  ASSUME UNCHANGED pc
  PROVE  UNCHANGED answer
BY DEF answer, Open

(* A call that returns gives up or delivers. *)
LEMMA ReturnAnswers ==
  ASSUME CallInv, NEW c \in Calls, Open(c), NEW result \in Ends, Return(c, result),
         result = "ok" => c \in made
  PROVE  Promised!Deliver(c) \/ Promised!GiveUp(c)
<1>1. pc' = [pc EXCEPT ![c] = result] /\ result \in Stages /\ TypeOK
  BY DEF Return, Ends, Stages, CallInv
<1>2. answer' = [answer EXCEPT ![c] = AnswerOf(c)']
  BY <1>1, AnswerChanges
<1>3. AnswerOf(c)' = IF result = "ok" THEN "output" ELSE "error"
  BY <1>1 DEF AnswerOf, Open, Ends, TypeOK
<1>4. answer[c] = "open"
  BY DEF answer, Open, Ends
<1>5. made' = IF result = "ok" THEN made ELSE made \ {c}
  BY DEF Return
<1> QED
  BY <1>2, <1>3, <1>4, <1>5 DEF Promised!Deliver, Promised!GiveUp

(* Starting asks, or turns down. *)
LEMMA StartAnswers ==
  ASSUME CallInv, NEW c \in Calls, NEW request \in Asks, Start(c, request)
  PROVE  Promised!Ask(c) \/ Promised!TurnDown(c)
<1>1. pc[c] = "idle" /\ answer[c] = "none" /\ c \notin made /\ TypeOK
  <2>1. pc[c] = "idle" /\ TypeOK /\ c \notin made
    BY DEF Start, CallInv, Fits, MadeFits
  <2>2. AnswerOf(c) = "none"
    BY <2>1 DEF AnswerOf, Open, Ends
  <2> QED
    BY <2>1, <2>2, AnswersAre
<1>2. CASE Return(c, "failed")
  <2>1. pc' = [pc EXCEPT ![c] = "failed"] /\ "failed" \in Stages /\ made' = made \ {c}
    BY <1>2 DEF Return, Ends, Stages
  <2>2. AnswerOf(c)' = "error"
    BY <2>1, <1>1 DEF AnswerOf, Open, Ends, TypeOK
  <2>3. made' = made
    BY <1>1, <2>1
  <2> QED
    BY <1>1, <2>1, <2>2, <2>3, AnswerChanges DEF Promised!TurnDown
<1>3. CASE pc' = [pc EXCEPT ![c] = "posting"] /\ UNCHANGED made
  <2>1. AnswerOf(c)' = "open" /\ "posting" \in Stages
    BY <1>1, <1>3 DEF AnswerOf, Open, Ends, TypeOK, Stages
  <2> QED
    BY <1>1, <1>3, <2>1, AnswerChanges DEF Promised!Ask
<1> QED
  BY <1>2, <1>3 DEF Start

(* The steps of an open call. *)
LEMMA CallAnswers ==
  ASSUME CallInv, NEW c \in Calls, CallStep(c)
  PROVE  Promised!Deliver(c) \/ Promised!GiveUp(c) \/ UNCHANGED <<answer, made>>
<1>1. TypeOK /\ Fits(c)
  BY DEF CallInv
<1>2. Open(c)
  BY DEF CallStep, Posting, Send, HearAnswer, HearRefusal, HearGarbled, HearBusy, HearNoMore, BackOff,
         Polling, StillRunning, HearEnded, PollFails, Pause, Reading, ReadOutput, ReadNothing, ReadBroken,
         Open, Ends
<1>3. {"failed", "ok"} \subseteq Ends
      /\ {"posting", "waiting", "backing off", "polling", "pausing", "reading"} \subseteq Stages \ (Ends \cup {"idle"})
  BY DEF Ends, Stages
<1>4. CASE Return(c, "failed")
  BY <1>2, <1>3, <1>4, ReturnAnswers
<1>5. CASE \E s \in {"posting", "waiting", "backing off", "polling", "pausing", "reading"} :
             pc' = [pc EXCEPT ![c] = s] /\ UNCHANGED made
  BY <1>1, <1>2, <1>3, <1>5, StaysOpen
<1>6. CASE Posting(c)
  BY <1>4, <1>5, <1>6
     DEF Posting, Send, Post, HearAnswer, HearRefusal, HearGarbled, HearBusy, HearNoMore, BackOff, Goto
<1>7. CASE Polling(c)
  BY <1>4, <1>5, <1>7 DEF Polling, StillRunning, HearEnded, PollFails, Pause, Goto
<1>8. CASE Reading(c)
  <2>1. CASE ReadOutput(c)
    <3>1. c \in made
      BY <1>1, <2>1 DEF ReadOutput, Fits, MadeFits
    <3>2. Return(c, "ok") \/ Return(c, "failed")
      BY <2>1 DEF ReadOutput
    <3> QED
      BY <1>2, <1>3, <3>1, <3>2, ReturnAnswers
  <2> QED
    BY <1>4, <1>8, <2>1 DEF Reading, ReadNothing, ReadBroken
<1> QED
  BY <1>6, <1>7, <1>8 DEF CallStep

(* The provider makes outputs. *)
LEMMA ProviderAnswers ==
  ASSUME CallInv, NEW c \in Calls, ProviderStep(c)
  PROVE  Promised!Make(c) \/ UNCHANGED <<answer, made>>
<1>1. UNCHANGED answer
  BY StagesStay DEF ProviderStep, Execute, EndTask
<1>2. made' = made \/ made' = made \cup {c}
  BY DEF ProviderStep, Execute, EndTask
<1>3. Open(c)
  <2>1. CASE fate[c] = "running"
    BY <2>1 DEF CallInv, Fits, MadeFits
  <2> QED
    BY <2>1 DEF ProviderStep, Execute, EndTask
<1>4. answer[c] = "open"
  BY <1>3 DEF answer, Open, Ends
<1> QED
  BY <1>1, <1>2, <1>4 DEF Promised!Make

(* Abandoned calls are given up. *)
LEMMA AbandonAnswers ==
  ASSUME CallInv, AbandonAll
  PROVE  Promised!GiveUpAll
<1>1. answer' = [c \in Calls |-> IF answer[c] = "open" THEN "error" ELSE answer[c]]
  <2>1. \A c \in Calls : pc'[c] = IF Open(c) THEN "gone" ELSE pc[c]
    BY DEF AbandonAll
  <2>2. \A c \in Calls : AnswerOf(c)' = IF AnswerOf(c) = "open" THEN "error" ELSE AnswerOf(c)
    BY <2>1 DEF AnswerOf, Open, Ends
  <2>3. answer' = [d \in Calls |-> AnswerOf(d)'] /\ answer = [d \in Calls |-> AnswerOf(d)]
    BY DEF answer, AnswerOf, Open
  <2> QED
    BY <2>2, <2>3
<1>2. made' = {c \in made : answer[c] # "open"}
  <2>1. ASSUME NEW c \in made PROVE answer[c] # "open" <=> pc[c] = "ok"
    <3>1. c \in Calls /\ pc[c] \notin {"idle", "failed", "gone"}
      BY DEF CallInv, TypeOK, Fits, MadeFits
    <3>2. answer[c] = AnswerOf(c)
      BY <3>1 DEF answer, AnswerOf
    <3> QED
      BY <3>1, <3>2 DEF AnswerOf, Open, Ends
  <2> QED
    BY <2>1 DEF AbandonAll
<1> QED
  BY <1>1, <1>2 DEF Promised!GiveUpAll

(* Every step of Comet is one of ProviderCall, or changes nothing there. *)
LEMMA StepAnswers == CallInv /\ [Next]_vars => [Promised!Next]_(Promised!vars)
<1> SUFFICES ASSUME CallInv, [Next]_vars PROVE Promised!Next \/ UNCHANGED <<answer, made>>
  BY DEF Promised!vars
<1>1. CASE CancelAll \/ UNCHANGED vars \/ \E c \in Calls : Deadline(c)
  BY <1>1, StagesStay DEF CancelAll, Deadline, Cancel, vars
<1>2. CASE AbandonAll
  BY <1>2, AbandonAnswers DEF Promised!Next
<1>3. CASE \E c \in Calls : Abandon(c)
  <2>1. PICK c \in Calls : Open(c) /\ Return(c, "gone")
    BY <1>3 DEF Abandon
  <2> QED
    BY <2>1, ReturnAnswers DEF Promised!Next, Ends
<1>4. CASE \E c \in Calls, request \in Asks : Start(c, request)
  BY <1>4, StartAnswers DEF Promised!Next
<1>5. CASE \E c \in Calls : CallStep(c) \/ ProviderStep(c)
  BY <1>5, CallAnswers, ProviderAnswers DEF Promised!Next
<1> QED
  BY <1>1, <1>2, <1>3, <1>4, <1>5 DEF Next

(* The client keeps the promise of provider.ModelProvider, for any number  *)
(* of calls and under every fault: each is answered at most once, and with *)
(* an output only if one was made for it.  (That it is answered at all is  *)
(* liveness and left to the model checker.)                                *)
THEOREM CometKeepsPromise == Spec => Promised!Spec
<1>1. Init => Promised!Init
  <2> SUFFICES ASSUME Init PROVE Promised!Init
    OBVIOUS
  <2>1. \A c \in Calls : AnswerOf(c) = "none"
    BY DEF Init, AnswerOf, Open, Ends
  <2>2. answer = [c \in Calls |-> "none"]
    BY <2>1, AnswersAre
  <2> QED
    BY <2>2 DEF Init, Promised!Init
<1> QED
  BY <1>1, CometInvariance, StepAnswers, PTL DEF Spec, Promised!Spec
=============================================================================
