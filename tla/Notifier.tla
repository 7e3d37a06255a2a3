------------------------------ MODULE Notifier ------------------------------
(***************************************************************************)
(* Reminders and broadcasts (internal/notifier/service.go).  One goroutine *)
(* runs a cycle every 30 seconds: for each kind of reminder it reads who   *)
(* is due, marks each of them and then writes to them; after that it takes *)
(* one batch of one broadcast, writes to its recipients one by one and     *)
(* saves how far it came.  Reminders are marked before they are sent and   *)
(* may get lost; broadcasts are saved after they were sent and may repeat. *)
(***************************************************************************)
EXTENDS Integers, FiniteSets

CONSTANTS
  Users,           \* ids of users rows
  Campaigns,       \* ids of broadcast_campaigns rows
  Kinds,           \* reminders are numbered in the order of processLifecycleNotifications
  Recurring,       \* kinds that come again after the user was active (reactivation)
  MayBeDue,        \* bound: the reminders whose time comes
  MaxActivity,     \* Users -> Nat, bound: how often a row of users is updated
  LifecycleBatch,  \* lifecycleBatchSize
  BroadcastBatch,  \* broadcastBatchSize
  Faults,          \* what the environment may do, see FaultKinds
  Nobody, NoCampaign

\* "db"    a statement fails, applied or not   "crash" the process dies
\* "stop"  graceful shutdown cancels the context
FaultKinds == {"db", "crash", "stop"}

ASSUME ConstantsAssumption ==
  /\ Users \subseteq Nat \ {0}
  /\ Campaigns \subseteq Nat
  /\ Kinds \in Nat
  /\ Recurring \subseteq 1 .. Kinds
  /\ MayBeDue \subseteq (1 .. Kinds) \X Users
  /\ MaxActivity \in [Users -> Nat]
  /\ LifecycleBatch \in Nat \ {0} /\ BroadcastBatch \in Nat \ {0}
  /\ Faults \subseteq FaultKinds
  /\ Nobody \notin Users /\ NoCampaign \notin Campaigns

VARIABLES
  users,     \* rows of users
  banned,    \* users.is_banned
  active,    \* users.updated_at: how often the row was updated
  when,      \* [kind, user]: "early", "due" or, once they generated or paid, "never"
  mark,      \* user_notification_state: [kind, user] -> what is marked, -1 for NULL
  status,    \* broadcast_campaigns.status, "none" before the row exists
  last,      \* broadcast_campaigns.last_user_id
  stale,     \* campaigns with updated_at < now() - runningCampaignTTL
  pc,        \* what the goroutine does next
  kind,      \* the reminder it works on
  todo,      \* due users still to be handled, with the anchors as they were read
  whom,      \* the one who was just marked
  campaign,  \* the broadcast it works on
  batch,     \* recipients still to be written to
  upto,      \* lastUserID
  mode,      \* "up", "stopping" (context cancelled) or "down"
  told,      \* history: reminders sent, <<kind, user, anchor>>
  twice,     \* history: reminders sent again for the same anchor
  reached,   \* history: broadcasts sent, <<campaign, user>>
  excused    \* history: <<campaign, user>>, absent at its start or banned since

people    == <<users, banned, active, when>>
campaigns == <<status, last, stale>>
reminding == <<kind, todo, whom>>
sending   == <<campaign, batch, upto>>
history   == <<told, twice, reached, excused>>
vars      == <<people, mark, campaigns, pc, reminding, sending, mode, history>>

Marks == (1 .. Kinds) \X Users
Times == UNION {0 .. MaxActivity[u] : u \in Users}
Due   == [user : Users, anchor : Times]

Stages == {"idle", "querying", "marking", "telling", "claiming", "listing",
           "writing", "saving", "finishing", "failing"}

PeopleOK ==
  /\ users \subseteq Users /\ banned \subseteq users
  /\ active \in [Users -> Times]
  /\ when \in [Marks -> {"early", "due", "never"}]

CampaignsOK ==
  /\ status \in [Campaigns -> {"none", "pending", "running", "done", "failed"}]
  /\ last \in [Campaigns -> Users \cup {0}]
  /\ stale \subseteq Campaigns

RemindingOK ==
  /\ mark \in [Marks -> Times \cup {-1}]
  /\ kind \in 1 .. Kinds + 1
  /\ todo \subseteq Due
  /\ whom \in Due \cup {Nobody}
  /\ pc = "telling" => whom \in Due
  /\ pc \in {"marking", "telling"} => kind <= Kinds

SendingOK ==
  /\ campaign \in Campaigns \cup {NoCampaign}
  /\ pc \in {"listing", "writing", "saving", "finishing", "failing"} => campaign \in Campaigns
  /\ batch \subseteq Users
  /\ upto \in Users \cup {0}

HistoryOK ==
  /\ twice \subseteq told /\ told \subseteq (1 .. Kinds) \X Users \X Times
  /\ reached \subseteq Campaigns \X Users /\ excused \subseteq Campaigns \X Users

TypeOK ==
  /\ PeopleOK /\ CampaignsOK /\ RemindingOK /\ SendingOK /\ HistoryOK
  /\ pc \in Stages /\ mode \in {"up", "stopping", "down"}

Init ==
  /\ users = {} /\ banned = {}
  /\ active = [u \in Users |-> 0]
  /\ when = [r \in Marks |-> "early"]
  /\ mark = [r \in Marks |-> -1]
  /\ status = [c \in Campaigns |-> "none"]
  /\ last = [c \in Campaigns |-> 0]
  /\ stale = {}
  /\ pc = "idle"
  /\ kind = 1 /\ todo = {} /\ whom = Nobody
  /\ campaign = NoCampaign /\ batch = {} /\ upto = 0
  /\ mode = "up"
  /\ told = {} /\ twice = {} /\ reached = {} /\ excused = {}

-----------------------------------------------------------------------------
(* Users and administrators.                                               *)

Started == {c \in Campaigns : status[c] # "none"}

(* BIGSERIAL: a new user has the highest id. *)
Register(u) ==
  /\ mode # "down"
  /\ u \notin users /\ \A v \in users : v < u
  /\ users' = users \cup {u}
  /\ excused' = excused \cup (Started \X {u})
  /\ UNCHANGED <<banned, active, when, mark, campaigns, pc, reminding, sending, mode, told, twice, reached>>

(* trg_users_set_updated: every UPDATE of the row counts as activity. *)
Touch(u) ==
  /\ active[u] < MaxActivity[u]
  /\ active' = [active EXCEPT ![u] = @ + 1]
  /\ when' = [r \in Marks |-> IF r[1] \in Recurring /\ r[2] = u THEN "early" ELSE when[r]]

Act(u) ==
  /\ mode # "down"
  /\ u \in users
  /\ Touch(u)
  /\ UNCHANGED <<users, banned, mark, campaigns, pc, reminding, sending, mode, history>>

(* The first generation ends the onboarding reminder, the first paid order *)
(* the no-purchase reminder.                                               *)
Engage(k, u) ==
  /\ mode # "down"
  /\ u \in users
  /\ k \notin Recurring /\ <<k, u>> \in MayBeDue
  /\ when[<<k, u>>] # "never"
  /\ when' = [when EXCEPT ![<<k, u>>] = "never"]
  /\ UNCHANGED <<users, banned, active, mark, campaigns, pc, reminding, sending, mode, history>>

(* Hours and days pass. *)
TimePasses(k, u) ==
  /\ u \in users
  /\ <<k, u>> \in MayBeDue
  /\ when[<<k, u>>] = "early"
  /\ when' = [when EXCEPT ![<<k, u>>] = "due"]
  /\ UNCHANGED <<users, banned, active, mark, campaigns, pc, reminding, sending, mode, history>>

(* SetBanByTGID *)
Ban(u) ==
  /\ mode # "down"
  /\ u \in users \ banned
  /\ Touch(u)
  /\ banned' = banned \cup {u}
  /\ excused' = excused \cup (Started \X {u})
  /\ UNCHANGED <<users, mark, campaigns, pc, reminding, sending, mode, told, twice, reached>>

Unban(u) ==
  /\ mode # "down"
  /\ u \in banned
  /\ Touch(u)
  /\ banned' = banned \ {u}
  /\ UNCHANGED <<users, mark, campaigns, pc, reminding, sending, mode, history>>

EnqueueBroadcast(c) ==
  /\ mode # "down"
  /\ status[c] = "none" /\ \A d \in Campaigns : d < c => status[d] # "none"
  /\ status' = [status EXCEPT ![c] = "pending"]
  /\ excused' = excused \cup ({c} \X (banned \cup (Users \ users)))
  /\ UNCHANGED <<people, mark, last, stale, pc, reminding, sending, mode, told, twice, reached>>

-----------------------------------------------------------------------------
(* A statement of the goroutine succeeds, fails, or is executed although   *)
(* its answer is an error.  Under a cancelled context nothing is executed. *)

Outcomes ==
  IF mode = "stopping" THEN {[ok |-> FALSE, done |-> FALSE]}
  ELSE {[ok |-> TRUE, done |-> TRUE]}
       \cup [ok : {FALSE}, done : IF "db" \in Faults THEN BOOLEAN ELSE {}]

(* The first n of a set of users in the order of their ids. *)
FirstOf(n, S) == {u \in S : Cardinality({v \in S : v < u}) < n}

-----------------------------------------------------------------------------
(* processLifecycleNotifications: one kind after the other.                *)

StartCycle ==
  /\ mode # "down"
  /\ pc = "idle"
  /\ pc' = "querying" /\ kind' = 1
  /\ UNCHANGED <<people, mark, campaigns, todo, whom, sending, mode, history>>

(* Mutant: the moment of the reminder is marked, not that of the activity. *)
MarksNow(k, u) == IF k \in Recurring THEN active[u] + 1 ELSE 0

AnchorOf(k, u) == IF k \in Recurring THEN active[u] ELSE 0

Unmarked(k) == {u \in users \ banned : when[<<k, u>>] = "due" /\ mark[<<k, u>>] < AnchorOf(k, u)}

(* queryDueUsers.  Which users come first when more are due than fit does  *)
(* not matter here.  A failure ends the reminders of this cycle.           *)
QueryDue(o) ==
  /\ mode # "down"
  /\ pc = "querying" /\ kind <= Kinds
  /\ IF o.ok
     THEN /\ \E S \in SUBSET Unmarked(kind) :
               /\ Cardinality(S) <= LifecycleBatch
               /\ S = Unmarked(kind) \/ Cardinality(S) = LifecycleBatch
               /\ todo' = {[user |-> u, anchor |-> AnchorOf(kind, u)] : u \in S}
          /\ pc' = "marking" /\ UNCHANGED kind
     ELSE pc' = "claiming" /\ todo' = {} /\ kind' = Kinds + 1
  /\ UNCHANGED <<people, mark, campaigns, whom, sending, mode, history>>

(* Mutant: a mark whose statement failed is taken for set. *)
MarkPresumed(d, o) ==
  /\ mode # "down"
  /\ pc = "marking" /\ d \in todo
  /\ mark' = [mark EXCEPT ![<<kind, d.user>>] = IF o.done THEN d.anchor ELSE @]
  /\ pc' = "telling" /\ whom' = d
  /\ todo' = todo \ {d}
  /\ UNCHANGED <<people, campaigns, kind, sending, mode, history>>

(* claimOnboarding1h, claimNoPurchase24h, claimReactivation7d and 15d: who *)
(* was not marked by this statement, for certain, is not written to.       *)
MarkReminder(d, o) ==
  /\ mode # "down"
  /\ pc = "marking" /\ d \in todo
  /\ LET unmarked == mark[<<kind, d.user>>] < d.anchor
     IN /\ mark' = [mark EXCEPT ![<<kind, d.user>>] = IF o.done /\ unmarked THEN d.anchor ELSE @]
        /\ IF o.ok /\ unmarked
           THEN pc' = "telling" /\ whom' = d
           ELSE UNCHANGED <<pc, whom>>
  /\ todo' = todo \ {d}
  /\ UNCHANGED <<people, campaigns, kind, sending, mode, history>>

(* sendText; its error is only logged. *)
Tell ==
  /\ mode # "down"
  /\ pc = "telling"
  /\ LET message == <<kind, whom.user, whom.anchor>>
     IN /\ told' = told \cup {message}
        /\ twice' = twice \cup (told \cap {message})
  /\ pc' = "marking" /\ whom' = Nobody
  /\ UNCHANGED <<people, mark, campaigns, kind, todo, sending, mode, reached, excused>>

NextKind ==
  /\ mode # "down"
  /\ pc = "marking" /\ todo = {}
  /\ kind' = kind + 1
  /\ pc' = IF kind = Kinds THEN "claiming" ELSE "querying"
  /\ UNCHANGED <<people, mark, campaigns, todo, whom, sending, mode, history>>

-----------------------------------------------------------------------------
(* processBroadcastBatch                                                   *)

Idle ==
  /\ pc' = "idle" /\ kind' = 1 /\ todo' = {} /\ whom' = Nobody
  /\ campaign' = NoCampaign /\ batch' = {} /\ upto' = 0

(* Mutant: a campaign left running is not claimed again. *)
PendingOnly == {c \in Campaigns : status[c] = "pending"}

Claimable == {c \in Campaigns : \/ status[c] = "pending"
                                \/ status[c] = "running" /\ c \in stale}

(* claimBroadcastCampaign *)
ClaimCampaign(o) ==
  /\ mode # "down"
  /\ pc = "claiming"
  /\ \E c \in Claimable :
       /\ \A d \in Claimable : c <= d
       /\ status' = [status EXCEPT ![c] = IF o.done THEN "running" ELSE @]
       /\ stale' = IF o.done THEN stale \ {c} ELSE stale
       /\ IF o.ok
          THEN pc' = "listing" /\ campaign' = c /\ upto' = last[c] /\ UNCHANGED <<reminding, batch>>
          ELSE Idle
  /\ UNCHANGED <<people, mark, last, mode, history>>

NothingToSend ==
  /\ mode # "down"
  /\ pc = "claiming"
  /\ mode = "up" => Claimable = {}
  /\ Idle
  /\ UNCHANGED <<people, mark, campaigns, mode, history>>

(* Mutant: id >= $1 *)
FromLast == FirstOf(BroadcastBatch, {u \in users \ banned : u >= last[campaign]})

Recipients == FirstOf(BroadcastBatch, {u \in users \ banned : u > last[campaign]})

(* Mutant: the progress is saved before the batch is sent. *)
SavesFirst(o) ==
  /\ mode # "down"
  /\ pc = "listing"
  /\ batch' = IF o.ok THEN Recipients ELSE {}
  /\ pc' = IF ~o.ok THEN "failing" ELSE IF Recipients = {} THEN "finishing" ELSE "writing"
  /\ \E u \in batch' \cup {last[campaign]} :
       /\ \A v \in batch' : v <= u
       /\ last' = [last EXCEPT ![campaign] = u]
  /\ UNCHANGED <<people, mark, status, stale, reminding, campaign, upto, mode, history>>

(* listBroadcastRecipients *)
ListRecipients(o) ==
  /\ mode # "down"
  /\ pc = "listing"
  /\ batch' = IF o.ok THEN Recipients ELSE {}
  /\ pc' = IF ~o.ok THEN "failing" ELSE IF Recipients = {} THEN "finishing" ELSE "writing"
  /\ UNCHANGED <<people, mark, campaigns, reminding, campaign, upto, mode, history>>

(* sendText to the next recipient; who cannot be reached is only counted.  *)
(* A shutdown noticed in the pause after a message ends the batch early.   *)
WriteNext(u) ==
  /\ mode # "down"
  /\ pc = "writing"
  /\ u \in FirstOf(1, batch)
  /\ reached' = reached \cup {<<campaign, u>>}
  /\ upto' = u
  /\ batch' = IF mode = "stopping" THEN {} ELSE batch \ {u}
  /\ pc' = IF batch' = {} THEN "saving" ELSE "writing"
  /\ UNCHANGED <<people, mark, campaigns, reminding, campaign, mode, told, twice, excused>>

(* UPDATE broadcast_campaigns ... WHERE id = $1 AND status = 'running', at *)
(* the end of the cycle, whether it succeeds or not.                       *)
Close(o, state, progress) ==
  /\ mode # "down"
  /\ LET done == o.done /\ status[campaign] = "running"
     IN /\ status' = [status EXCEPT ![campaign] = IF done THEN state ELSE @]
        /\ last' = [last EXCEPT ![campaign] = IF done THEN progress ELSE @]
        /\ stale' = IF done THEN stale \ {campaign} ELSE stale
  /\ Idle
  /\ UNCHANGED <<people, mark, mode, history>>

SaveProgress(o)   == pc = "saving" /\ Close(o, "pending", upto)
FinishCampaign(o) == pc = "finishing" /\ Close(o, "done", last[campaign])
FailCampaign(o)   == pc = "failing" /\ Close(o, "failed", last[campaign])

(* runningCampaignTTL passes. *)
BecomesStale(c) ==
  /\ status[c] = "running" /\ c \notin stale
  /\ stale' = stale \cup {c}
  /\ UNCHANGED <<people, mark, status, last, pc, reminding, sending, mode, history>>

-----------------------------------------------------------------------------
(* Shutdown, crash and restart of the process.                             *)

Stop ==
  /\ "stop" \in Faults
  /\ mode = "up"
  /\ mode' = "stopping"
  /\ UNCHANGED <<people, mark, campaigns, pc, reminding, sending, history>>

(* Start's loop sees the cancelled context, or Wait runs out of time. *)
Exit ==
  /\ mode = "stopping"
  /\ mode' = "down"
  /\ Idle
  /\ UNCHANGED <<people, mark, campaigns, history>>

Crash ==
  /\ "crash" \in Faults
  /\ mode = "up"
  /\ mode' = "down"
  /\ Idle
  /\ UNCHANGED <<people, mark, campaigns, history>>

Restart ==
  /\ mode = "down"
  /\ mode' = "up"
  /\ UNCHANGED <<people, mark, campaigns, pc, reminding, sending, history>>

-----------------------------------------------------------------------------
World ==
  \/ \E u \in Users : Register(u) \/ Act(u) \/ Ban(u) \/ Unban(u)
  \/ \E k \in 1 .. Kinds, u \in Users : Engage(k, u) \/ TimePasses(k, u)
  \/ \E c \in Campaigns : EnqueueBroadcast(c) \/ BecomesStale(c)

Goroutine(o) ==
  \/ QueryDue(o)
  \/ \E d \in todo : MarkReminder(d, o)
  \/ ClaimCampaign(o) \/ ListRecipients(o)
  \/ SaveProgress(o) \/ FinishCampaign(o) \/ FailCampaign(o)

Unfailing == StartCycle \/ Tell \/ NextKind \/ NothingToSend \/ \E u \in batch : WriteNext(u)

Next ==
  \/ World
  \/ Unfailing \/ \E o \in Outcomes : Goroutine(o)
  \/ Stop \/ Exit \/ Crash \/ Restart

Spec == Init /\ [][Next]_vars

(* The goroutine runs, time passes, and neither the claim of a broadcast   *)
(* nor the statement at its end fails every time it is tried.              *)
Works == [ok |-> TRUE, done |-> TRUE]
Closed == SaveProgress(Works) \/ FinishCampaign(Works) \/ FailCampaign(Works)

Fairness ==
  /\ WF_vars(Unfailing \/ \E o \in Outcomes : Goroutine(o))
  /\ \A c \in Campaigns : WF_vars(BecomesStale(c))
  /\ SF_vars(mode = "up" /\ ClaimCampaign(Works))
  /\ SF_vars(mode = "up" /\ Closed)

FairSpec == Spec /\ Fairness

-----------------------------------------------------------------------------
(* Nobody gets the same reminder twice for the same silence, whatever      *)
(* fails between the mark and the message (claimReactivation7d and its     *)
(* siblings mark first).                                                   *)
ToldOnce == twice = {}

(* When a broadcast is done it was sent to everyone who was there at its   *)
(* start and has not been banned since, however many times its batches     *)
(* were broken off (last_user_id moves only behind what was sent).         *)
NobodySkipped ==
  \A c \in Campaigns : status[c] = "done" =>
    \A u \in Users : <<c, u>> \in reached \cup excused

(* A batch goes through the ids upwards and starts behind the saved        *)
(* progress: nobody is written to twice in it, only a batch whose save     *)
(* failed is repeated, and each save moves on, never back.                 *)
(* (listBroadcastRecipients, id > $1 ORDER BY id; lastUserID.)             *)
SavedNotRepeated ==
  /\ pc = "writing" => last[campaign] <= upto /\ \A u \in batch : u > upto
  /\ pc = "saving" => last[campaign] < upto

(* A broadcast ends, unless the process keeps going down: campaigns left   *)
(* running are claimed again when runningCampaignTTL has passed.           *)
CampaignEnds ==
  \A c \in Campaigns :
    status[c] \in {"pending", "running"} ~> status[c] \in {"done", "failed"} \/ mode # "up"
=============================================================================
