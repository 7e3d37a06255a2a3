-------------------------- MODULE Notifier_proofs --------------------------
(***************************************************************************)
(* Proofs about Notifier for any users, campaigns, kinds of reminders and  *)
(* batch sizes, and any set of faults: its types, that a reminder is told  *)
(* once, and that a finished broadcast skipped nobody.                     *)
(***************************************************************************)
EXTENDS Notifier, FiniteSetTheorems, WellFoundedInduction, TLAPS

-----------------------------------------------------------------------------
(* FirstOf: the ORDER BY id LIMIT of the queries.                          *)

(* A set of ids that is not empty has a least one. *)
LEMMA Least ==
  ASSUME NEW S \in SUBSET Nat, S # {}
  PROVE  \E m \in S : \A v \in S : ~(v < m)
<1>1. PICK m \in S : \A v \in S : ~ (<<v, m>> \in OpToRel(<, Nat))
  BY NatLessThanWellFounded, WFMin
<1> QED
  BY <1>1 DEF OpToRel

(* Only finitely many ids are below an id. *)
LEMMA Below ==
  ASSUME NEW S \in SUBSET Nat, NEW u \in Nat
  PROVE  IsFiniteSet({v \in S : v < u})
<1> DEFINE V == {v \in S : v < u}
<1>1. ASSUME NEW v \in V PROVE v \in Nat /\ v < u
  BY <1>1
<1> HIDE DEF V
<1>2. V \in SUBSET Nat /\ \A v \in V : v <= u
  BY <1>1
<1>3. IsFiniteSet(V)
  BY <1>2, FS_BoundedSetOfNaturals
<1> QED
  BY <1>3 DEF V

(* Nobody is first only if there is nobody. *)
LEMMA FirstOfEmpty ==
  ASSUME NEW S \in SUBSET Nat, NEW n \in Nat \ {0}, FirstOf(n, S) = {}
  PROVE  S = {}
<1> SUFFICES ASSUME S # {} PROVE FALSE
  OBVIOUS
<1>1. PICK m \in S : \A v \in S : ~(v < m)
  BY Least
<1>2. {v \in S : v < m} = {}
  BY <1>1
<1>3. Cardinality({v \in S : v < m}) = 0
  BY <1>2, FS_EmptySet
<1> QED
  BY <1>3 DEF FirstOf

(* Who comes before one of the first is one of them. *)
LEMMA FirstOfDown ==
  ASSUME NEW S \in SUBSET Nat, NEW n \in Nat, NEW u \in FirstOf(n, S), NEW v \in S, v < u
  PROVE  v \in FirstOf(n, S)
<1> u \in S /\ u \in Nat /\ v \in Nat
  BY DEF FirstOf
<1> DEFINE V == {w \in S : w < v}
           U == {w \in S : w < u}
<1>1. V \in SUBSET U
  <2> SUFFICES ASSUME NEW w \in V PROVE w \in S /\ w < u
    OBVIOUS
  <2>1. w \in S /\ w < v /\ w \in Nat
    OBVIOUS
  <2> QED
    BY <2>1
<1>2. IsFiniteSet(U) /\ IsFiniteSet(V)
  BY Below
<1>3. Cardinality(U) < n
  BY DEF FirstOf
<1> HIDE DEF U, V
<1>4. Cardinality(V) \in Nat /\ Cardinality(U) \in Nat /\ Cardinality(V) <= Cardinality(U)
  BY <1>1, <1>2, FS_Subset, FS_CardinalityType
<1>5. Cardinality(V) < n
  BY <1>3, <1>4
<1> QED
  BY <1>5 DEF FirstOf, V

(* The first one comes before all others. *)
LEMMA FirstIsLeast ==
  ASSUME NEW S \in SUBSET Nat, NEW u \in FirstOf(1, S)
  PROVE  u \in S /\ \A v \in S : u <= v
<1>1. u \in S /\ u \in Nat /\ Cardinality({v \in S : v < u}) < 1
  BY DEF FirstOf
<1> DEFINE U == {v \in S : v < u}
<1>2. IsFiniteSet(U)
  BY <1>1, Below
<1>3. Cardinality(U) < 1
  BY <1>1
<1> HIDE DEF U
<1>4. Cardinality(U) = 0
  BY <1>2, <1>3, FS_CardinalityType
<1>5. U = {}
  BY <1>2, <1>4, FS_EmptySet
<1> QED
  BY <1>1, <1>5 DEF U

-----------------------------------------------------------------------------
(* The inductive invariant.                                                *)

(* A reminder that was told is marked at least as far, and the one in hand *)
(* is marked and not told yet.                                             *)
ToldIsMarked ==
  \A t \in told : mark[<<t[1], t[2]>>] >= t[3]

InHandUntold ==
  pc = "telling" =>
    /\ mark[<<kind, whom.user>>] >= whom.anchor
    /\ <<kind, whom.user, whom.anchor>> \notin told

ToldInv == ToldIsMarked /\ InHandUntold /\ ToldOnce

Covered(c, u) == <<c, u>> \in reached \cup excused

(* Whoever is absent is excused from the broadcasts that have started. *)
AbsentExcused ==
  \A c \in Started : \A u \in banned \cup (Users \ users) : <<c, u>> \in excused

(* Nobody behind the saved progress was skipped, *)
BehindSaved == \A c \in Campaigns : \A u \in Users : u <= last[c] => Covered(c, u)

(* nor behind the unsaved one, nor between it and the rest of the batch. *)
BehindUnsaved ==
  /\ pc \in {"listing", "writing", "saving", "finishing", "failing"} => status[campaign] # "none"
  /\ pc \in {"listing", "writing", "saving"} =>
       \A u \in Users : u <= upto => Covered(campaign, u)
  /\ pc = "writing" =>
       \A v \in batch, u \in Users : u < v => u \in batch \/ Covered(campaign, u)
  /\ pc = "finishing" => \A u \in Users : Covered(campaign, u)
  /\ pc = "listing" => upto = last[campaign]

SentInv == AbsentExcused /\ BehindSaved /\ BehindUnsaved /\ NobodySkipped /\ SavedNotRepeated

IInv == TypeOK /\ ToldInv /\ SentInv

-----------------------------------------------------------------------------
(* Constants.                                                              *)

(* What is assumed of the constants, in the parts the proofs need. *)
LEMMA UserFacts == Users \subseteq Nat \ {0} /\ Nobody \notin Users
  BY ConstantsAssumption DEF ConstantsAssumption

(* Kinds are numbers. *)
LEMMA KindFacts == Kinds \in Nat /\ Recurring \subseteq 1 .. Kinds
  BY ConstantsAssumption DEF ConstantsAssumption

(* A batch has room for somebody. *)
LEMMA BatchFacts == BroadcastBatch \in Nat \ {0}
  BY ConstantsAssumption DEF ConstantsAssumption

(* Moments of activity are numbers, and 0 and every count are among them. *)
LEMMA TimeFacts ==
  /\ Times \subseteq Nat
  /\ \A u \in Users : 0 \in Times
  /\ \A u \in Users, n \in Nat : n <= MaxActivity[u] => n \in Times
<1>1. \A u \in Users : MaxActivity[u] \in Nat
  BY ConstantsAssumption DEF ConstantsAssumption
<1>2. \A t \in Times : \E u \in Users : t \in 0 .. MaxActivity[u]
  BY DEF Times
<1>3. \A u \in Users, n \in Nat : n <= MaxActivity[u] => n \in Times
  <2> SUFFICES ASSUME NEW u \in Users, NEW n \in Nat, n <= MaxActivity[u] PROVE n \in Times
    OBVIOUS
  <2>1. n \in 0 .. MaxActivity[u]
    BY <1>1
  <2> QED
    BY <2>1 DEF Times
<1> QED
  BY <1>1, <1>2, <1>3

(* A statement that answers without an error was executed. *)
LEMMA OutcomeFacts ==
  ASSUME NEW o \in Outcomes
  PROVE  o.ok \in BOOLEAN /\ o.done \in BOOLEAN /\ (o.ok => o.done)
<1>1. CASE o = [ok |-> FALSE, done |-> FALSE]
  BY <1>1, Zenon
<1>2. CASE o = [ok |-> TRUE, done |-> TRUE]
  BY <1>2, Zenon
<1>3. CASE \E S \in SUBSET BOOLEAN : o \in [ok : {FALSE}, done : S]
  BY <1>3
<1> QED
  <2>1. (IF "db" \in Faults THEN BOOLEAN ELSE {}) \in SUBSET BOOLEAN
    OBVIOUS
  <2> QED
    BY <1>1, <1>2, <1>3, <2>1 DEF Outcomes

-----------------------------------------------------------------------------
(* Types.                                                                  *)

(* A part of the types stays as it is when its variables do. *)
LEMMA FramePeople == PeopleOK /\ UNCHANGED people => PeopleOK'
  BY DEF PeopleOK, people

(* The same for the campaigns, *)
LEMMA FrameCampaigns == CampaignsOK /\ UNCHANGED campaigns => CampaignsOK'
  BY DEF CampaignsOK, campaigns

(* for the reminder in hand, *)
LEMMA FrameReminding == RemindingOK /\ UNCHANGED <<mark, pc, reminding>> => RemindingOK'
  BY DEF RemindingOK, reminding

(* for the broadcast in hand, *)
LEMMA FrameSending == SendingOK /\ UNCHANGED <<pc, sending>> => SendingOK'
  BY DEF SendingOK, sending

(* and for the history. *)
LEMMA FrameHistory == HistoryOK /\ UNCHANGED history => HistoryOK'
  BY DEF HistoryOK, history

(* An UPDATE of a user's row keeps the types. *)
LEMMA TouchType ==
  ASSUME PeopleOK, NEW u \in Users, Touch(u)
  PROVE  /\ active' \in [Users -> Times]
         /\ when' \in [Marks -> {"early", "due", "never"}]
<1>1. active[u] \in Nat /\ MaxActivity[u] \in Nat /\ active[u] + 1 <= MaxActivity[u]
  <2>1. active[u] \in Nat
    BY TimeFacts DEF PeopleOK
  <2>2. MaxActivity[u] \in Nat
    BY ConstantsAssumption DEF ConstantsAssumption
  <2> QED
    BY <2>1, <2>2 DEF Touch
<1>2. active[u] + 1 \in Times
  BY <1>1, TimeFacts
<1> QED
  BY <1>2 DEF PeopleOK, Touch

(* An idle goroutine has nothing in hand. *)
LEMMA IdleType ==
  ASSUME TypeOK, Idle, UNCHANGED mark
  PROVE  RemindingOK' /\ SendingOK' /\ pc' \in Stages
<1>1. 1 \in 1 .. Kinds + 1
  BY KindFacts
<1> QED
  BY <1>1 DEF Idle, TypeOK, RemindingOK, SendingOK, Stages

(* The statement at the end of a cycle keeps the types. *)
LEMMA CloseType ==
  ASSUME TypeOK, NEW o \in Outcomes, NEW s \in {"pending", "done", "failed"},
         NEW p \in Users \cup {0}, Close(o, s, p)
  PROVE  TypeOK'
<1>1. CampaignsOK'
  BY DEF Close, TypeOK, CampaignsOK
<1>2. RemindingOK' /\ SendingOK' /\ pc' \in Stages
  BY IdleType DEF Close
<1> QED
  BY <1>1, <1>2, FramePeople, FrameHistory DEF Close, TypeOK

(* Users and administrators keep the types. *)
LEMMA WorldType ==
  ASSUME TypeOK, World
  PROVE  TypeOK'
<1>1. ASSUME NEW u \in Users, Register(u) PROVE TypeOK'
  <2>1. PeopleOK'
    BY <1>1 DEF Register, TypeOK, PeopleOK
  <2>2. HistoryOK'
    BY <1>1 DEF Register, Started, TypeOK, HistoryOK
  <2> QED
    BY <1>1, <2>1, <2>2, FrameCampaigns, FrameReminding, FrameSending DEF Register, TypeOK
<1>2. ASSUME NEW u \in Users, Act(u) PROVE TypeOK'
  <2>1. PeopleOK'
    BY <1>2, TouchType DEF Act, TypeOK, PeopleOK
  <2> QED
    BY <1>2, <2>1, FrameHistory, FrameCampaigns, FrameReminding, FrameSending DEF Act, TypeOK
<1>3. ASSUME NEW u \in Users, Ban(u) PROVE TypeOK'
  <2>1. PeopleOK'
    BY <1>3, TouchType DEF Ban, TypeOK, PeopleOK
  <2>2. HistoryOK'
    BY <1>3 DEF Ban, Started, TypeOK, HistoryOK
  <2> QED
    BY <1>3, <2>1, <2>2, FrameCampaigns, FrameReminding, FrameSending DEF Ban, TypeOK
<1>4. ASSUME NEW u \in Users, Unban(u) PROVE TypeOK'
  <2>1. PeopleOK'
    BY <1>4, TouchType DEF Unban, TypeOK, PeopleOK
  <2> QED
    BY <1>4, <2>1, FrameHistory, FrameCampaigns, FrameReminding, FrameSending DEF Unban, TypeOK
<1>5. ASSUME NEW k \in 1 .. Kinds, NEW u \in Users, Engage(k, u) \/ TimePasses(k, u) PROVE TypeOK'
  <2>1. PeopleOK'
    BY <1>5 DEF Engage, TimePasses, TypeOK, PeopleOK
  <2> QED
    BY <1>5, <2>1, FrameHistory, FrameCampaigns, FrameReminding, FrameSending
    DEF Engage, TimePasses, TypeOK
<1>6. ASSUME NEW c \in Campaigns, EnqueueBroadcast(c) PROVE TypeOK'
  <2>1. CampaignsOK'
    BY <1>6 DEF EnqueueBroadcast, TypeOK, CampaignsOK
  <2>2. HistoryOK'
    BY <1>6 DEF EnqueueBroadcast, TypeOK, PeopleOK, HistoryOK
  <2> QED
    BY <1>6, <2>1, <2>2, FramePeople, FrameReminding, FrameSending DEF EnqueueBroadcast, TypeOK
<1>7. ASSUME NEW c \in Campaigns, BecomesStale(c) PROVE TypeOK'
  <2>1. CampaignsOK'
    BY <1>7 DEF BecomesStale, TypeOK, CampaignsOK
  <2> QED
    BY <1>7, <2>1, FramePeople, FrameHistory, FrameReminding, FrameSending DEF BecomesStale, TypeOK
<1> QED
  BY <1>1, <1>2, <1>3, <1>4, <1>5, <1>6, <1>7 DEF World

(* The reminders keep the types. *)
LEMMA RemindingType ==
  ASSUME TypeOK, NEW o \in Outcomes,
         \/ StartCycle \/ Tell \/ NextKind \/ QueryDue(o)
         \/ \E d \in todo : MarkReminder(d, o)
  PROVE  TypeOK'
<1>1. CASE StartCycle
  <2>1. RemindingOK' /\ SendingOK' /\ pc' \in Stages
    BY <1>1, KindFacts DEF StartCycle, TypeOK, RemindingOK, SendingOK, sending, Stages
  <2> QED
    BY <1>1, <2>1, FramePeople, FrameCampaigns, FrameHistory DEF StartCycle, TypeOK
<1>2. CASE QueryDue(o)
  <2>1. todo' \subseteq Due
    <3>1. ASSUME NEW u \in Unmarked(kind) PROVE [user |-> u, anchor |-> AnchorOf(kind, u)] \in Due
      BY <1>2, <3>1, TimeFacts DEF Unmarked, AnchorOf, Due, TypeOK, PeopleOK
    <3> QED
      BY <1>2, <3>1 DEF QueryDue
  <2>2. RemindingOK' /\ SendingOK' /\ pc' \in Stages
    BY <1>2, <2>1, KindFacts DEF QueryDue, TypeOK, RemindingOK, SendingOK, sending, Stages
  <2> QED
    BY <1>2, <2>2, FramePeople, FrameCampaigns, FrameHistory DEF QueryDue, TypeOK
<1>3. ASSUME NEW d \in todo, MarkReminder(d, o) PROVE TypeOK'
  <2>1. d \in Due /\ d.user \in Users /\ d.anchor \in Times /\ kind \in 1 .. Kinds
    BY <1>3, KindFacts DEF MarkReminder, TypeOK, RemindingOK, Due
  <2>2. mark' \in [Marks -> Times \cup {-1}]
    BY <1>3, <2>1 DEF MarkReminder, TypeOK, RemindingOK, Marks
  <2>3. RemindingOK' /\ SendingOK' /\ pc' \in Stages
    BY <1>3, <2>1, <2>2 DEF MarkReminder, TypeOK, RemindingOK, SendingOK, sending, Stages
  <2> QED
    BY <1>3, <2>3, FramePeople, FrameCampaigns, FrameHistory DEF MarkReminder, TypeOK
<1>4. CASE Tell
  <2>1. whom \in Due /\ kind \in 1 .. Kinds
    BY <1>4, KindFacts DEF Tell, TypeOK, RemindingOK
  <2>2. HistoryOK'
    BY <1>4, <2>1 DEF Tell, TypeOK, HistoryOK, Due
  <2>3. RemindingOK' /\ SendingOK' /\ pc' \in Stages
    BY <1>4, <2>1 DEF Tell, TypeOK, RemindingOK, SendingOK, sending, Stages
  <2> QED
    BY <1>4, <2>2, <2>3, FramePeople, FrameCampaigns DEF Tell, TypeOK
<1>5. CASE NextKind
  <2>1. kind + 1 \in 1 .. Kinds + 1
    BY <1>5, KindFacts DEF NextKind, TypeOK, RemindingOK
  <2>2. RemindingOK' /\ SendingOK' /\ pc' \in Stages
    BY <1>5, <2>1 DEF NextKind, TypeOK, RemindingOK, SendingOK, sending, Stages
  <2> QED
    BY <1>5, <2>2, FramePeople, FrameCampaigns, FrameHistory DEF NextKind, TypeOK
<1> QED
  BY <1>1, <1>2, <1>3, <1>4, <1>5

(* So do the broadcasts. *)
LEMMA SendingType ==
  ASSUME TypeOK, NEW o \in Outcomes,
         \/ ClaimCampaign(o) \/ NothingToSend \/ ListRecipients(o)
         \/ \E u \in batch : WriteNext(u)
         \/ SaveProgress(o) \/ FinishCampaign(o) \/ FailCampaign(o)
  PROVE  TypeOK'
<1>1. CASE ClaimCampaign(o)
  <2>1. PICK c \in Claimable :
          /\ status' = [status EXCEPT ![c] = IF o.done THEN "running" ELSE @]
          /\ stale' = IF o.done THEN stale \ {c} ELSE stale
          /\ IF o.ok
             THEN pc' = "listing" /\ campaign' = c /\ upto' = last[c] /\ UNCHANGED <<reminding, batch>>
             ELSE Idle
    BY <1>1 DEF ClaimCampaign
  <2>2. c \in Campaigns /\ UNCHANGED <<people, mark, last, mode, history>>
    BY <1>1, <2>1 DEF ClaimCampaign, Claimable
  <2>3. CampaignsOK'
    BY <2>1, <2>2 DEF TypeOK, CampaignsOK
  <2>4. RemindingOK' /\ SendingOK' /\ pc' \in Stages
    <3>1. CASE o.ok
      BY <2>1, <2>2, <3>1 DEF TypeOK, CampaignsOK, RemindingOK, SendingOK, reminding, Stages
    <3>2. CASE ~o.ok
      BY <2>1, <2>2, <3>2, IdleType
    <3> QED
      BY <3>1, <3>2
  <2> QED
    BY <2>2, <2>3, <2>4, FramePeople, FrameHistory DEF TypeOK
<1>2. CASE NothingToSend
  BY <1>2, IdleType, FramePeople, FrameCampaigns, FrameHistory DEF NothingToSend, TypeOK
<1>3. CASE ListRecipients(o)
  <2>1. batch' \subseteq Users
    BY <1>3 DEF ListRecipients, Recipients, FirstOf, TypeOK, PeopleOK
  <2>2. RemindingOK' /\ SendingOK' /\ pc' \in Stages
    BY <1>3, <2>1 DEF ListRecipients, TypeOK, RemindingOK, SendingOK, reminding, Stages
  <2> QED
    BY <1>3, <2>2, FramePeople, FrameCampaigns, FrameHistory DEF ListRecipients, TypeOK
<1>4. ASSUME NEW u \in batch, WriteNext(u) PROVE TypeOK'
  <2>1. u \in Users /\ campaign \in Campaigns
    BY <1>4 DEF WriteNext, TypeOK, SendingOK
  <2>2. HistoryOK'
    BY <1>4, <2>1 DEF WriteNext, TypeOK, HistoryOK
  <2>3. RemindingOK' /\ SendingOK' /\ pc' \in Stages
    BY <1>4, <2>1 DEF WriteNext, TypeOK, RemindingOK, SendingOK, reminding, Stages
  <2> QED
    BY <1>4, <2>2, <2>3, FramePeople, FrameCampaigns DEF WriteNext, TypeOK
<1>5. CASE SaveProgress(o)
  BY <1>5, CloseType DEF SaveProgress, TypeOK, SendingOK
<1>6. CASE FinishCampaign(o) \/ FailCampaign(o)
  <2>1. last[campaign] \in Users \cup {0}
    BY <1>6 DEF FinishCampaign, FailCampaign, TypeOK, SendingOK, CampaignsOK
  <2> QED
    BY <1>6, <2>1, CloseType DEF FinishCampaign, FailCampaign
<1> QED
  BY <1>1, <1>2, <1>3, <1>4, <1>5, <1>6

(* And starting, stopping and dying. *)
LEMMA ProcessType ==
  ASSUME TypeOK, Stop \/ Exit \/ Crash \/ Restart \/ UNCHANGED vars
  PROVE  TypeOK'
<1>1. CASE Stop \/ Restart \/ UNCHANGED vars
  BY <1>1, FramePeople, FrameCampaigns, FrameReminding, FrameSending, FrameHistory
  DEF Stop, Restart, vars, TypeOK
<1>2. CASE Exit \/ Crash
  BY <1>2, IdleType, FramePeople, FrameCampaigns, FrameHistory DEF Exit, Crash, TypeOK
<1> QED
  BY <1>1, <1>2

(* Every step keeps the types. *)
LEMMA TypeStep == TypeOK /\ [Next]_vars => TypeOK'
  BY WorldType, RemindingType, SendingType, ProcessType
  DEF Next, Unfailing, Goroutine, Outcomes

-----------------------------------------------------------------------------
(* Reminders: ToldInv is kept.                                             *)

(* A step that touches no mark, and neither tells nor is about to. *)
LEMMA ToldFrame ==
  ASSUME ToldInv, UNCHANGED <<mark, told, twice>>, pc' # "telling" \/ UNCHANGED <<pc, kind, whom>>
  PROVE  ToldInv'
<1>1. ToldIsMarked' /\ ToldOnce'
  BY DEF ToldInv, ToldIsMarked, ToldOnce
<1>2. InHandUntold'
  BY DEF ToldInv, InHandUntold
<1> QED
  BY <1>1, <1>2 DEF ToldInv

(* Marks are numbers, so are the moments they are compared with. *)
LEMMA MarkNumbers ==
  ASSUME TypeOK, NEW r \in Marks
  PROVE  mark[r] \in Int
<1>1. mark[r] \in Times \cup {-1}
  BY DEF TypeOK, RemindingOK
<1>2. Times \subseteq Nat
  BY TimeFacts
<1>3. CASE mark[r] \in Times
  <2>1. mark[r] \in Nat
    BY <1>2, <1>3
  <2> QED
    BY <2>1
<1>4. CASE mark[r] = -1
  BY <1>4
<1> QED
  BY <1>1, <1>3, <1>4

(* The mark is what keeps the reminder from being told again. *)
LEMMA MarkTold ==
  ASSUME TypeOK, ToldInv, NEW o \in Outcomes, NEW d \in todo, MarkReminder(d, o)
  PROVE  ToldInv'
<1>1. /\ d.user \in Users /\ d.anchor \in Nat /\ <<kind, d.user>> \in Marks
      /\ mark[<<kind, d.user>>] \in Int
  <2>1. d \in Due /\ d.user \in Users /\ d.anchor \in Times
    BY DEF TypeOK, RemindingOK, Due
  <2>2. kind \in 1 .. Kinds
    BY KindFacts DEF MarkReminder, TypeOK, RemindingOK
  <2> QED
    BY <2>1, <2>2, TimeFacts, MarkNumbers DEF Marks
<1>2. ASSUME NEW r \in Marks PROVE mark'[r] \in Int /\ mark'[r] >= mark[r]
  BY <1>1, MarkNumbers DEF MarkReminder, TypeOK, RemindingOK
<1>3. UNCHANGED <<told, twice, kind>>
  BY DEF MarkReminder, history
<1>4. ToldIsMarked'
  <2> SUFFICES ASSUME NEW t \in told PROVE mark'[<<t[1], t[2]>>] >= t[3]
    BY <1>3 DEF ToldIsMarked
  <2>1. <<t[1], t[2]>> \in Marks /\ t[3] \in Nat
    BY TimeFacts DEF TypeOK, HistoryOK, Marks
  <2>2. mark[<<t[1], t[2]>>] >= t[3]
    BY DEF ToldInv, ToldIsMarked
  <2> QED
    BY <1>2, <2>1, <2>2, MarkNumbers
<1>5. InHandUntold'
  <2> SUFFICES ASSUME pc' = "telling"
               PROVE  /\ mark'[<<kind, whom'.user>>] >= whom'.anchor
                      /\ <<kind, whom'.user, whom'.anchor>> \notin told
    BY <1>3 DEF InHandUntold
  <2>1. o.ok /\ mark[<<kind, d.user>>] < d.anchor /\ whom' = d
    BY DEF MarkReminder
  <2>2. o.done
    BY <2>1, OutcomeFacts
  <2>3. mark'[<<kind, d.user>>] = d.anchor
    BY <1>1, <2>1, <2>2 DEF MarkReminder, TypeOK, RemindingOK
  <2>4. <<kind, d.user, d.anchor>> \notin told
    BY <1>1, <2>1 DEF ToldInv, ToldIsMarked
  <2> QED
    BY <1>1, <2>1, <2>3, <2>4
<1>6. ToldOnce'
  BY <1>3 DEF ToldInv, ToldOnce
<1> QED
  BY <1>4, <1>5, <1>6 DEF ToldInv

(* Who is written to was marked and not written to before. *)
LEMMA TellTold ==
  ASSUME TypeOK, ToldInv, Tell
  PROVE  ToldInv'
<1>1. /\ mark[<<kind, whom.user>>] >= whom.anchor
      /\ <<kind, whom.user, whom.anchor>> \notin told
  BY DEF Tell, ToldInv, InHandUntold
<1>2. /\ told' = told \cup {<<kind, whom.user, whom.anchor>>} /\ mark' = mark
      /\ twice' = twice \cup (told \cap {<<kind, whom.user, whom.anchor>>})
      /\ pc' = "marking"
  BY DEF Tell
<1>3. ToldIsMarked'
  <2> SUFFICES ASSUME NEW t \in told' PROVE mark[<<t[1], t[2]>>] >= t[3]
    BY <1>2 DEF ToldIsMarked
  <2>1. CASE t \in told
    BY <2>1 DEF ToldInv, ToldIsMarked
  <2>2. CASE t = <<kind, whom.user, whom.anchor>>
    BY <1>1, <2>2
  <2> QED
    BY <1>2, <2>1, <2>2
<1>4. ToldOnce'
  BY <1>1, <1>2 DEF ToldInv, ToldOnce
<1> QED
  BY <1>2, <1>3, <1>4 DEF ToldInv, InHandUntold

(* Every step keeps what is known of the reminders. *)
LEMMA ToldStep ==
  ASSUME TypeOK, ToldInv, [Next]_vars
  PROVE  ToldInv'
<1>1. CASE World
  BY <1>1, ToldFrame
  DEF World, Register, Act, Ban, Unban, Engage, TimePasses, EnqueueBroadcast, BecomesStale,
      reminding, history
<1>2. CASE Unfailing
  BY <1>2, ToldFrame, TellTold
  DEF Unfailing, StartCycle, NextKind, NothingToSend, WriteNext, Idle, reminding, history
<1>3. ASSUME NEW o \in Outcomes, Goroutine(o) PROVE ToldInv'
  <2>1. ASSUME NEW d \in todo, MarkReminder(d, o) PROVE ToldInv'
    BY <2>1, MarkTold
  <2>2. CASE QueryDue(o) \/ ClaimCampaign(o) \/ ListRecipients(o)
    BY <2>2, ToldFrame DEF QueryDue, ClaimCampaign, ListRecipients, Idle, reminding, history
  <2>3. CASE SaveProgress(o) \/ FinishCampaign(o) \/ FailCampaign(o)
    BY <2>3, ToldFrame DEF SaveProgress, FinishCampaign, FailCampaign, Close, Idle, history
  <2> QED
    BY <1>3, <2>1, <2>2, <2>3 DEF Goroutine
<1>4. CASE Stop \/ Exit \/ Crash \/ Restart \/ UNCHANGED vars
  BY <1>4, ToldFrame DEF Stop, Exit, Crash, Restart, vars, Idle, reminding, history
<1> QED
  BY <1>1, <1>2, <1>3, <1>4 DEF Next

-----------------------------------------------------------------------------
(* Broadcasts: SentInv is kept.                                            *)

Grows == reached \subseteq reached' /\ excused \subseteq excused'

(* Nothing ends a broadcast. *)
NoneDone == \A c \in Campaigns : status'[c] = "done" => status[c] = "done"

(* What was sent or excused stays so. *)
LEMMA CoveredStays ==
  ASSUME Grows, NEW c, NEW u, Covered(c, u)
  PROVE  Covered(c, u)'
  BY DEF Grows, Covered

(* The invariant, apart from who is excused, when no batch is in hand. *)
LEMMA SentAway ==
  ASSUME SentInv, Grows, NoneDone, UNCHANGED last,
         pc' \notin {"listing", "writing", "saving", "finishing", "failing"}
  PROVE  BehindSaved' /\ BehindUnsaved' /\ NobodySkipped' /\ SavedNotRepeated'
<1>1. BehindSaved'
  BY CoveredStays DEF SentInv, BehindSaved
<1>2. NobodySkipped'
  BY DEF SentInv, NobodySkipped, NoneDone, Grows
<1> QED
  BY <1>1, <1>2 DEF BehindUnsaved, SavedNotRepeated

(* And when the batch stays as it is. *)
LEMMA SentFrame ==
  ASSUME TypeOK, SentInv, Grows, NoneDone, UNCHANGED <<last, pc, campaign, batch, upto>>,
         \A c \in Campaigns : status[c] # "none" => status'[c] # "none"
  PROVE  BehindSaved' /\ BehindUnsaved' /\ NobodySkipped' /\ SavedNotRepeated'
<1>1. BehindSaved'
  BY CoveredStays DEF SentInv, BehindSaved
<1>2. NobodySkipped'
  BY DEF SentInv, NobodySkipped, NoneDone, Grows
<1>3. BehindUnsaved'
  BY CoveredStays DEF SentInv, BehindUnsaved, TypeOK, SendingOK
<1>4. SavedNotRepeated'
  BY DEF SentInv, SavedNotRepeated
<1> QED
  BY <1>1, <1>2, <1>3, <1>4

(* Absence is excused in the step that makes somebody absent, or starts a  *)
(* broadcast.                                                              *)
LEMMA AbsentFrame ==
  ASSUME AbsentExcused, UNCHANGED <<users, banned, excused>>,
         \A c \in Campaigns : status[c] = "none" => status'[c] = "none"
  PROVE  AbsentExcused'
  BY DEF AbsentExcused, Started

(* Users and administrators keep what is known of the broadcasts. *)
LEMMA WorldSent ==
  ASSUME TypeOK, SentInv, World
  PROVE  SentInv'
<1>1. ASSUME NEW u \in Users, Register(u) PROVE SentInv'
  <2>1. AbsentExcused'
    BY <1>1 DEF Register, SentInv, AbsentExcused, Started, campaigns
  <2>2. Grows /\ NoneDone /\ UNCHANGED <<status, last, pc, campaign, batch, upto>>
    BY <1>1 DEF Register, Grows, NoneDone, campaigns, sending
  <2> QED
    BY <2>1, <2>2, SentFrame DEF SentInv
<1>2. ASSUME NEW u \in Users, Ban(u) PROVE SentInv'
  <2>1. AbsentExcused'
    BY <1>2 DEF Ban, SentInv, AbsentExcused, Started, campaigns
  <2>2. Grows /\ NoneDone /\ UNCHANGED <<status, last, pc, campaign, batch, upto>>
    BY <1>2 DEF Ban, Grows, NoneDone, campaigns, sending
  <2> QED
    BY <2>1, <2>2, SentFrame DEF SentInv
<1>3. ASSUME NEW u \in Users, Unban(u) PROVE SentInv'
  <2>1. AbsentExcused'
    BY <1>3 DEF Unban, SentInv, AbsentExcused, Started, campaigns, history
  <2>2. Grows /\ NoneDone /\ UNCHANGED <<status, last, pc, campaign, batch, upto>>
    BY <1>3 DEF Unban, Grows, NoneDone, campaigns, sending, history
  <2> QED
    BY <2>1, <2>2, SentFrame DEF SentInv
<1>4. ASSUME NEW u \in Users, Act(u) \/ \E k \in 1 .. Kinds : Engage(k, u) \/ TimePasses(k, u)
      PROVE  SentInv'
  <2>1. Grows /\ NoneDone /\ UNCHANGED <<users, banned, excused, status, last, pc, campaign, batch, upto>>
    BY <1>4 DEF Act, Engage, TimePasses, Grows, NoneDone, campaigns, sending, history
  <2> QED
    BY <2>1, SentFrame, AbsentFrame DEF SentInv
<1>5. ASSUME NEW c \in Campaigns, EnqueueBroadcast(c) PROVE SentInv'
  <2>1. AbsentExcused'
    BY <1>5 DEF EnqueueBroadcast, SentInv, AbsentExcused, Started, people, TypeOK, CampaignsOK
  <2>2. Grows /\ UNCHANGED <<last, pc, campaign, batch, upto>>
    BY <1>5 DEF EnqueueBroadcast, Grows, sending
  <2>3. NoneDone /\ \A d \in Campaigns : status[d] # "none" => status'[d] # "none"
    BY <1>5 DEF EnqueueBroadcast, NoneDone, TypeOK, CampaignsOK
  <2> QED
    BY <2>1, <2>2, <2>3, SentFrame DEF SentInv
<1>6. ASSUME NEW c \in Campaigns, BecomesStale(c) PROVE SentInv'
  <2>1. Grows /\ NoneDone /\ UNCHANGED <<users, banned, excused, status, last, pc, campaign, batch, upto>>
    BY <1>6 DEF BecomesStale, Grows, NoneDone, people, sending, history
  <2> QED
    BY <2>1, SentFrame, AbsentFrame DEF SentInv
<1> QED
  BY <1>1, <1>2, <1>3, <1>4, <1>5, <1>6 DEF World

(* The claimed broadcast goes on where its progress was saved. *)
LEMMA ClaimSent ==
  ASSUME TypeOK, SentInv, NEW o \in Outcomes, ClaimCampaign(o)
  PROVE  SentInv'
<1>1. PICK c \in Claimable :
        /\ status' = [status EXCEPT ![c] = IF o.done THEN "running" ELSE @]
        /\ IF o.ok
           THEN pc' = "listing" /\ campaign' = c /\ upto' = last[c]
           ELSE Idle
  BY DEF ClaimCampaign
<1>2. c \in Campaigns /\ status[c] \in {"pending", "running"}
  BY DEF Claimable
<1>3. Grows /\ UNCHANGED <<users, banned, excused, reached, last>>
  BY DEF ClaimCampaign, Grows, people, history
<1>4. NoneDone /\ \A d \in Campaigns : status[d] = "none" <=> status'[d] = "none"
  BY <1>1, <1>2 DEF NoneDone, TypeOK, CampaignsOK
<1>5. AbsentExcused'
  BY <1>3, <1>4, AbsentFrame DEF SentInv
<1>6. CASE ~o.ok
  <2>1. pc' = "idle"
    BY <1>1, <1>6 DEF Idle
  <2> QED
    BY <1>3, <1>4, <1>5, <2>1, SentAway DEF SentInv
<1>7. CASE o.ok
  <2>1. BehindSaved'
    BY <1>3, CoveredStays DEF SentInv, BehindSaved
  <2>2. NobodySkipped'
    BY <1>3, <1>4 DEF SentInv, NobodySkipped, NoneDone, Grows
  <2>3. pc' = "listing" /\ campaign' = c /\ upto' = last[c]
    BY <1>1, <1>7
  <2>4. \A u \in Users : u <= last[c] => Covered(c, u)'
    BY <1>2, <1>3, CoveredStays DEF SentInv, BehindSaved
  <2>5. BehindUnsaved'
    BY <1>2, <1>3, <1>4, <2>3, <2>4 DEF BehindUnsaved, Covered
  <2>6. SavedNotRepeated'
    BY <2>3 DEF SavedNotRepeated
  <2> QED
    BY <1>5, <2>1, <2>2, <2>5, <2>6 DEF SentInv
<1> QED
  BY <1>6, <1>7

(* A batch leaves nobody out: who comes before one of it and does not      *)
(* belong to it is behind the progress or absent.                          *)
LEMMA ListSent ==
  ASSUME TypeOK, SentInv, NEW o \in Outcomes, ListRecipients(o)
  PROVE  SentInv'
<1> DEFINE S == {u \in users \ banned : u > last[campaign]}
<1>1. S \in SUBSET Nat /\ Recipients = FirstOf(BroadcastBatch, S)
  BY UserFacts DEF Recipients, TypeOK, PeopleOK
<1>2. campaign \in Campaigns /\ campaign \in Started /\ pc = "listing"
  BY DEF ListRecipients, TypeOK, SendingOK, SentInv, BehindUnsaved, Started
<1>3. last[campaign] \in Nat
  <2> HIDE DEF S
  <2>1. last[campaign] \in Users \cup {0}
    BY <1>2 DEF TypeOK, CampaignsOK
  <2>2. \A u \in Users : u \in Nat
    BY UserFacts
  <2> QED
    BY <2>1, <2>2
<1>4. ASSUME NEW u \in Users, u \notin S PROVE Covered(campaign, u)
  <2>1. CASE u \in users \ banned
    <3>1. u <= last[campaign]
      BY <1>3, <1>4, <2>1, UserFacts
    <3> QED
      BY <1>2, <3>1 DEF SentInv, BehindSaved
  <2>2. CASE u \notin users \ banned
    BY <1>2, <2>2 DEF SentInv, AbsentExcused, Covered
  <2> QED
    BY <2>1, <2>2
<1>5. /\ batch' = IF o.ok THEN Recipients ELSE {}
      /\ pc' = IF ~o.ok THEN "failing" ELSE IF Recipients = {} THEN "finishing" ELSE "writing"
      /\ UNCHANGED <<users, banned, status, last, campaign, upto, reached, excused>>
  BY DEF ListRecipients, people, campaigns, history
<1>6. Grows /\ NoneDone
  BY <1>5 DEF Grows, NoneDone
<1>7. AbsentExcused'
  BY <1>5, AbsentFrame DEF SentInv
<1>8. BehindSaved' /\ NobodySkipped'
  BY <1>5 DEF SentInv, BehindSaved, NobodySkipped, Covered
<1>9. BehindUnsaved'
  <2>1. pc' = "writing" => \A v \in batch', u \in Users : u < v => u \in batch' \/ Covered(campaign, u)
    <3> SUFFICES ASSUME pc' = "writing", NEW v \in batch', NEW u \in Users, u < v, u \in S
                 PROVE  u \in batch'
      BY <1>4
    <3>1. batch' = FirstOf(BroadcastBatch, S)
      BY <1>1, <1>5
    <3> HIDE DEF S
    <3> QED
      BY <1>1, <3>1, FirstOfDown, BatchFacts
  <2>2. pc' = "finishing" => \A u \in Users : Covered(campaign, u)
    <3> SUFFICES ASSUME pc' = "finishing" PROVE S = {}
      BY <1>4
    <3>1. FirstOf(BroadcastBatch, S) = {}
      BY <1>1, <1>5
    <3> HIDE DEF S
    <3> QED
      BY <1>1, <3>1, FirstOfEmpty, BatchFacts
  <2>3. \A u \in Users : u <= upto => Covered(campaign, u)
    BY <1>2 DEF SentInv, BehindUnsaved
  <2>4. status[campaign] # "none"
    BY <1>2 DEF Started
  <2>5. \A u : Covered(campaign, u)' <=> Covered(campaign, u)
    BY <1>5 DEF Covered
  <2> QED
    BY <1>5, <2>1, <2>2, <2>3, <2>4, <2>5 DEF BehindUnsaved, Covered
<1>10. SavedNotRepeated'
  <2>1. \A u \in Recipients : u > last[campaign]
    BY DEF Recipients, FirstOf
  <2>2. upto = last[campaign] /\ last[campaign] <= upto
    BY <1>2, <1>3 DEF SentInv, BehindUnsaved
  <2>3. pc' # "saving" /\ (pc' = "writing" => batch' = Recipients)
    BY <1>5
  <2> QED
    BY <1>5, <2>1, <2>2, <2>3 DEF SavedNotRepeated
<1> QED
  BY <1>7, <1>8, <1>9, <1>10 DEF SentInv

(* The next recipient is the first one of the batch. *)
LEMMA WriteSent ==
  ASSUME TypeOK, SentInv, NEW u \in batch, WriteNext(u)
  PROVE  SentInv'
<1>1. u \in Users /\ \A v \in batch : u <= v
  <2>1. batch \in SUBSET Nat /\ batch \subseteq Users
    BY UserFacts DEF TypeOK, SendingOK
  <2> QED
    BY <2>1, FirstIsLeast DEF WriteNext
<1>2. /\ reached' = reached \cup {<<campaign, u>>} /\ upto' = u
      /\ pc = "writing" /\ pc' \in {"saving", "writing"} /\ batch' \subseteq batch \ {u}
      /\ pc' = "writing" => batch' = batch \ {u}
      /\ UNCHANGED <<users, banned, status, last, campaign, excused>>
  BY DEF WriteNext, people, campaigns
<1>3. /\ Grows /\ NoneDone /\ Covered(campaign, u)'
      /\ \A w : Covered(campaign, w) => Covered(campaign, w)'
  BY <1>2 DEF Grows, NoneDone, Covered
<1>4. AbsentExcused'
  BY <1>2, AbsentFrame DEF SentInv
<1>5. BehindSaved' /\ NobodySkipped'
  BY <1>2, <1>3, CoveredStays DEF SentInv, BehindSaved, NobodySkipped, Grows
<1>6. ASSUME NEW w \in Users, w < u PROVE Covered(campaign, w)
  <2>1. w \notin batch
    <3>1. u \in Nat /\ w \in Nat
      BY <1>1, UserFacts
    <3>2. ~(u <= w)
      BY <1>6, <3>1
    <3> QED
      BY <1>1, <3>2
  <2> QED
    BY <1>2, <1>6, <2>1 DEF SentInv, BehindUnsaved
<1>7. BehindUnsaved'
  <2>1. ASSUME NEW w \in Users, w <= u PROVE Covered(campaign, w)'
    <3>1. CASE w = u
      BY <1>3, <3>1
    <3>2. CASE w # u
      <4> u \in Nat /\ w \in Nat
        BY <1>1, UserFacts
      <4>1. w < u
        BY <2>1, <3>2
      <4> QED
        BY <1>3, <1>6, <4>1
    <3> QED
      BY <3>1, <3>2
  <2>2. ASSUME pc' = "writing", NEW v \in batch', NEW w \in Users, w < v
        PROVE  w \in batch' \/ Covered(campaign, w)'
    <3>1. v \in batch /\ batch' = batch \ {u}
      BY <1>2, <2>2
    <3>2. w \in batch \/ Covered(campaign, w)
      BY <1>2, <2>2, <3>1 DEF SentInv, BehindUnsaved
    <3> QED
      <4>1. CASE w = u
        BY <1>3, <4>1
      <4>2. CASE w # u
        BY <1>3, <3>1, <3>2, <4>2
      <4> QED
        BY <4>1, <4>2
  <2>3. status[campaign] # "none"
    BY <1>2 DEF SentInv, BehindUnsaved
  <2> QED
    BY <1>2, <2>1, <2>2, <2>3 DEF BehindUnsaved, Covered
<1>8. SavedNotRepeated'
  <2>1. campaign \in Campaigns /\ last[campaign] \in Users \cup {0} /\ upto \in Users \cup {0}
    BY <1>2 DEF TypeOK, CampaignsOK, SendingOK
  <2>2. last[campaign] \in Nat /\ upto \in Nat /\ u \in Nat
    <3>1. \A v \in Users : v \in Nat
      BY UserFacts
    <3> QED
      BY <1>1, <2>1, <3>1
  <2>3. last[campaign] <= upto /\ u > upto
    BY <1>2 DEF SentInv, SavedNotRepeated
  <2>4. last[campaign] < u /\ last[campaign] <= u
    BY <2>2, <2>3
  <2>5. ASSUME NEW v \in batch' PROVE v > u
    <3>1. v \in batch /\ v # u /\ u <= v
      BY <1>1, <1>2, <2>5
    <3>2. v \in Nat
      BY <3>1, UserFacts DEF TypeOK, SendingOK
    <3> QED
      BY <2>2, <3>1, <3>2
  <2> QED
    BY <1>2, <2>4, <2>5 DEF SavedNotRepeated
<1> QED
  BY <1>4, <1>5, <1>7, <1>8 DEF SentInv

(* What a statement at the end of a cycle may save, and when it may close. *)
LEMMA CloseSent ==
  ASSUME TypeOK, SentInv, NEW o \in Outcomes, NEW s \in {"pending", "done", "failed"},
         NEW p \in Users \cup {0}, Close(o, s, p), campaign \in Campaigns, status[campaign] # "none",
         \A u \in Users : u <= p => Covered(campaign, u),
         s = "done" => \A u \in Users : Covered(campaign, u)
  PROVE  SentInv'
<1>1. /\ UNCHANGED <<users, banned, reached, excused>> /\ pc' = "idle"
      /\ status' = [status EXCEPT ![campaign] = IF o.done /\ status[campaign] = "running" THEN s ELSE @]
      /\ last' = [last EXCEPT ![campaign] = IF o.done /\ status[campaign] = "running" THEN p ELSE @]
  BY DEF Close, Idle, people, history
<1>2. \A c, u : Covered(c, u)' <=> Covered(c, u)
  BY <1>1 DEF Covered
<1>3. AbsentExcused'
  <2>1. \A c \in Campaigns : status[c] = "none" => status'[c] = "none"
    BY <1>1 DEF TypeOK, CampaignsOK
  <2> QED
    BY <1>1, <2>1, AbsentFrame DEF SentInv
<1>4. BehindSaved'
  <2> SUFFICES ASSUME NEW c \in Campaigns, NEW u \in Users, u <= last'[c] PROVE Covered(c, u)
    BY <1>2 DEF BehindSaved
  <2>1. last'[c] = last[c] \/ (c = campaign /\ last'[c] = p)
    <3>1. last \in [Campaigns -> Users \cup {0}]
      BY DEF TypeOK, CampaignsOK
    <3> QED
      BY <1>1, <3>1
  <2>2. u <= last[c] \/ (c = campaign /\ u <= p)
    BY <2>1
  <2> QED
    BY <2>2 DEF SentInv, BehindSaved
<1>5. NobodySkipped'
  <2> SUFFICES ASSUME NEW c \in Campaigns, status'[c] = "done", NEW u \in Users PROVE Covered(c, u)
    BY <1>1 DEF NobodySkipped, Covered
  <2>1. status'[c] = status[c] \/ (c = campaign /\ status'[c] = s)
    <3>1. DOMAIN status = Campaigns
      BY DEF TypeOK, CampaignsOK
    <3> QED
      BY <1>1, <3>1
  <2>2. status[c] = "done" \/ (c = campaign /\ s = "done")
    BY <2>1
  <2> QED
    BY <2>2 DEF SentInv, NobodySkipped, Covered
<1> QED
  BY <1>1, <1>3, <1>4, <1>5 DEF SentInv, BehindUnsaved, SavedNotRepeated

(* Every step does. *)
LEMMA SentStep ==
  ASSUME TypeOK, SentInv, [Next]_vars
  PROVE  SentInv'
<1>1. CASE World
  BY <1>1, WorldSent
<1>2. CASE StartCycle \/ Tell \/ NextKind \/ NothingToSend
  <2>1. /\ Grows /\ NoneDone /\ UNCHANGED <<users, banned, excused, status, last>>
        /\ pc' \notin {"listing", "writing", "saving", "finishing", "failing"}
    BY <1>2 DEF StartCycle, Tell, NextKind, NothingToSend, Idle, Grows, NoneDone, people,
       campaigns, history
  <2> QED
    BY <2>1, SentAway, AbsentFrame DEF SentInv
<1>3. ASSUME NEW u \in batch, WriteNext(u) PROVE SentInv'
  BY <1>3, WriteSent
<1>4. ASSUME NEW o \in Outcomes, Goroutine(o) PROVE SentInv'
  <2>1. CASE QueryDue(o) \/ \E d \in todo : MarkReminder(d, o)
    <3>1. /\ Grows /\ NoneDone /\ UNCHANGED <<users, banned, excused, status, last>>
          /\ pc' \notin {"listing", "writing", "saving", "finishing", "failing"}
      BY <2>1 DEF QueryDue, MarkReminder, Grows, NoneDone, people, campaigns, history
    <3> QED
      BY <3>1, SentAway, AbsentFrame DEF SentInv
  <2>2. CASE SaveProgress(o)
    <3>1. /\ campaign \in Campaigns /\ upto \in Users \cup {0} /\ status[campaign] # "none"
          /\ \A u \in Users : u <= upto => Covered(campaign, u)
      BY <2>2 DEF SaveProgress, TypeOK, SendingOK, SentInv, BehindUnsaved
    <3> QED
      BY <2>2, <3>1, CloseSent DEF SaveProgress
  <2>3. CASE FinishCampaign(o) \/ FailCampaign(o)
    <3>1. /\ campaign \in Campaigns /\ last[campaign] \in Users \cup {0} /\ status[campaign] # "none"
          /\ FinishCampaign(o) => \A u \in Users : Covered(campaign, u)
      BY <2>3 DEF FinishCampaign, FailCampaign, TypeOK, CampaignsOK, SendingOK, SentInv, BehindUnsaved
    <3>2. \A u \in Users : u <= last[campaign] => Covered(campaign, u)
      BY <3>1 DEF SentInv, BehindSaved
    <3> QED
      BY <2>3, <3>1, <3>2, CloseSent DEF FinishCampaign, FailCampaign
  <2> QED
    BY <1>4, <2>1, <2>2, <2>3, ClaimSent, ListSent DEF Goroutine
<1>5. CASE Exit \/ Crash
  <2>1. Grows /\ NoneDone /\ UNCHANGED <<users, banned, excused, status, last>> /\ pc' = "idle"
    BY <1>5 DEF Exit, Crash, Idle, Grows, NoneDone, people, campaigns, history
  <2> QED
    BY <2>1, SentAway, AbsentFrame DEF SentInv
<1>6. CASE Stop \/ Restart \/ UNCHANGED vars
  <2>1. /\ Grows /\ NoneDone
        /\ UNCHANGED <<users, banned, excused, status, last, pc, campaign, batch, upto>>
    BY <1>6 DEF Stop, Restart, vars, Grows, NoneDone, people, campaigns, sending, history
  <2> QED
    BY <2>1, SentFrame, AbsentFrame DEF SentInv
<1> QED
  BY <1>1, <1>2, <1>3, <1>4, <1>5, <1>6 DEF Next, Unfailing

-----------------------------------------------------------------------------
(* The theorems.                                                           *)

(* At the start nothing was told, sent or started. *)
LEMMA Initially == Init => IInv
<1> SUFFICES ASSUME Init PROVE IInv
  OBVIOUS
<1>1. TypeOK
  <2>1. PeopleOK
    BY TimeFacts DEF Init, PeopleOK
  <2>2. 1 \in 1 .. Kinds + 1
    BY KindFacts
  <2> QED
    BY <2>1, <2>2 DEF Init, TypeOK, CampaignsOK, RemindingOK, SendingOK, HistoryOK, Stages
<1>2. ToldInv
  BY DEF Init, ToldInv, ToldIsMarked, InHandUntold, ToldOnce
<1>3. AbsentExcused /\ BehindUnsaved /\ NobodySkipped /\ SavedNotRepeated
  BY DEF Init, AbsentExcused, Started, BehindUnsaved, NobodySkipped, SavedNotRepeated
<1>4. BehindSaved
  BY UserFacts DEF Init, BehindSaved
<1> QED
  BY <1>1, <1>2, <1>3, <1>4 DEF IInv, SentInv

(* The inductive invariant holds in every reachable state. *)
THEOREM NotifierInvariance == Spec => []IInv
<1>1. IInv /\ [Next]_vars => IInv'
  BY TypeStep, ToldStep, SentStep DEF IInv
<1> QED
  BY Initially, <1>1, PTL DEF Spec

(* Types, for any users, campaigns and reminders. *)
THEOREM NotifierTyped == Spec => []TypeOK
<1>1. IInv => TypeOK
  BY DEF IInv
<1> QED
  BY NotifierInvariance, <1>1, PTL

(* No reminder comes twice for the same silence: the mark is set by the    *)
(* statement that decides who is written to.                               *)
THEOREM RemindersToldOnce == Spec => []ToldOnce
<1>1. IInv => ToldOnce
  BY DEF IInv, ToldInv
<1> QED
  BY NotifierInvariance, <1>1, PTL

(* A broadcast that is done has reached everyone who was there from its    *)
(* start, through crashes, lost answers and campaigns claimed again.       *)
THEOREM BroadcastsSkipNobody == Spec => []NobodySkipped
<1>1. IInv => NobodySkipped
  BY DEF IInv, SentInv
<1> QED
  BY NotifierInvariance, <1>1, PTL

(* A batch starts behind the progress that was saved and only goes         *)
(* forward, so that nothing saved is repeated or taken back.               *)
THEOREM BatchesStartBehindProgress == Spec => []SavedNotRepeated
<1>1. IInv => SavedNotRepeated
  BY DEF IInv, SentInv
<1> QED
  BY NotifierInvariance, <1>1, PTL
=============================================================================
