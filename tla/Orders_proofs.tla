--------------------------- MODULE Orders_proofs ---------------------------
(***************************************************************************)
(* Proofs about Orders for any number of orders, users and handlers and    *)
(* any set of faults: its types, ConsentRecorded, and that it implements   *)
(* Purchase.  The argument looks at one order at a time: Moves says how a  *)
(* step may change its row and its payment, and everything else follows    *)
(* from that and from what the handlers know about their orders.           *)
(***************************************************************************)
EXTENDS Orders, TLAPS

-----------------------------------------------------------------------------
(* The inductive invariant.                                                *)

(* The row of an order, the ledger and the provider agree. *)
RowAgrees(o) ==
  /\ o \in credited <=> status[o] = "paid"
  /\ status[o] \in {"paid", "manual_review"} => money[o] = "taken"
  /\ status[o] = "none" => money[o] = "none"
  /\ o \notin Sbp /\ money[o] \in {"approved", "taken", "mismatched"} =>
       status[o] \notin {"none", "created"}

(* Stages in which the order was not offered yet, *)
Fresh == {"inserting", "offering"}

(* and those that follow a notification of its payment. *)
Settling == {"checking payer", "reviewing", "review skipped", "paying", "pay skipped"}

(* What a handler in a stage may rely on, about order o seen as s. *)
Knows(stage, o, s) ==
  /\ stage = "inserting" <=> status[o] = "none"
  /\ stage \in Fresh => money[o] = "none"
  /\ stage \in Settling => money[o] = "taken"
  /\ stage = "answering" => status[o] # "created"
  /\ s \in {"precheckout_ok", "paid"} => status[o] \notin {"none", "created"}

HandlerKnows(h) == pc[h] # "idle" => Knows(pc[h], on[h], seen[h])

RowsAgree == \A o \in Orders : RowAgrees(o)

HandlersKnow == \A h \in Handlers : HandlerKnows(h)

(* Nobody else works on an order before it was offered. *)
Alone == \A g, h \in Handlers : g # h /\ pc[h] \in Fresh => on[g] # on[h]

IInv == TypeOK /\ RowsAgree /\ HandlersKnow /\ Alone

-----------------------------------------------------------------------------
(* How a step changes one order.                                           *)

(* The handler that makes an order leave this stage. *)
LeavesStage(o, stage) ==
  \E g \in Handlers : pc[g] = stage /\ on[g] = o /\ pc'[g] # stage

(* Somebody is about to fail the order. *)
Failer(o) == \E g \in Handlers : Failing(g) /\ on[g] = o

(* The arrows of orders.status; only money taken pays an order. *)
StatusMoves(o) ==
  \/ status'[o] = status[o]
  \/ status[o] = "none" /\ status'[o] = "created" /\ LeavesStage(o, "inserting")
  \/ status[o] = "created" /\ status'[o] = "precheckout_ok"
  \/ status[o] \in {"created", "precheckout_ok"} /\ status'[o] = "failed" /\ Failer(o)
  \/ /\ status[o] \in {"created", "precheckout_ok"}
     /\ status'[o] \in {"paid", "manual_review"}
     /\ money[o] = "taken"

(* The ledger learns of an order in the step that makes it paid. *)
LedgerFollows(o) ==
  o \in credited' <=> o \in credited \/ (status[o] # "paid" /\ status'[o] = "paid")

(* The arrows of the payment; money that was paid stays paid. *)
MoneyMoves(o) ==
  \/ money'[o] = money[o]
  \/ money[o] = "none" /\ money'[o] \in {"open", "offered"} /\ LeavesStage(o, "offering")
  \/ money[o] = "open" /\ money'[o] = "offered" /\ LeavesStage(o, "linking")
  \/ /\ money[o] = "offered" /\ money'[o] = "approved"
     /\ status[o] \notin {"none", "created"}
  \/ money[o] = "approved" /\ money'[o] \in {"taken", "mismatched", "offered"}
  \/ money[o] = "offered" /\ money'[o] \in {"taken", "mismatched"} /\ o \in Sbp
  \/ money[o] \in {"open", "offered"} /\ money'[o] = "canceled"

Moves(o) == StatusMoves(o) /\ LedgerFollows(o) /\ MoneyMoves(o)

Unmoved(h) == pc'[h] = pc[h] /\ on'[h] = on[h] /\ seen'[h] = seen[h]

-----------------------------------------------------------------------------
(* Types.                                                                  *)

(* NoOrder is no order, and every order has an owner and a price. *)
LEMMA OrderFacts ==
  /\ NoOrder \notin Orders
  /\ UserOf \in [Orders -> Users]
  /\ PackageCredits \in [Orders -> Nat]
  BY ConstantsAssumption DEF ConstantsAssumption

(* A busy handler has an order in hand. *)
LEMMA BusyHasOrder ==
  ASSUME TypeOK, NEW h \in Handlers, pc[h] # "idle"
  PROVE  on[h] \in Orders
  BY DEF TypeOK, ControlOK

(* Taking up an order keeps the types. *)
LEMMA BeginType ==
  ASSUME TypeOK, NEW h \in Handlers, NEW o \in Orders, NEW s \in Stages, Begin(h, o, s)
  PROVE  ControlOK'
<1>1. pc' \in [Handlers -> Stages]
  BY DEF TypeOK, ControlOK, Begin, Goto
<1>2. on' \in [Handlers -> Orders \cup {NoOrder}]
  BY DEF TypeOK, ControlOK, Begin
<1>3. seen' \in [Handlers -> OrderStatus]
  BY DEF TypeOK, ControlOK, DbOK, Begin
<1>4. \A g \in Handlers : pc'[g] # "idle" => on'[g] \in Orders
  BY DEF TypeOK, ControlOK, Begin, Goto
<1> QED
  BY <1>1, <1>2, <1>3, <1>4 DEF ControlOK

(* Going on with an order keeps the types. *)
LEMMA ContinueType ==
  ASSUME TypeOK, NEW h \in Handlers, NEW s \in Stages, Continue(h, s), pc[h] # "idle"
  PROVE  ControlOK'
<1>1. pc' \in [Handlers -> Stages]
  BY DEF TypeOK, ControlOK, Continue, Goto
<1>2. \A g \in Handlers : pc'[g] # "idle" => on'[g] \in Orders
  BY DEF TypeOK, ControlOK, Continue, Goto
<1> QED
  BY <1>1, <1>2 DEF TypeOK, ControlOK, Continue

(* Putting an order down keeps the types. *)
LEMMA FinishType ==
  ASSUME TypeOK, NEW h \in Handlers, Finish(h)
  PROVE  ControlOK'
<1>1. pc' \in [Handlers -> Stages]
  BY DEF TypeOK, ControlOK, Finish, Goto, Stages
<1>2. on' \in [Handlers -> Orders \cup {NoOrder}]
  BY DEF TypeOK, ControlOK, Finish
<1>3. seen' \in [Handlers -> OrderStatus]
  BY DEF TypeOK, ControlOK, Finish, OrderStatus
<1>4. \A g \in Handlers : pc'[g] # "idle" => on'[g] \in Orders
  BY DEF TypeOK, ControlOK, Finish, Goto
<1> QED
  BY <1>1, <1>2, <1>3, <1>4 DEF ControlOK

(* An UPDATE of a row's status keeps the types. *)
LEMMA SetStatusType ==
  ASSUME TypeOK, NEW o \in Orders, NEW s \in OrderStatus, SetStatus(o, s)
  PROVE  status' \in [Orders -> OrderStatus]
  BY DEF TypeOK, DbOK, SetStatus

(* So do the statements that close or approve an order. *)
LEMMA StatementType ==
  ASSUME TypeOK, NEW o \in Orders,
         \/ MarkOrderPrecheckout(o)
         \/ MarkOrderFailed(o)
         \/ MarkOrderManualReview(o)
         \/ SetStatus(o, "created") /\ UNCHANGED Ledger
         \/ UNCHANGED db
  PROVE  DbOK'
<1>1. status' \in [Orders -> OrderStatus]
  BY SetStatusType DEF MarkOrderPrecheckout, MarkOrderFailed, MarkOrderManualReview, db,
     TypeOK, DbOK, OrderStatus
<1>2. UNCHANGED Ledger
  BY DEF MarkOrderPrecheckout, MarkOrderFailed, MarkOrderManualReview, db, Ledger
<1> QED
  BY <1>1, <1>2 DEF TypeOK, DbOK, Ledger

(* And the payment transaction: credits are added, never taken. *)
LEMMA PayOrderType ==
  ASSUME TypeOK, NEW o \in Orders, PayOrder(o)
  PROVE  DbOK'
<1>1. status' \in [Orders -> OrderStatus]
  BY SetStatusType DEF PayOrder, OrderStatus
<1>2. Owner(o) \in Users /\ PackageCredits[o] \in Nat
  BY OrderFacts DEF Owner
<1>3. credited' \subseteq Orders
  BY DEF PayOrder, AddPurchaseCredits, TypeOK, DbOK
<1>4. credits' \in [Users -> Nat]
  BY <1>2 DEF PayOrder, AddPurchaseCredits, TypeOK, DbOK
<1>5. lastPaid' \in [Users -> {"none", "base", "boost"}]
  BY <1>2 DEF PayOrder, TypeOK, DbOK
<1> QED
  BY <1>1, <1>3, <1>4, <1>5 DEF DbOK

-----------------------------------------------------------------------------
(* Every step keeps the types. *)
LEMMA TypeStep ==
  ASSUME TypeOK, [Next]_vars
  PROVE  TypeOK'
<1>1. ASSUME NEW h \in Handlers, NEW o \in Orders, StartOrder(h, o) PROVE TypeOK'
  <2>1. ControlOK'
    BY <1>1, BeginType DEF StartOrder, Stages
  <2>2. DbOK'
    BY <1>1 DEF StartOrder, db, TypeOK, DbOK
  <2>3. ProviderOK'
    BY <1>1 DEF StartOrder, provider, TypeOK, ProviderOK
  <2> QED
    BY <1>1, <2>1, <2>2, <2>3 DEF StartOrder, TypeOK
<1>2. ASSUME NEW h \in Handlers, NEW o \in Orders, StartPreCheckout(h, o) PROVE TypeOK'
  <2>1. ControlOK'
    BY <1>2, BeginType DEF StartPreCheckout, Stages
  <2>2. DbOK'
    BY <1>2 DEF StartPreCheckout, db, TypeOK, DbOK
  <2>3. ProviderOK'
    BY <1>2 DEF StartPreCheckout, provider, TypeOK, ProviderOK
  <2> QED
    BY <1>2, <2>1, <2>2, <2>3 DEF StartPreCheckout, TypeOK
<1>3. ASSUME NEW h \in Handlers, NEW o \in Orders, StartPayment(h, o) PROVE TypeOK'
  <2>1. ControlOK'
    BY <1>3, BeginType DEF StartPayment, Stages
  <2>2. DbOK'
    BY <1>3 DEF StartPayment, db, TypeOK, DbOK
  <2>3. ProviderOK'
    BY <1>3 DEF StartPayment, Acknowledge, provider, TypeOK, ProviderOK
  <2> QED
    BY <1>3, <2>1, <2>2, <2>3 DEF StartPayment, TypeOK
<1>4. ASSUME NEW h \in Handlers, NEW o \in Orders, StartWebhook(h, o) PROVE TypeOK'
  <2>1. ControlOK'
    BY <1>4, BeginType DEF StartWebhook, Stages
  <2>2. DbOK'
    BY <1>4 DEF StartWebhook, db, TypeOK, DbOK
  <2>3. ProviderOK'
    BY <1>4 DEF StartWebhook, provider, TypeOK, ProviderOK
  <2> QED
    BY <1>4, <2>1, <2>2, <2>3 DEF StartWebhook, TypeOK
<1>5. ASSUME NEW h \in Handlers, InsertOrder(h) PROVE TypeOK'
  <2>1. pc[h] # "idle" /\ on[h] \in Orders
    BY <1>5, BusyHasOrder DEF InsertOrder
  <2>2. ControlOK'
    BY <1>5, <2>1, ContinueType DEF InsertOrder, Stages
  <2>3. DbOK'
    BY <1>5, <2>1, StatementType DEF InsertOrder, db, Ledger
  <2>4. ProviderOK'
    BY <1>5, <2>1 DEF InsertOrder, provider, TypeOK, ProviderOK, Money
  <2> QED
    BY <1>5, <2>2, <2>3, <2>4 DEF InsertOrder, TypeOK
<1>6. ASSUME NEW h \in Handlers, Offer(h) PROVE TypeOK'
  <2>1. pc[h] # "idle" /\ on[h] \in Orders
    BY <1>6, BusyHasOrder DEF Offer
  <2>2. ControlOK'
    BY <1>6, <2>1, ContinueType, FinishType DEF Offer, Stages
  <2>3. DbOK'
    BY <1>6, <2>1, StatementType DEF Offer, db, Ledger
  <2>4. ProviderOK'
    BY <1>6, <2>1 DEF Offer, provider, TypeOK, ProviderOK, Money
  <2> QED
    BY <1>6, <2>2, <2>3, <2>4 DEF Offer, TypeOK
<1>7. ASSUME NEW h \in Handlers, SendLink(h) PROVE TypeOK'
  <2>1. pc[h] # "idle" /\ on[h] \in Orders
    BY <1>7, BusyHasOrder DEF SendLink
  <2>2. ControlOK'
    BY <1>7, <2>1, FinishType DEF SendLink, Stages
  <2>3. DbOK'
    BY <1>7, <2>1, StatementType DEF SendLink, db, Ledger
  <2>4. ProviderOK'
    BY <1>7, <2>1 DEF SendLink, CanPay, provider, TypeOK, ProviderOK, Money
  <2> QED
    BY <1>7, <2>2, <2>3, <2>4 DEF SendLink, TypeOK
<1>8. ASSUME NEW h \in Handlers, CheckUser(h) PROVE TypeOK'
  <2>1. pc[h] # "idle" /\ on[h] \in Orders
    BY <1>8, BusyHasOrder DEF CheckUser
  <2>2. ControlOK'
    BY <1>8, <2>1, ContinueType DEF CheckUser, Stages
  <2>3. DbOK'
    BY <1>8, <2>1, StatementType DEF CheckUser, db, Ledger
  <2>4. ProviderOK'
    BY <1>8, <2>1 DEF CheckUser, provider, TypeOK, ProviderOK, Money
  <2> QED
    BY <1>8, <2>2, <2>3, <2>4 DEF CheckUser, TypeOK
<1>9. ASSUME NEW h \in Handlers, CheckBoost(h) PROVE TypeOK'
  <2>1. pc[h] # "idle" /\ on[h] \in Orders
    BY <1>9, BusyHasOrder DEF CheckBoost
  <2>2. ControlOK'
    BY <1>9, <2>1, ContinueType, FinishType DEF CheckBoost, Stages
  <2>3. DbOK'
    BY <1>9, <2>1, StatementType DEF CheckBoost, db, Ledger
  <2>4. ProviderOK'
    BY <1>9, <2>1 DEF CheckBoost, provider, TypeOK, ProviderOK, Money
  <2> QED
    BY <1>9, <2>2, <2>3, <2>4 DEF CheckBoost, TypeOK
<1>10. ASSUME NEW h \in Handlers, MarkPreCheckout(h) PROVE TypeOK'
  <2>1. pc[h] # "idle" /\ on[h] \in Orders
    BY <1>10, BusyHasOrder DEF MarkPreCheckout
  <2>2. ControlOK'
    BY <1>10, <2>1, ContinueType, FinishType DEF MarkPreCheckout, Stages
  <2>3. DbOK'
    BY <1>10, <2>1, StatementType DEF MarkPreCheckout, db, Ledger
  <2>4. ProviderOK'
    BY <1>10, <2>1 DEF MarkPreCheckout, provider, TypeOK, ProviderOK, Money
  <2> QED
    BY <1>10, <2>2, <2>3, <2>4 DEF MarkPreCheckout, TypeOK
<1>11. ASSUME NEW h \in Handlers, AnswerPreCheckout(h) PROVE TypeOK'
  <2>1. pc[h] # "idle" /\ on[h] \in Orders
    BY <1>11, BusyHasOrder DEF AnswerPreCheckout
  <2>2. ControlOK'
    BY <1>11, <2>1, FinishType DEF AnswerPreCheckout, Stages
  <2>3. DbOK'
    BY <1>11, <2>1, StatementType DEF AnswerPreCheckout, db, Ledger
  <2>4. ProviderOK'
    BY <1>11, <2>1 DEF AnswerPreCheckout, provider, TypeOK, ProviderOK, Money
  <2> QED
    BY <1>11, <2>2, <2>3, <2>4 DEF AnswerPreCheckout, TypeOK
<1>12. ASSUME NEW h \in Handlers, CheckPayer(h) PROVE TypeOK'
  <2>1. pc[h] # "idle" /\ on[h] \in Orders
    BY <1>12, BusyHasOrder DEF CheckPayer
  <2>2. ControlOK'
    BY <1>12, <2>1, ContinueType DEF CheckPayer, Stages
  <2>3. DbOK'
    BY <1>12, <2>1, StatementType DEF CheckPayer, db, Ledger
  <2>4. ProviderOK'
    BY <1>12, <2>1 DEF CheckPayer, provider, TypeOK, ProviderOK, Money
  <2> QED
    BY <1>12, <2>2, <2>3, <2>4 DEF CheckPayer, TypeOK
<1>13. ASSUME NEW h \in Handlers, MarkManualReview(h) PROVE TypeOK'
  <2>1. pc[h] # "idle" /\ on[h] \in Orders
    BY <1>13, BusyHasOrder DEF MarkManualReview
  <2>2. ControlOK'
    BY <1>13, <2>1, ContinueType, FinishType DEF MarkManualReview, Stages
  <2>3. DbOK'
    BY <1>13, <2>1, StatementType DEF MarkManualReview, db, Ledger
  <2>4. ProviderOK'
    BY <1>13, <2>1 DEF MarkManualReview, Acknowledge, provider, TypeOK, ProviderOK, Money
  <2> QED
    BY <1>13, <2>2, <2>3, <2>4 DEF MarkManualReview, TypeOK
<1>14. ASSUME NEW h \in Handlers, ReviewSkipped(h) PROVE TypeOK'
  <2>1. pc[h] # "idle" /\ on[h] \in Orders
    BY <1>14, BusyHasOrder DEF ReviewSkipped
  <2>2. ControlOK'
    BY <1>14, <2>1, FinishType DEF ReviewSkipped, Skipped, Stages
  <2>3. DbOK'
    BY <1>14, <2>1, StatementType DEF ReviewSkipped, Skipped, db, Ledger
  <2>4. ProviderOK'
    BY <1>14, <2>1 DEF ReviewSkipped, Skipped, Acknowledge, provider, TypeOK, ProviderOK, Money
  <2> QED
    BY <1>14, <2>2, <2>3, <2>4 DEF ReviewSkipped, Skipped, TypeOK
<1>15. ASSUME NEW h \in Handlers, MarkPaid(h) PROVE TypeOK'
  <2>1. pc[h] # "idle" /\ on[h] \in Orders
    BY <1>15, BusyHasOrder DEF MarkPaid
  <2>2. ControlOK'
    BY <1>15, <2>1, ContinueType, FinishType DEF MarkPaid, Stages
  <2>3. DbOK'
    BY <1>15, <2>1, StatementType, PayOrderType DEF MarkPaid, db, Ledger
  <2>4. ProviderOK'
    BY <1>15, <2>1 DEF MarkPaid, Acknowledge, provider, TypeOK, ProviderOK, Money
  <2> QED
    BY <1>15, <2>2, <2>3, <2>4 DEF MarkPaid, TypeOK
<1>16. ASSUME NEW h \in Handlers, PaySkipped(h) PROVE TypeOK'
  <2>1. pc[h] # "idle" /\ on[h] \in Orders
    BY <1>16, BusyHasOrder DEF PaySkipped
  <2>2. ControlOK'
    BY <1>16, <2>1, FinishType DEF PaySkipped, Skipped, Stages
  <2>3. DbOK'
    BY <1>16, <2>1, StatementType DEF PaySkipped, Skipped, db, Ledger
  <2>4. ProviderOK'
    BY <1>16, <2>1 DEF PaySkipped, Skipped, Acknowledge, provider, TypeOK, ProviderOK, Money
  <2> QED
    BY <1>16, <2>2, <2>3, <2>4 DEF PaySkipped, Skipped, TypeOK
<1>17. ASSUME NEW h \in Handlers, FailOrder(h) PROVE TypeOK'
  <2>1. pc[h] # "idle" /\ on[h] \in Orders
    BY <1>17, BusyHasOrder DEF FailOrder, Failing
  <2>2. ControlOK'
    BY <1>17, <2>1, FinishType DEF FailOrder, Failing, AnswerFailing, Stages
  <2>3. DbOK'
    BY <1>17, <2>1, StatementType DEF FailOrder, db, Ledger
  <2>4. ProviderOK'
    BY <1>17, <2>1 DEF FailOrder, Failing, AnswerFailing, Acknowledge, provider, TypeOK, ProviderOK, Money
  <2> QED
    BY <1>17, <2>2, <2>3, <2>4 DEF FailOrder, TypeOK
<1>18. ASSUME NEW h \in Handlers, OfferFails(h) PROVE TypeOK'
  <2>1. pc[h] # "idle" /\ on[h] \in Orders
    BY <1>18, BusyHasOrder DEF OfferFails
  <2>2. ControlOK'
    BY <1>18, <2>1, ContinueType, FinishType DEF OfferFails, Stages
  <2>3. DbOK'
    BY <1>18, <2>1, StatementType DEF OfferFails, db, Ledger
  <2>4. ProviderOK'
    BY <1>18, <2>1 DEF OfferFails, provider, TypeOK, ProviderOK, Money
  <2> QED
    BY <1>18, <2>2, <2>3, <2>4 DEF OfferFails, TypeOK
<1>19. ASSUME NEW h \in Handlers, OfferWithoutLink(h) PROVE TypeOK'
  <2>1. pc[h] # "idle" /\ on[h] \in Orders
    BY <1>19, BusyHasOrder DEF OfferWithoutLink
  <2>2. ControlOK'
    BY <1>19, <2>1, ContinueType DEF OfferWithoutLink, Stages
  <2>3. DbOK'
    BY <1>19, <2>1, StatementType DEF OfferWithoutLink, db, Ledger
  <2>4. ProviderOK'
    BY <1>19, <2>1 DEF OfferWithoutLink, provider, TypeOK, ProviderOK, Money
  <2> QED
    BY <1>19, <2>2, <2>3, <2>4 DEF OfferWithoutLink, TypeOK
<1>20. ASSUME NEW h \in Handlers, SendLinkFails(h) PROVE TypeOK'
  <2>1. pc[h] # "idle" /\ on[h] \in Orders
    BY <1>20, BusyHasOrder DEF SendLinkFails
  <2>2. ControlOK'
    BY <1>20, <2>1, FinishType DEF SendLinkFails, Stages
  <2>3. DbOK'
    BY <1>20, <2>1, StatementType DEF SendLinkFails, db, Ledger
  <2>4. ProviderOK'
    BY <1>20, <2>1 DEF SendLinkFails, provider, TypeOK, ProviderOK, Money
  <2> QED
    BY <1>20, <2>2, <2>3, <2>4 DEF SendLinkFails, TypeOK
<1>21. ASSUME NEW h \in Handlers, AnswerFails(h) PROVE TypeOK'
  <2>1. pc[h] # "idle" /\ on[h] \in Orders
    BY <1>21, BusyHasOrder DEF AnswerFails
  <2>2. ControlOK'
    BY <1>21, <2>1, FinishType DEF AnswerFails, Stages
  <2>3. DbOK'
    BY <1>21, <2>1, StatementType DEF AnswerFails, db, Ledger
  <2>4. ProviderOK'
    BY <1>21, <2>1 DEF AnswerFails, provider, TypeOK, ProviderOK, Money
  <2> QED
    BY <1>21, <2>2, <2>3, <2>4 DEF AnswerFails, TypeOK
<1>22. ASSUME NEW h \in Handlers, FailOrderFails(h) PROVE TypeOK'
  <2>1. pc[h] # "idle" /\ on[h] \in Orders
    BY <1>22, BusyHasOrder DEF FailOrderFails, Failing
  <2>2. ControlOK'
    BY <1>22, <2>1, FinishType DEF FailOrderFails, Failing, AnswerFailing, Stages
  <2>3. DbOK'
    BY <1>22, <2>1, StatementType DEF FailOrderFails, db, Ledger
  <2>4. ProviderOK'
    BY <1>22, <2>1 DEF FailOrderFails, Failing, AnswerFailing, Acknowledge, provider, TypeOK, ProviderOK, Money
  <2> QED
    BY <1>22, <2>2, <2>3, <2>4 DEF FailOrderFails, TypeOK
<1>23. ASSUME NEW h \in Handlers, HandlerFails(h) PROVE TypeOK'
  <2>1. pc[h] # "idle" /\ on[h] \in Orders
    BY <1>23, BusyHasOrder DEF HandlerFails
  <2>2. ControlOK'
    BY <1>23, <2>1, FinishType DEF HandlerFails, Stages
  <2>3. DbOK'
    BY <1>23, <2>1, StatementType DEF HandlerFails, db, Ledger
  <2>4. ProviderOK'
    BY <1>23, <2>1 DEF HandlerFails, provider, TypeOK, ProviderOK, Money
  <2> QED
    BY <1>23, <2>2, <2>3, <2>4 DEF HandlerFails, TypeOK
<1>24. ASSUME NEW h \in Handlers, AnswerLost(h) PROVE TypeOK'
  <2>1. pc[h] # "idle" /\ on[h] \in Orders
    BY <1>24, BusyHasOrder DEF AnswerLost
  <2>2. ControlOK'
    BY <1>24, <2>1, FinishType DEF AnswerLost, Stages
  <2>3. DbOK'
    BY <1>24, <2>1, StatementType, PayOrderType DEF AnswerLost, db, Ledger
  <2>4. ProviderOK'
    BY <1>24, <2>1 DEF AnswerLost, provider, TypeOK, ProviderOK, Money
  <2> QED
    BY <1>24, <2>2, <2>3, <2>4 DEF AnswerLost, TypeOK
<1>25. ASSUME NEW o \in Orders, Take(o) PROVE TypeOK'
  <2>1. ProviderOK'
    BY <1>25 DEF Take, Acknowledge, TypeOK, ProviderOK, Money
  <2> QED
    BY <1>25, <2>1 DEF Take, TypeOK, db, DbOK, control, ControlOK
<1>26. ASSUME NEW o \in Orders, Decline(o) PROVE TypeOK'
  <2>1. ProviderOK'
    BY <1>26 DEF Decline, TypeOK, ProviderOK, Money
  <2> QED
    BY <1>26, <2>1 DEF Decline, TypeOK, db, DbOK, control, ControlOK
<1>27. ASSUME NEW o \in Orders, Cancel(o) PROVE TypeOK'
  <2>1. ProviderOK'
    BY <1>27 DEF Cancel, TypeOK, ProviderOK, Money
  <2> QED
    BY <1>27, <2>1 DEF Cancel, TypeOK, db, DbOK, control, ControlOK
<1>28. ASSUME NEW o \in Orders, IgnoreCancellation(o) PROVE TypeOK'
  <2>1. ProviderOK'
    BY <1>28 DEF IgnoreCancellation, Acknowledge, TypeOK, ProviderOK, Money
  <2> QED
    BY <1>28, <2>1 DEF IgnoreCancellation, TypeOK, db, DbOK, control, ControlOK
<1>29. ASSUME NEW u \in Users, SetBan(u) PROVE TypeOK'
  BY <1>29 DEF SetBan, TypeOK, db, DbOK, provider, ProviderOK, control, ControlOK
<1>30. ASSUME Restart PROVE TypeOK'
  BY <1>30 DEF Restart, TypeOK, db, DbOK, provider, ProviderOK, ControlOK, Stages, OrderStatus
<1>31. ASSUME UNCHANGED vars PROVE TypeOK'
  BY <1>31 DEF vars, TypeOK, db, DbOK, provider, ProviderOK, control, ControlOK
<1> QED
  BY <1>1, <1>2, <1>3, <1>4, <1>5, <1>6, <1>7, <1>8, <1>9, <1>10, <1>11,
     <1>12, <1>13, <1>14, <1>15, <1>16, <1>17, <1>18, <1>19, <1>20, <1>21,
     <1>22, <1>23, <1>24, <1>25, <1>26, <1>27, <1>28, <1>29, <1>30, <1>31 DEF
     Next, Starts, Ordering, PreCheckout, Payment, HandlerFault

-----------------------------------------------------------------------------
(* How the rows of all orders move, statement by statement.                *)

(* Moves without its money, and its money, for all orders. *)
RowsMove == \A q \in Orders : StatusMoves(q) /\ LedgerFollows(q)

MoneyMovesAll == \A q \in Orders : MoneyMoves(q)

(* The row moves of a step that leaves the database alone. *)
LEMMA RowsStay == UNCHANGED db => RowsMove
  BY DEF db, RowsMove, StatusMoves, LedgerFollows

(* A new row. *)
LEMMA InsertMoves ==
  ASSUME IInv, NEW h \in Handlers, pc[h] = "inserting", pc'[h] # "inserting",
         SetStatus(on[h], "created"), UNCHANGED Ledger
  PROVE  RowsMove
<1>1. on[h] \in Orders /\ status[on[h]] = "none"
  BY BusyHasOrder DEF IInv, HandlersKnow, HandlerKnows, Knows
<1>2. status' = [status EXCEPT ![on[h]] = "created"] /\ credited' = credited
  BY DEF SetStatus, Ledger
<1>3. LeavesStage(on[h], "inserting")
  BY DEF LeavesStage
<1>4. ASSUME NEW q \in Orders PROVE StatusMoves(q) /\ LedgerFollows(q)
  BY <1>1, <1>2, <1>3, <1>4 DEF StatusMoves, LedgerFollows, IInv, TypeOK, DbOK
<1> QED
  BY <1>4 DEF RowsMove

(* Statements that move no credits. *)
LEMMA StatementMoves ==
  ASSUME IInv, NEW o \in Orders,
         \/ MarkOrderPrecheckout(o)
         \/ MarkOrderFailed(o) /\ Failer(o)
         \/ MarkOrderManualReview(o) /\ money[o] = "taken"
  PROVE  RowsMove
<1>1. credited' = credited
  BY DEF MarkOrderPrecheckout, MarkOrderFailed, MarkOrderManualReview, Ledger
<1>2. ASSUME NEW q \in Orders PROVE StatusMoves(q) /\ (status[q] # "paid" => status'[q] # "paid")
  BY <1>2 DEF MarkOrderPrecheckout, MarkOrderFailed, MarkOrderManualReview, Payable,
     SetStatus, StatusMoves, IInv, TypeOK, DbOK
<1> QED
  BY <1>1, <1>2 DEF RowsMove, LedgerFollows

(* The payment transaction credits its order and no other. *)
LEMMA PayMoves ==
  ASSUME IInv, NEW o \in Orders, PayOrder(o), money[o] = "taken"
  PROVE  RowsMove
<1>1. o \notin credited
  BY DEF PayOrder, Payable, IInv, RowsAgree, RowAgrees
<1>2. credited' = credited \cup {o}
  BY <1>1 DEF PayOrder, AddPurchaseCredits
<1>3. ASSUME NEW q \in Orders PROVE StatusMoves(q) /\ LedgerFollows(q)
  BY <1>2, <1>3 DEF PayOrder, Payable, SetStatus, StatusMoves, LedgerFollows, IInv, TypeOK, DbOK
<1> QED
  BY <1>3 DEF RowsMove

(* The money moves of a step that leaves the payments alone. *)
LEMMA MoneyStays == UNCHANGED money => MoneyMovesAll
  BY DEF MoneyMovesAll, MoneyMoves

(* An offer reaches the provider. *)
LEMMA OfferMoves ==
  ASSUME IInv, NEW h \in Handlers, pc[h] = "offering", pc'[h] # "offering",
         NEW m \in {"open", "offered"}, money' = [money EXCEPT ![on[h]] = m]
  PROVE  MoneyMovesAll
<1>1. on[h] \in Orders /\ money[on[h]] = "none"
  BY BusyHasOrder DEF IInv, HandlersKnow, HandlerKnows, Knows, Fresh
<1>2. LeavesStage(on[h], "offering")
  BY DEF LeavesStage
<1>3. ASSUME NEW q \in Orders PROVE MoneyMoves(q)
  BY <1>1, <1>2, <1>3 DEF MoneyMoves, IInv, TypeOK, ProviderOK
<1> QED
  BY <1>3 DEF MoneyMovesAll

(* A handler that finishes is idle. *)
LEMMA LeavesOnFinish ==
  ASSUME IInv, NEW h \in Handlers, Finish(h)
  PROVE  pc'[h] = "idle"
  BY DEF Finish, Goto, IInv, TypeOK, ControlOK

(* A handler that goes on is in the stage it goes to. *)
LEMMA LeavesOnContinue ==
  ASSUME IInv, NEW h \in Handlers, NEW s, Continue(h, s)
  PROVE  pc'[h] = s
  BY DEF Continue, Goto, IInv, TypeOK, ControlOK

(* Every step moves every order as Moves says. *)
LEMMA MovesStep ==
  ASSUME IInv, [Next]_vars
  PROVE  \A o \in Orders : Moves(o)
<1> SUFFICES RowsMove /\ MoneyMovesAll
  BY DEF Moves, RowsMove, MoneyMovesAll
<1>1. ASSUME NEW h \in Handlers, NEW o \in Orders, StartOrder(h, o) PROVE RowsMove /\ MoneyMovesAll
  BY <1>1, RowsStay, MoneyStays DEF StartOrder, provider
<1>2. ASSUME NEW h \in Handlers, NEW o \in Orders, StartPreCheckout(h, o) PROVE RowsMove /\ MoneyMovesAll
  BY <1>2, RowsStay, MoneyStays DEF StartPreCheckout, provider
<1>3. ASSUME NEW h \in Handlers, NEW o \in Orders, StartPayment(h, o) PROVE RowsMove /\ MoneyMovesAll
  BY <1>3, RowsStay, MoneyStays DEF StartPayment, provider
<1>4. ASSUME NEW h \in Handlers, NEW o \in Orders, StartWebhook(h, o) PROVE RowsMove /\ MoneyMovesAll
  BY <1>4, RowsStay, MoneyStays DEF StartWebhook, provider
<1>5. ASSUME NEW h \in Handlers, InsertOrder(h) PROVE RowsMove /\ MoneyMovesAll
  <2>1. pc[h] # "idle" /\ on[h] \in Orders
    BY <1>5, BusyHasOrder DEF InsertOrder, IInv
  <2>2. pc'[h] = "offering"
    BY <1>5, <2>1, LeavesOnContinue DEF InsertOrder
  <2>3. RowsMove
    BY <1>5, <2>1, <2>2, InsertMoves DEF InsertOrder
  <2>4. MoneyMovesAll
    BY <1>5, <2>1, <2>2, <2>3, MoneyStays DEF InsertOrder, provider
  <2> QED
    BY <2>3, <2>4
<1>6. ASSUME NEW h \in Handlers, Offer(h) PROVE RowsMove /\ MoneyMovesAll
  <2>1. pc[h] # "idle" /\ on[h] \in Orders
    BY <1>6, BusyHasOrder DEF Offer, IInv
  <2>2. RowsMove
    BY <1>6, <2>1, RowsStay DEF Offer
  <2>3. pc'[h] # "offering"
    BY <1>6, <2>1, <2>2, LeavesOnFinish, LeavesOnContinue DEF Offer
  <2>4. RowsMove
    BY <1>6, <2>1, <2>2, <2>3, RowsStay DEF Offer
  <2>5. MoneyMovesAll
    BY <1>6, <2>1, <2>2, <2>3, <2>4, OfferMoves DEF Offer
  <2> QED
    BY <2>4, <2>5
<1>7. ASSUME NEW h \in Handlers, SendLink(h) PROVE RowsMove /\ MoneyMovesAll
  <2>1. pc[h] # "idle" /\ on[h] \in Orders
    BY <1>7, BusyHasOrder DEF SendLink, IInv
  <2>2. RowsMove
    BY <1>7, <2>1, RowsStay DEF SendLink
  <2>3. LeavesStage(on[h], "linking")
    BY <1>7, <2>1, LeavesOnFinish DEF SendLink, LeavesStage
  <2>4. \A q \in Orders : MoneyMoves(q)
    BY <1>7, <2>1, <2>3 DEF SendLink, CanPay, MoneyMoves, IInv, TypeOK, ProviderOK
  <2> QED
    BY <2>2, <2>4 DEF MoneyMovesAll
<1>8. ASSUME NEW h \in Handlers, CheckUser(h) PROVE RowsMove /\ MoneyMovesAll
  BY <1>8, RowsStay, MoneyStays DEF CheckUser, provider
<1>9. ASSUME NEW h \in Handlers, CheckBoost(h) PROVE RowsMove /\ MoneyMovesAll
  BY <1>9, RowsStay, MoneyStays DEF CheckBoost, provider
<1>10. ASSUME NEW h \in Handlers, MarkPreCheckout(h) PROVE RowsMove /\ MoneyMovesAll
  <2>1. pc[h] # "idle" /\ on[h] \in Orders
    BY <1>10, BusyHasOrder DEF MarkPreCheckout, IInv
  <2>2. RowsMove
    BY <1>10, <2>1, RowsStay, StatementMoves DEF MarkPreCheckout
  <2>3. MoneyMovesAll
    BY <1>10, <2>1, <2>2, MoneyStays DEF MarkPreCheckout, provider
  <2> QED
    BY <2>2, <2>3
<1>11. ASSUME NEW h \in Handlers, AnswerPreCheckout(h) PROVE RowsMove /\ MoneyMovesAll
  <2>1. pc[h] # "idle" /\ on[h] \in Orders
    BY <1>11, BusyHasOrder DEF AnswerPreCheckout, IInv
  <2>2. RowsMove
    BY <1>11, <2>1, RowsStay DEF AnswerPreCheckout
  <2>3. status[on[h]] \notin {"none", "created"}
    BY <1>11, <2>1, <2>2 DEF AnswerPreCheckout, IInv, HandlersKnow, HandlerKnows, Knows
  <2>4. \A q \in Orders : MoneyMoves(q)
    BY <1>11, <2>1, <2>2, <2>3 DEF AnswerPreCheckout, MoneyMoves, IInv, TypeOK, ProviderOK
  <2>5. RowsMove
    BY <1>11, <2>1, <2>2, <2>3, <2>4, RowsStay DEF AnswerPreCheckout
  <2>6. MoneyMovesAll
    BY <1>11, <2>1, <2>2, <2>3, <2>4, <2>5 DEF MoneyMovesAll
  <2> QED
    BY <2>5, <2>6
<1>12. ASSUME NEW h \in Handlers, CheckPayer(h) PROVE RowsMove /\ MoneyMovesAll
  BY <1>12, RowsStay, MoneyStays DEF CheckPayer, provider
<1>13. ASSUME NEW h \in Handlers, MarkManualReview(h) PROVE RowsMove /\ MoneyMovesAll
  <2>1. pc[h] # "idle" /\ on[h] \in Orders
    BY <1>13, BusyHasOrder DEF MarkManualReview, IInv
  <2>2. money[on[h]] = "taken"
    BY <1>13, <2>1 DEF MarkManualReview, IInv, HandlersKnow, HandlerKnows, Knows, Settling
  <2>3. RowsMove
    BY <1>13, <2>1, <2>2, RowsStay, StatementMoves DEF MarkManualReview
  <2>4. MoneyMovesAll
    BY <1>13, <2>1, <2>2, <2>3, MoneyStays DEF MarkManualReview, provider
  <2> QED
    BY <2>3, <2>4
<1>14. ASSUME NEW h \in Handlers, ReviewSkipped(h) PROVE RowsMove /\ MoneyMovesAll
  BY <1>14, RowsStay, MoneyStays DEF ReviewSkipped, provider, Skipped
<1>15. ASSUME NEW h \in Handlers, MarkPaid(h) PROVE RowsMove /\ MoneyMovesAll
  <2>1. pc[h] # "idle" /\ on[h] \in Orders
    BY <1>15, BusyHasOrder DEF MarkPaid, IInv
  <2>2. money[on[h]] = "taken"
    BY <1>15, <2>1 DEF MarkPaid, IInv, HandlersKnow, HandlerKnows, Knows, Settling
  <2>3. RowsMove
    BY <1>15, <2>1, <2>2, RowsStay, PayMoves DEF MarkPaid
  <2>4. MoneyMovesAll
    BY <1>15, <2>1, <2>2, <2>3, MoneyStays DEF MarkPaid, provider
  <2> QED
    BY <2>3, <2>4
<1>16. ASSUME NEW h \in Handlers, PaySkipped(h) PROVE RowsMove /\ MoneyMovesAll
  BY <1>16, RowsStay, MoneyStays DEF PaySkipped, provider, Skipped
<1>17. ASSUME NEW h \in Handlers, FailOrder(h) PROVE RowsMove /\ MoneyMovesAll
  <2>1. pc[h] # "idle" /\ on[h] \in Orders
    BY <1>17, BusyHasOrder DEF FailOrder, Failing, IInv
  <2>2. Failer(on[h])
    BY <1>17 DEF FailOrder, Failer
  <2>3. RowsMove
    BY <1>17, <2>1, <2>2, RowsStay, StatementMoves DEF FailOrder
  <2>4. MoneyMovesAll
    BY <1>17, MoneyStays DEF FailOrder
  <2> QED
    BY <2>3, <2>4
<1>18. ASSUME NEW h \in Handlers, OfferFails(h) PROVE RowsMove /\ MoneyMovesAll
  <2>1. pc[h] # "idle" /\ on[h] \in Orders
    BY <1>18, BusyHasOrder DEF OfferFails, IInv
  <2>2. RowsMove
    BY <1>18, <2>1, RowsStay DEF OfferFails
  <2>3. pc'[h] # "offering"
    BY <1>18, <2>1, <2>2, LeavesOnFinish, LeavesOnContinue DEF OfferFails
  <2>4. RowsMove
    BY <1>18, <2>1, <2>2, <2>3, RowsStay DEF OfferFails
  <2>5. MoneyMovesAll
    BY <1>18, <2>1, <2>2, <2>3, <2>4, OfferMoves, MoneyStays DEF OfferFails
  <2> QED
    BY <2>4, <2>5
<1>19. ASSUME NEW h \in Handlers, OfferWithoutLink(h) PROVE RowsMove /\ MoneyMovesAll
  <2>1. pc[h] # "idle" /\ on[h] \in Orders
    BY <1>19, BusyHasOrder DEF OfferWithoutLink, IInv
  <2>2. RowsMove
    BY <1>19, <2>1, RowsStay DEF OfferWithoutLink
  <2>3. pc'[h] # "offering"
    BY <1>19, <2>1, <2>2, LeavesOnContinue DEF OfferWithoutLink
  <2>4. RowsMove
    BY <1>19, <2>1, <2>2, <2>3, RowsStay DEF OfferWithoutLink
  <2>5. MoneyMovesAll
    BY <1>19, <2>1, <2>2, <2>3, <2>4, OfferMoves DEF OfferWithoutLink
  <2> QED
    BY <2>4, <2>5
<1>20. ASSUME NEW h \in Handlers, SendLinkFails(h) PROVE RowsMove /\ MoneyMovesAll
  BY <1>20, RowsStay, MoneyStays DEF SendLinkFails, provider
<1>21. ASSUME NEW h \in Handlers, AnswerFails(h) PROVE RowsMove /\ MoneyMovesAll
  BY <1>21, RowsStay, MoneyStays DEF AnswerFails, provider
<1>22. ASSUME NEW h \in Handlers, FailOrderFails(h) PROVE RowsMove /\ MoneyMovesAll
  <2>1. pc[h] # "idle" /\ on[h] \in Orders
    BY <1>22, BusyHasOrder DEF FailOrderFails, Failing, IInv
  <2>2. Failer(on[h])
    BY <1>22 DEF FailOrderFails, Failer
  <2>3. RowsMove
    BY <1>22, <2>1, <2>2, RowsStay, StatementMoves DEF FailOrderFails
  <2>4. MoneyMovesAll
    BY <1>22, MoneyStays DEF FailOrderFails
  <2> QED
    BY <2>3, <2>4
<1>23. ASSUME NEW h \in Handlers, HandlerFails(h) PROVE RowsMove /\ MoneyMovesAll
  BY <1>23, RowsStay, MoneyStays DEF HandlerFails, provider
<1>24. ASSUME NEW h \in Handlers, AnswerLost(h) PROVE RowsMove /\ MoneyMovesAll
  <2>1. pc[h] # "idle" /\ on[h] \in Orders
    BY <1>24, BusyHasOrder DEF AnswerLost, IInv
  <2>2. pc'[h] = "idle"
    BY <1>24, <2>1, LeavesOnFinish DEF AnswerLost
  <2>3. pc[h] \in Settling => money[on[h]] = "taken"
    BY <1>24, <2>1, <2>2 DEF IInv, HandlersKnow, HandlerKnows, Knows, Settling
  <2>4. RowsMove
    BY <1>24, <2>1, <2>2, <2>3, InsertMoves, StatementMoves, PayMoves DEF AnswerLost, Settling
  <2>5. MoneyMovesAll
    BY <1>24, <2>1, <2>2, <2>3, <2>4, MoneyStays DEF AnswerLost, provider
  <2> QED
    BY <2>4, <2>5
<1>25. ASSUME NEW o \in Orders, Take(o) PROVE RowsMove /\ MoneyMovesAll
  <2>1. RowsMove
    BY <1>25, RowsStay DEF Take
  <2>2. RowAgrees(o) /\ (o \notin Sbp /\ money[o] = "approved" => status[o] \notin {"none", "created"})
    BY <1>25, <2>1 DEF IInv, RowsAgree, RowAgrees
  <2>3. \A q \in Orders : MoneyMoves(q)
    BY <1>25, <2>1, <2>2 DEF Take, MoneyMoves, IInv, TypeOK, ProviderOK
  <2>4. RowsMove
    BY <1>25, <2>1, <2>2, <2>3, RowsStay DEF Take
  <2>5. MoneyMovesAll
    BY <1>25, <2>1, <2>2, <2>3, <2>4 DEF MoneyMovesAll
  <2> QED
    BY <2>4, <2>5
<1>26. ASSUME NEW o \in Orders, Decline(o) PROVE RowsMove /\ MoneyMovesAll
  <2>1. RowsMove
    BY <1>26, RowsStay DEF Decline
  <2>2. RowAgrees(o) /\ (o \notin Sbp /\ money[o] = "approved" => status[o] \notin {"none", "created"})
    BY <1>26, <2>1 DEF IInv, RowsAgree, RowAgrees
  <2>3. \A q \in Orders : MoneyMoves(q)
    BY <1>26, <2>1, <2>2 DEF Decline, MoneyMoves, IInv, TypeOK, ProviderOK
  <2>4. RowsMove
    BY <1>26, <2>1, <2>2, <2>3, RowsStay DEF Decline
  <2>5. MoneyMovesAll
    BY <1>26, <2>1, <2>2, <2>3, <2>4 DEF MoneyMovesAll
  <2> QED
    BY <2>4, <2>5
<1>27. ASSUME NEW o \in Orders, Cancel(o) PROVE RowsMove /\ MoneyMovesAll
  <2>1. RowsMove
    BY <1>27, RowsStay DEF Cancel
  <2>2. RowAgrees(o) /\ (o \notin Sbp /\ money[o] = "approved" => status[o] \notin {"none", "created"})
    BY <1>27, <2>1 DEF IInv, RowsAgree, RowAgrees
  <2>3. \A q \in Orders : MoneyMoves(q)
    BY <1>27, <2>1, <2>2 DEF Cancel, MoneyMoves, IInv, TypeOK, ProviderOK
  <2>4. RowsMove
    BY <1>27, <2>1, <2>2, <2>3, RowsStay DEF Cancel
  <2>5. MoneyMovesAll
    BY <1>27, <2>1, <2>2, <2>3, <2>4 DEF MoneyMovesAll
  <2> QED
    BY <2>4, <2>5
<1>28. ASSUME NEW o \in Orders, IgnoreCancellation(o) PROVE RowsMove /\ MoneyMovesAll
  BY <1>28, RowsStay, MoneyStays DEF IgnoreCancellation, provider
<1>29. ASSUME NEW u \in Users, SetBan(u) PROVE RowsMove /\ MoneyMovesAll
  BY <1>29, RowsStay, MoneyStays DEF SetBan, provider
<1>30. ASSUME Restart PROVE RowsMove /\ MoneyMovesAll
  BY <1>30, RowsStay, MoneyStays DEF Restart, provider
<1>31. ASSUME UNCHANGED vars PROVE RowsMove /\ MoneyMovesAll
  BY <1>31, RowsStay, MoneyStays DEF vars, provider
<1> QED
  BY <1>1, <1>2, <1>3, <1>4, <1>5, <1>6, <1>7, <1>8, <1>9, <1>10, <1>11,
     <1>12, <1>13, <1>14, <1>15, <1>16, <1>17, <1>18, <1>19, <1>20, <1>21,
     <1>22, <1>23, <1>24, <1>25, <1>26, <1>27, <1>28, <1>29, <1>30, <1>31 DEF
     Next, Starts, Ordering, PreCheckout, Payment, HandlerFault

-----------------------------------------------------------------------------
(* What follows for one order and for one handler.                         *)

(* An order that moves so still agrees with ledger and provider. *)
LEMMA RowsStep ==
  ASSUME IInv, \A o \in Orders : Moves(o)
  PROVE  RowsAgree'
<1> SUFFICES ASSUME NEW o \in Orders PROVE RowAgrees(o)'
  BY DEF RowsAgree
<1>1. RowAgrees(o) /\ StatusMoves(o) /\ LedgerFollows(o) /\ MoneyMoves(o)
  BY DEF IInv, RowsAgree, Moves
<1>2. (o \in credited <=> status[o] = "paid")'
  BY <1>1 DEF RowAgrees, StatusMoves, LedgerFollows
<1>3. (status[o] \in {"paid", "manual_review"} => money[o] = "taken")'
  BY <1>1 DEF RowAgrees, StatusMoves, MoneyMoves
<1>4. (status[o] = "none" => money[o] = "none")'
  <2>1. status'[o] = "none" => status[o] = "none" /\ money[o] = "none"
    BY <1>1 DEF RowAgrees, StatusMoves
  <2>2. status[o] = "none" => ~LeavesStage(o, "offering")
    BY DEF LeavesStage, IInv, HandlersKnow, HandlerKnows, Knows
  <2> QED
    BY <1>1, <2>1, <2>2 DEF MoneyMoves
<1>5. (o \notin Sbp /\ money[o] \in {"approved", "taken", "mismatched"} =>
         status[o] \notin {"none", "created"})'
  <2>1. status[o] \notin {"none", "created"} => status'[o] \notin {"none", "created"}
    BY <1>1 DEF StatusMoves
  <2> QED
    BY <1>1, <2>1 DEF RowAgrees, MoneyMoves
<1> QED
  BY <1>2, <1>3, <1>4, <1>5 DEF RowAgrees

(* A handler that stays where it is still knows what it knew. *)
LEMMA UnmovedKnows ==
  ASSUME IInv, \A o \in Orders : Moves(o), NEW h \in Handlers, Unmoved(h)
  PROVE  HandlerKnows(h)'
<1> SUFFICES ASSUME pc[h] # "idle" PROVE Knows(pc[h], on[h], seen[h])'
  BY DEF HandlerKnows, Unmoved
<1>1. PICK o \in Orders : o = on[h]
  BY BusyHasOrder DEF IInv
<1>2. Knows(pc[h], o, seen[h]) /\ Moves(o)
  BY <1>1 DEF IInv, HandlersKnow, HandlerKnows
<1>3. pc[h] \in Fresh => ~LeavesStage(o, "inserting") /\ ~LeavesStage(o, "offering")
  BY <1>1 DEF LeavesStage, Unmoved, IInv, Alone, Fresh
<1>4. status'[o] = "none" <=> status[o] = "none"
  BY <1>2, <1>3 DEF Knows, Moves, StatusMoves, Fresh
<1>5. status[o] \notin {"none", "created"} => status'[o] \notin {"none", "created"}
  BY <1>2 DEF Moves, StatusMoves
<1>6. pc[h] \in Fresh => money'[o] = "none"
  BY <1>2, <1>3 DEF Knows, Moves, MoneyMoves
<1>7. money[o] = "taken" => money'[o] = "taken"
  BY <1>2 DEF Moves, MoneyMoves
<1>8. pc[h] = "answering" => status'[o] # "created"
  BY <1>2, <1>4, <1>5 DEF Knows, Fresh
<1> QED
  BY <1>1, <1>2, <1>4, <1>5, <1>6, <1>7, <1>8 DEF Knows, Unmoved

(* What a handler knows of an order it takes up, from the row it reads. *)
LEMMA BeginKnows ==
  ASSUME IInv, NEW h \in Handlers, NEW o \in Orders, NEW s \in Stages, Begin(h, o, s),
         UNCHANGED <<status, money>>,
         s = "inserting" <=> status[o] = "none",
         s \in Fresh => money[o] = "none",
         s \in Settling => money[o] = "taken",
         s # "answering"
  PROVE  HandlersKnow'
<1>1. pc'[h] = s /\ on'[h] = o /\ seen'[h] = status[o]
  BY DEF Begin, Goto, IInv, TypeOK, ControlOK
<1>2. HandlerKnows(h)'
  BY <1>1 DEF HandlerKnows, Knows
<1>3. ASSUME NEW g \in Handlers, g # h PROVE HandlerKnows(g)'
  BY <1>3 DEF Begin, Goto, HandlersKnow, HandlerKnows, Knows, IInv, TypeOK, ControlOK
<1> QED
  BY <1>2, <1>3 DEF HandlersKnow

(* Putting an order down leaves nothing to know. *)
LEMMA FinishKnows ==
  ASSUME IInv, \A o \in Orders : Moves(o), NEW h \in Handlers, Finish(h)
  PROVE  HandlersKnow'
<1>1. HandlerKnows(h)'
  BY LeavesOnFinish DEF HandlerKnows
<1>2. ASSUME NEW g \in Handlers, g # h PROVE Unmoved(g)
  BY <1>2 DEF Finish, Goto, Unmoved, IInv, TypeOK, ControlOK
<1> QED
  BY <1>1, <1>2, UnmovedKnows DEF HandlersKnow

(* Going on, a handler keeps what does not depend on its stage. *)
LEMMA ContinueKnows ==
  ASSUME IInv, \A o \in Orders : Moves(o), NEW h \in Handlers, pc[h] # "idle",
         NEW s \in Stages, Continue(h, s), s # "inserting",
         status'[on[h]] # "none",
         s = "offering" => money'[on[h]] = "none" /\ seen[h] \notin {"precheckout_ok", "paid"},
         s \in Settling => money[on[h]] = "taken",
         s = "answering" => status'[on[h]] # "created"
  PROVE  HandlersKnow'
<1>1. pc'[h] = s /\ on'[h] = on[h] /\ seen'[h] = seen[h]
  BY DEF Continue, Goto, IInv, TypeOK, ControlOK
<1>2. HandlerKnows(h)'
  <2>1. PICK o \in Orders : o = on[h]
    BY BusyHasOrder DEF IInv
  <2>2. Knows(pc[h], o, seen[h]) /\ Moves(o)
    BY <2>1 DEF IInv, HandlersKnow, HandlerKnows
  <2>3. seen[h] \in {"precheckout_ok", "paid"} => status'[o] \notin {"none", "created"}
    BY <2>2 DEF Knows, Moves, StatusMoves
  <2>4. s \in Settling => money'[o] = "taken"
    BY <2>1, <2>2 DEF Moves, MoneyMoves
  <2> QED
    BY <1>1, <2>1, <2>3, <2>4 DEF HandlerKnows, Knows, Fresh
<1>3. ASSUME NEW g \in Handlers, g # h PROVE Unmoved(g)
  BY <1>3 DEF Continue, Goto, Unmoved, IInv, TypeOK, ControlOK
<1> QED
  BY <1>2, <1>3, UnmovedKnows DEF HandlersKnow

(* A handler past inserting works on a row that exists, and it stays. *)
LEMMA RowStays ==
  ASSUME IInv, \A o \in Orders : Moves(o), NEW h \in Handlers, pc[h] \notin {"idle", "inserting"}
  PROVE  status'[on[h]] # "none"
<1>1. on[h] \in Orders /\ status[on[h]] # "none"
  BY BusyHasOrder DEF IInv, HandlersKnow, HandlerKnows, Knows
<1> QED
  BY <1>1 DEF Moves, StatusMoves

(* Every step leaves the handlers knowing what they rely on. *)
LEMMA KnowsStep ==
  ASSUME IInv, [Next]_vars, \A o \in Orders : Moves(o)
  PROVE  HandlersKnow'
<1>1. ASSUME NEW h \in Handlers, NEW o \in Orders, StartOrder(h, o) PROVE HandlersKnow'
  <2>1. (status[o] = "none" => money[o] = "none") /\ UNCHANGED <<status, money>>
    BY <1>1 DEF StartOrder, IInv, RowsAgree, RowAgrees, db, provider
  <2> QED
    BY <1>1, <2>1, BeginKnows DEF StartOrder, Stages, Fresh, Settling
<1>2. ASSUME NEW h \in Handlers, NEW o \in Orders, StartPreCheckout(h, o) PROVE HandlersKnow'
  <2>1. (status[o] = "none" => money[o] = "none") /\ UNCHANGED <<status, money>>
    BY <1>2 DEF StartPreCheckout, IInv, RowsAgree, RowAgrees, db, provider
  <2> QED
    BY <1>2, <2>1, BeginKnows DEF StartPreCheckout, Stages, Fresh, Settling
<1>3. ASSUME NEW h \in Handlers, NEW o \in Orders, StartPayment(h, o) PROVE HandlersKnow'
  <2>1. (status[o] = "none" => money[o] = "none") /\ UNCHANGED <<status, money>>
    BY <1>3 DEF StartPayment, IInv, RowsAgree, RowAgrees, db, provider
  <2> QED
    BY <1>3, <2>1, BeginKnows DEF StartPayment, Stages, Fresh, Settling
<1>4. ASSUME NEW h \in Handlers, NEW o \in Orders, StartWebhook(h, o) PROVE HandlersKnow'
  <2>1. (status[o] = "none" => money[o] = "none") /\ UNCHANGED <<status, money>>
    BY <1>4 DEF StartWebhook, IInv, RowsAgree, RowAgrees, db, provider
  <2> QED
    BY <1>4, <2>1, BeginKnows DEF StartWebhook, Stages, Fresh, Settling
<1>5. ASSUME NEW h \in Handlers, InsertOrder(h) PROVE HandlersKnow'
  <2>1. on[h] \in Orders /\ Knows("inserting", on[h], seen[h])
    BY <1>5, BusyHasOrder DEF InsertOrder, IInv, HandlersKnow, HandlerKnows
  <2>2. status'[on[h]] = "created" /\ money'[on[h]] = "none"
    BY <1>5, <2>1 DEF InsertOrder, SetStatus, provider, Knows, Fresh, IInv, TypeOK, DbOK
  <2>3. seen[h] \notin {"precheckout_ok", "paid"}
    BY <2>1 DEF Knows
  <2> QED
    BY <1>5, <2>2, <2>3, ContinueKnows DEF InsertOrder, Stages, Settling
<1>6. ASSUME NEW h \in Handlers, Offer(h) PROVE HandlersKnow'
  <2>1. status'[on[h]] # "none" /\ pc[h] # "idle"
    BY <1>6, RowStays DEF Offer
  <2> QED
    BY <1>6, <2>1, ContinueKnows, FinishKnows DEF Offer, Stages, Fresh, Settling
<1>7. ASSUME NEW h \in Handlers, SendLink(h) PROVE HandlersKnow'
  BY <1>7, FinishKnows DEF SendLink
<1>8. ASSUME NEW h \in Handlers, CheckUser(h) PROVE HandlersKnow'
  <2>1. status'[on[h]] # "none" /\ pc[h] # "idle"
    BY <1>8, RowStays DEF CheckUser
  <2> QED
    BY <1>8, <2>1, ContinueKnows, FinishKnows DEF CheckUser, Stages, Fresh, Settling
<1>9. ASSUME NEW h \in Handlers, CheckBoost(h) PROVE HandlersKnow'
  <2>1. status'[on[h]] # "none" /\ pc[h] # "idle"
    BY <1>9, RowStays DEF CheckBoost
  <2> QED
    BY <1>9, <2>1, ContinueKnows, FinishKnows DEF CheckBoost, Stages, Fresh, Settling
<1>10. ASSUME NEW h \in Handlers, MarkPreCheckout(h) PROVE HandlersKnow'
  <2>1. status'[on[h]] # "none" /\ on[h] \in Orders /\ Knows("approving", on[h], seen[h])
    BY <1>10, RowStays, BusyHasOrder DEF MarkPreCheckout, IInv, HandlersKnow, HandlerKnows
  <2>2. CASE MarkOrderPrecheckout(on[h]) /\ Continue(h, "answering")
    <3>1. status'[on[h]] = "precheckout_ok"
      BY <2>1, <2>2 DEF MarkOrderPrecheckout, SetStatus, IInv, TypeOK, DbOK
    <3> QED
      BY <1>10, <2>1, <2>2, <3>1, ContinueKnows DEF MarkPreCheckout, Stages, Fresh, Settling
  <2>3. CASE UNCHANGED db /\ status[on[h]] # "created" /\ Continue(h, "answering")
    <3>1. status'[on[h]] # "created"
      BY <2>3 DEF db
    <3> QED
      BY <1>10, <2>1, <2>3, <3>1, ContinueKnows DEF MarkPreCheckout, Stages, Fresh, Settling
  <2> QED
    BY <1>10, <2>2, <2>3, FinishKnows DEF MarkPreCheckout
<1>11. ASSUME NEW h \in Handlers, AnswerPreCheckout(h) PROVE HandlersKnow'
  BY <1>11, FinishKnows DEF AnswerPreCheckout
<1>12. ASSUME NEW h \in Handlers, CheckPayer(h) PROVE HandlersKnow'
  <2>1. status'[on[h]] # "none" /\ pc[h] # "idle"
    BY <1>12, RowStays DEF CheckPayer
  <2>2. pc[h] \in Settling => money[on[h]] = "taken"
    BY <1>12, <2>1 DEF CheckPayer, IInv, HandlersKnow, HandlerKnows, Knows, Settling
  <2> QED
    BY <1>12, <2>1, <2>2, ContinueKnows, FinishKnows DEF CheckPayer, Stages, Fresh, Settling
<1>13. ASSUME NEW h \in Handlers, MarkManualReview(h) PROVE HandlersKnow'
  <2>1. status'[on[h]] # "none" /\ pc[h] # "idle"
    BY <1>13, RowStays DEF MarkManualReview
  <2>2. pc[h] \in Settling => money[on[h]] = "taken"
    BY <1>13, <2>1 DEF IInv, HandlersKnow, HandlerKnows, Knows, Settling
  <2> QED
    BY <1>13, <2>1, <2>2, ContinueKnows, FinishKnows DEF MarkManualReview, Stages, Fresh, Settling
<1>14. ASSUME NEW h \in Handlers, ReviewSkipped(h) PROVE HandlersKnow'
  BY <1>14, FinishKnows DEF ReviewSkipped, Skipped
<1>15. ASSUME NEW h \in Handlers, MarkPaid(h) PROVE HandlersKnow'
  <2>1. status'[on[h]] # "none" /\ pc[h] # "idle"
    BY <1>15, RowStays DEF MarkPaid
  <2>2. pc[h] \in Settling => money[on[h]] = "taken"
    BY <1>15, <2>1 DEF IInv, HandlersKnow, HandlerKnows, Knows, Settling
  <2> QED
    BY <1>15, <2>1, <2>2, ContinueKnows, FinishKnows DEF MarkPaid, Stages, Fresh, Settling
<1>16. ASSUME NEW h \in Handlers, PaySkipped(h) PROVE HandlersKnow'
  BY <1>16, FinishKnows DEF PaySkipped, Skipped
<1>17. ASSUME NEW h \in Handlers, FailOrder(h) PROVE HandlersKnow'
  BY <1>17, FinishKnows DEF FailOrder, AnswerFailing
<1>18. ASSUME NEW h \in Handlers, OfferFails(h) PROVE HandlersKnow'
  <2>1. status'[on[h]] # "none" /\ pc[h] # "idle"
    BY <1>18, RowStays DEF OfferFails
  <2> QED
    BY <1>18, <2>1, ContinueKnows, FinishKnows DEF OfferFails, Stages, Fresh, Settling
<1>19. ASSUME NEW h \in Handlers, OfferWithoutLink(h) PROVE HandlersKnow'
  <2>1. status'[on[h]] # "none" /\ pc[h] # "idle"
    BY <1>19, RowStays DEF OfferWithoutLink
  <2> QED
    BY <1>19, <2>1, ContinueKnows, FinishKnows DEF OfferWithoutLink, Stages, Fresh, Settling
<1>20. ASSUME NEW h \in Handlers, SendLinkFails(h) PROVE HandlersKnow'
  BY <1>20, FinishKnows DEF SendLinkFails
<1>21. ASSUME NEW h \in Handlers, AnswerFails(h) PROVE HandlersKnow'
  BY <1>21, FinishKnows DEF AnswerFails
<1>22. ASSUME NEW h \in Handlers, FailOrderFails(h) PROVE HandlersKnow'
  BY <1>22, FinishKnows DEF FailOrderFails, AnswerFailing
<1>23. ASSUME NEW h \in Handlers, HandlerFails(h) PROVE HandlersKnow'
  BY <1>23, FinishKnows DEF HandlerFails
<1>24. ASSUME NEW h \in Handlers, AnswerLost(h) PROVE HandlersKnow'
  BY <1>24, FinishKnows DEF AnswerLost
<1>25. ASSUME NEW o \in Orders, Take(o) PROVE HandlersKnow'
  BY <1>25, UnmovedKnows DEF Take, control, Unmoved, HandlersKnow
<1>26. ASSUME NEW o \in Orders, Decline(o) PROVE HandlersKnow'
  BY <1>26, UnmovedKnows DEF Decline, control, Unmoved, HandlersKnow
<1>27. ASSUME NEW o \in Orders, Cancel(o) PROVE HandlersKnow'
  BY <1>27, UnmovedKnows DEF Cancel, control, Unmoved, HandlersKnow
<1>28. ASSUME NEW o \in Orders, IgnoreCancellation(o) PROVE HandlersKnow'
  BY <1>28, UnmovedKnows DEF IgnoreCancellation, control, Unmoved, HandlersKnow
<1>29. ASSUME NEW u \in Users, SetBan(u) PROVE HandlersKnow'
  BY <1>29, UnmovedKnows DEF SetBan, control, Unmoved, HandlersKnow
<1>30. ASSUME Restart PROVE HandlersKnow'
  BY <1>30 DEF Restart, HandlersKnow, HandlerKnows
<1>31. ASSUME UNCHANGED vars PROVE HandlersKnow'
  BY <1>31, UnmovedKnows DEF vars, control, Unmoved, HandlersKnow
<1> QED
  BY <1>1, <1>2, <1>3, <1>4, <1>5, <1>6, <1>7, <1>8, <1>9, <1>10, <1>11,
     <1>12, <1>13, <1>14, <1>15, <1>16, <1>17, <1>18, <1>19, <1>20, <1>21,
     <1>22, <1>23, <1>24, <1>25, <1>26, <1>27, <1>28, <1>29, <1>30, <1>31 DEF
     Next, Starts, Ordering, PreCheckout, Payment, HandlerFault

-----------------------------------------------------------------------------
(* Orders that are being created stay with their handler. *)

(* A step that lets go of orders, and of the early stages, keeps them. *)
LEMMA CalmAlone ==
  ASSUME IInv,
         \A g \in Handlers : on'[g] \in {on[g], NoOrder},
         \A g \in Handlers : pc'[g] \in Fresh => pc[g] \in Fresh /\ on'[g] = on[g]
  PROVE  Alone'
<1> SUFFICES ASSUME NEW g \in Handlers, NEW h \in Handlers, g # h, pc'[h] \in Fresh
             PROVE  on'[g] # on'[h]
  BY DEF Alone
<1>1. pc[h] \in Fresh /\ on'[h] = on[h]
  OBVIOUS
<1>2. on[h] \in Orders /\ on[h] # NoOrder
  BY <1>1, BusyHasOrder, OrderFacts DEF Fresh, IInv
<1>3. on[g] # on[h]
  BY <1>1 DEF IInv, Alone
<1> QED
  BY <1>1, <1>2, <1>3

(* Finishing does, *)
LEMMA FinishAlone ==
  ASSUME IInv, NEW h \in Handlers, Finish(h)
  PROVE  Alone'
  BY CalmAlone DEF Finish, Goto, Fresh, IInv, TypeOK, ControlOK

(* so does going on to a later stage, *)
LEMMA ContinueAlone ==
  ASSUME IInv, NEW h \in Handlers, NEW s, Continue(h, s), s \in Fresh => pc[h] \in Fresh
  PROVE  Alone'
  BY CalmAlone DEF Continue, Goto, IInv, TypeOK, ControlOK

(* and taking up an order that was offered before. *)
LEMMA BeginAlone ==
  ASSUME IInv, NEW h \in Handlers, NEW o \in Orders, NEW s, Begin(h, o, s),
         s \notin Fresh, money[o] # "none"
  PROVE  Alone'
<1>1. pc' = [pc EXCEPT ![h] = s] /\ on' = [on EXCEPT ![h] = o]
  BY DEF Begin, Goto
<1>2. ASSUME NEW g \in Handlers, pc[g] \in Fresh PROVE on[g] # o
  BY <1>2 DEF Fresh, IInv, HandlersKnow, HandlerKnows, Knows
<1> QED
  BY <1>1, <1>2 DEF Alone, IInv, TypeOK, ControlOK

(* Every step leaves orders that are being created to one handler. *)
LEMMA AloneStep ==
  ASSUME IInv, [Next]_vars
  PROVE  Alone'
<1>1. ASSUME NEW h \in Handlers, NEW o \in Orders, StartOrder(h, o) PROVE Alone'
  <2>1. pc' = [pc EXCEPT ![h] = "inserting"] /\ on' = [on EXCEPT ![h] = o]
    BY <1>1 DEF StartOrder, Begin, Goto
  <2> QED
    BY <1>1, <2>1 DEF StartOrder, Alone, IInv, TypeOK, ControlOK
<1>2. ASSUME NEW h \in Handlers, NEW o \in Orders,
             StartPreCheckout(h, o) \/ StartPayment(h, o) \/ StartWebhook(h, o)
      PROVE  Alone'
  BY <1>2, BeginAlone DEF StartPreCheckout, StartPayment, StartWebhook, Fresh
<1>3. ASSUME NEW h \in Handlers, Ordering(h) PROVE Alone'
  BY <1>3, FinishAlone, ContinueAlone DEF Ordering, InsertOrder, Offer, SendLink, Fresh
<1>4. ASSUME NEW h \in Handlers, PreCheckout(h) PROVE Alone'
  BY <1>4, FinishAlone, ContinueAlone
  DEF PreCheckout, CheckUser, CheckBoost, MarkPreCheckout, AnswerPreCheckout, Fresh
<1>5. ASSUME NEW h \in Handlers, Payment(h) PROVE Alone'
  BY <1>5, FinishAlone, ContinueAlone
  DEF Payment, CheckPayer, MarkManualReview, ReviewSkipped, MarkPaid, PaySkipped, Skipped, Fresh
<1>6. ASSUME NEW h \in Handlers, FailOrder(h) PROVE Alone'
  BY <1>6, FinishAlone DEF FailOrder, AnswerFailing
<1>7. ASSUME NEW h \in Handlers, HandlerFault(h) PROVE Alone'
  BY <1>7, FinishAlone, ContinueAlone
  DEF HandlerFault, OfferFails, OfferWithoutLink, SendLinkFails, AnswerFails,
      FailOrderFails, AnswerFailing, HandlerFails, AnswerLost, Fresh
<1>8. ASSUME NEW o \in Orders, Take(o) \/ Decline(o) \/ Cancel(o) \/ IgnoreCancellation(o)
      PROVE  Alone'
  BY <1>8, CalmAlone DEF Take, Decline, Cancel, IgnoreCancellation, control
<1>9. ASSUME NEW u \in Users, SetBan(u) PROVE Alone'
  BY <1>9, CalmAlone DEF SetBan, control
<1>10. ASSUME Restart PROVE Alone'
  BY <1>10 DEF Restart, Alone, Fresh
<1>11. ASSUME UNCHANGED vars PROVE Alone'
  BY <1>11, CalmAlone DEF vars, control
<1> QED
  BY <1>1, <1>2, <1>3, <1>4, <1>5, <1>6, <1>7, <1>8, <1>9, <1>10, <1>11 DEF Next, Starts

-----------------------------------------------------------------------------
(* The theorems.                                                           *)

(* In the beginning there are no orders. *)
LEMMA Initially == Init => IInv
<1> SUFFICES ASSUME Init PROVE IInv
  OBVIOUS
<1>1. TypeOK
  BY ConstantsAssumption DEF ConstantsAssumption, Init, TypeOK, DbOK, ProviderOK, ControlOK,
     OrderStatus, Money, Stages
<1>2. RowsAgree
  BY DEF Init, RowsAgree, RowAgrees
<1>3. HandlersKnow /\ Alone
  BY DEF Init, HandlersKnow, HandlerKnows, Alone, Fresh
<1> QED
  BY <1>1, <1>2, <1>3 DEF IInv

(* The inductive invariant holds in every reachable state. *)
THEOREM OrdersInvariance == Spec => []IInv
<1>1. IInv /\ [Next]_vars => IInv'
  BY TypeStep, MovesStep, RowsStep, KnowsStep, AloneStep DEF IInv
<1> QED
  BY Initially, <1>1, PTL DEF Spec

(* Types, for any orders, users and handlers. *)
THEOREM OrdersTyped == Spec => []TypeOK
<1>1. IInv => TypeOK
  BY DEF IInv
<1> QED
  BY OrdersInvariance, <1>1, PTL

(* Telegram never has consent for an order that was not marked first: both *)
(* branches of MarkPreCheckout, with a fresh and with a stale status.      *)
THEOREM ConsentOnlyWhenRecorded == Spec => []ConsentRecorded
<1>1. IInv => ConsentRecorded
  BY DEF IInv, RowsAgree, RowAgrees, ConsentRecorded
<1> QED
  BY OrdersInvariance, <1>1, PTL

-----------------------------------------------------------------------------
(* SBP money: what makes failOrder safe although it looks at no payment.   *)

(* Nobody can pay any more: the payment is over, or its link is lost. *)
Doomed(o) ==
  \/ money[o] \in {"canceled", "mismatched"}
  \/ money[o] = "open" /\ \A h \in Handlers : ~(pc[h] = "linking" /\ on[h] = o)

Checking == {"checking user", "checking boost", "approving", "answering"}

(* A handler that fails an SBP order fails a doomed one; nobody checks one. *)
SbpKnows(h) ==
  pc[h] # "idle" /\ on[h] \in Sbp =>
    /\ pc[h] \notin Checking
    /\ Failing(h) => Doomed(on[h])

Closed(o) == status[o] \in {"paid", "manual_review"}

(* YooKassa notifies of what was paid until the order is closed. *)
Noted(o) == money[o] = "taken" => Closed(o) \/ o \in pending

SbpInv ==
  /\ \A o \in Sbp : status[o] = "failed" => Doomed(o)
  /\ \A o \in Sbp : Noted(o)
  /\ \A h \in Handlers : SbpKnows(h)

(* How a handler may come to a stage that matters here. *)
Goes(h) ==
  \/ pc'[h] = pc[h] /\ on'[h] = on[h]
  \/ pc'[h] \notin Checking \cup {"failing", "canceling", "linking"}
  \/ on'[h] \notin Sbp
  \/ pc'[h] = "linking" /\ pc[h] = "offering" /\ on'[h] = on[h]
  \/ pc'[h] \in {"failing", "canceling"} /\ \E o \in Orders : on'[h] = o /\ Doomed(o)'

AllGo == \A h \in Handlers : Goes(h)

(* Every SBP order is an order. *)
LEMMA SbpOrders == Sbp \subseteq Orders
  BY ConstantsAssumption DEF ConstantsAssumption

(* A step that leaves the handlers where they are. *)
LEMMA CalmGoes == UNCHANGED <<pc, on>> => AllGo
  BY DEF AllGo, Goes

LEMMA FinishGoes ==
  ASSUME IInv, NEW h \in Handlers, Finish(h)
  PROVE  AllGo
  BY DEF Finish, Goto, AllGo, Goes, Checking, IInv, TypeOK, ControlOK

LEMMA BeginGoes ==
  ASSUME IInv, NEW h \in Handlers, NEW o \in Orders, NEW s, Begin(h, o, s),
         \/ s \notin Checking \cup {"failing", "canceling", "linking"}
         \/ o \notin Sbp
         \/ s \in {"failing", "canceling"} /\ Doomed(o)'
  PROVE  AllGo
<1>1. pc'[h] = s /\ on'[h] = o
  BY DEF Begin, Goto, IInv, TypeOK, ControlOK
<1>2. Goes(h)
  BY <1>1 DEF Goes
<1>3. ASSUME NEW g \in Handlers, g # h PROVE Goes(g)
  BY <1>3 DEF Begin, Goto, Goes, IInv, TypeOK, ControlOK
<1> QED
  BY <1>2, <1>3 DEF AllGo

LEMMA ContinueGoes ==
  ASSUME IInv, NEW h \in Handlers, NEW s, Continue(h, s), on[h] \in Orders,
         \/ s \notin Checking \cup {"failing", "canceling", "linking"}
         \/ on[h] \notin Sbp
         \/ s = "linking" /\ pc[h] = "offering"
         \/ \E o \in Orders : o = on[h] /\ s = "failing" /\ Doomed(o)'
  PROVE  AllGo
<1>1. pc'[h] = s /\ on' = on
  BY DEF Continue, Goto, IInv, TypeOK, ControlOK
<1>2. Goes(h)
  BY <1>1 DEF Goes
<1>3. ASSUME NEW g \in Handlers, g # h PROVE Goes(g)
  BY <1>1, <1>3 DEF Continue, Goto, Goes, IInv, TypeOK, ControlOK
<1> QED
  BY <1>2, <1>3 DEF AllGo

(* Every step moves the handlers so. *)
LEMMA GoesStep ==
  ASSUME IInv, SbpInv, [Next]_vars
  PROVE  AllGo
<1>1. ASSUME NEW h \in Handlers, NEW o \in Orders, StartOrder(h, o) PROVE AllGo
  BY <1>1, BeginGoes DEF StartOrder, Checking
<1>2. ASSUME NEW h \in Handlers, NEW o \in Orders, StartPreCheckout(h, o) PROVE AllGo
  BY <1>2, BeginGoes DEF StartPreCheckout
<1>3. ASSUME NEW h \in Handlers, NEW o \in Orders, StartPayment(h, o) PROVE AllGo
  BY <1>3, BeginGoes DEF StartPayment
<1>4. ASSUME NEW h \in Handlers, NEW o \in Orders, StartWebhook(h, o) PROVE AllGo
  <2>1. money[o] \in {"canceled", "mismatched"} => Doomed(o)'
    BY <1>4 DEF StartWebhook, provider, Doomed
  <2> QED
    BY <1>4, <2>1, BeginGoes DEF StartWebhook, Checking
<1>5. ASSUME NEW h \in Handlers, Ordering(h) PROVE AllGo
  BY <1>5, BusyHasOrder, ContinueGoes, FinishGoes
  DEF Ordering, InsertOrder, Offer, SendLink, Checking, IInv
<1>6. ASSUME NEW h \in Handlers, PreCheckout(h) PROVE AllGo
  <2>1. on[h] \in Orders /\ on[h] \notin Sbp
    BY <1>6, BusyHasOrder
    DEF PreCheckout, CheckUser, CheckBoost, MarkPreCheckout, AnswerPreCheckout,
        SbpInv, SbpKnows, Checking, IInv
  <2> QED
    BY <1>6, <2>1, ContinueGoes, FinishGoes
    DEF PreCheckout, CheckUser, CheckBoost, MarkPreCheckout, AnswerPreCheckout
<1>7. ASSUME NEW h \in Handlers, Payment(h) PROVE AllGo
  <2>1. on[h] \in Orders
    BY <1>7, BusyHasOrder
    DEF Payment, CheckPayer, MarkManualReview, ReviewSkipped, MarkPaid, PaySkipped, IInv
  <2> QED
    BY <1>7, <2>1, ContinueGoes, FinishGoes
    DEF Payment, CheckPayer, MarkManualReview, ReviewSkipped, MarkPaid, PaySkipped, Skipped, Checking
<1>8. ASSUME NEW h \in Handlers, FailOrder(h) PROVE AllGo
  BY <1>8, FinishGoes DEF FailOrder, AnswerFailing
<1>9. ASSUME NEW h \in Handlers, OfferFails(h) PROVE AllGo
  <2>1. on[h] \in Orders
    BY <1>9, BusyHasOrder DEF OfferFails, IInv
  <2> QED
    BY <1>9, <2>1, ContinueGoes, FinishGoes DEF OfferFails
<1>10. ASSUME NEW h \in Handlers, OfferWithoutLink(h) PROVE AllGo
  <2>1. PICK o \in Orders : o = on[h]
    BY <1>10, BusyHasOrder DEF OfferWithoutLink, IInv
  <2>2. ASSUME NEW g \in Handlers PROVE ~(pc'[g] = "linking" /\ on'[g] = o)
    <3>1. g # h => on[g] # o
      BY <1>10, <2>1 DEF OfferWithoutLink, IInv, Alone, Fresh
    <3> QED
      BY <1>10, <3>1 DEF OfferWithoutLink, Continue, Goto, IInv, TypeOK, ControlOK
  <2>3. money'[o] = "open"
    BY <1>10, <2>1 DEF OfferWithoutLink, IInv, TypeOK, ProviderOK
  <2>4. Doomed(o)'
    BY <2>2, <2>3 DEF Doomed
  <2> QED
    BY <1>10, <2>1, <2>4, ContinueGoes DEF OfferWithoutLink
<1>11. ASSUME NEW h \in Handlers,
              SendLinkFails(h) \/ AnswerFails(h) \/ FailOrderFails(h) \/ HandlerFails(h) \/ AnswerLost(h)
       PROVE  AllGo
  BY <1>11, FinishGoes
  DEF SendLinkFails, AnswerFails, FailOrderFails, AnswerFailing, HandlerFails, AnswerLost
<1>12. ASSUME NEW o \in Orders, Take(o) \/ Decline(o) \/ Cancel(o) \/ IgnoreCancellation(o)
       PROVE  AllGo
  BY <1>12, CalmGoes DEF Take, Decline, Cancel, IgnoreCancellation, control
<1>13. ASSUME NEW u \in Users, SetBan(u) PROVE AllGo
  BY <1>13, CalmGoes DEF SetBan, control
<1>14. ASSUME Restart PROVE AllGo
  BY <1>14 DEF Restart, AllGo, Goes, Checking
<1>15. ASSUME UNCHANGED vars PROVE AllGo
  BY <1>15, CalmGoes DEF vars, control
<1> QED
  BY <1>1, <1>2, <1>3, <1>4, <1>5, <1>6, <1>7, <1>8, <1>9, <1>10, <1>11, <1>12,
     <1>13, <1>14, <1>15
  DEF Next, Starts, HandlerFault

(* A payment nobody can make is never made: a link is on its way only for  *)
(* a payment that was created in the same handler.                         *)
LEMMA DoomStays ==
  ASSUME IInv, AllGo, NEW o \in Sbp, Moves(o), Doomed(o)
  PROVE  Doomed(o)'
<1>1. CASE money[o] \in {"canceled", "mismatched"}
  <2>1. money'[o] = money[o]
    BY <1>1 DEF Moves, MoneyMoves
  <2> QED
    BY <1>1, <2>1 DEF Doomed
<1>2. CASE money[o] = "open" /\ \A h \in Handlers : ~(pc[h] = "linking" /\ on[h] = o)
  <2>1. money'[o] \in {"open", "canceled"}
    BY <1>2 DEF Moves, MoneyMoves, LeavesStage
  <2>2. ASSUME NEW h \in Handlers PROVE ~(pc'[h] = "linking" /\ on'[h] = o)
    <3>1. ~(pc[h] = "offering" /\ on[h] = o)
      BY <1>2 DEF IInv, HandlersKnow, HandlerKnows, Knows, Fresh
    <3>2. Goes(h)
      BY DEF AllGo
    <3> QED
      BY <1>2, <3>1, <3>2 DEF Goes
  <2> QED
    BY <2>1, <2>2 DEF Doomed
<1> QED
  BY <1>1, <1>2 DEF Doomed

(* YooKassa is answered only when it need not notify again: the notice is  *)
(* kept, or the order is closed, or it was not paid for.                   *)
LEMMA NoticeKept ==
  ASSUME IInv, SbpInv, NEW o \in Sbp, o \in pending, money[o] = "taken", [Next]_vars
  PROVE  o \in pending' \/ Closed(o)'
<1> o \in Orders
  BY SbpOrders
<1>1. CASE UNCHANGED pending
  BY <1>1
<1>2. ASSUME NEW h \in Handlers, NEW p \in Orders, StartPayment(h, p) PROVE o \in pending'
  BY <1>2 DEF StartPayment, Acknowledge
<1>3. ASSUME NEW p \in Orders, IgnoreCancellation(p) PROVE o \in pending'
  BY <1>3 DEF IgnoreCancellation, Acknowledge
<1>4. ASSUME NEW p \in Orders, Take(p) \/ Cancel(p) PROVE o \in pending'
  BY <1>4 DEF Take, Cancel
<1>5. ASSUME NEW h \in Handlers, AnswerFailing(h), Failing(h) PROVE o \in pending'
  <2>1. on[h] # o
    BY <1>5 DEF SbpInv, SbpKnows, Doomed, Failing
  <2> QED
    BY <1>5, <2>1 DEF AnswerFailing, Acknowledge
<1>6. ASSUME NEW h \in Handlers, FailOrder(h) \/ FailOrderFails(h) PROVE o \in pending'
  BY <1>5, <1>6 DEF FailOrder, FailOrderFails
<1>7. ASSUME NEW h \in Handlers, MarkManualReview(h) PROVE o \in pending' \/ Closed(o)'
  BY <1>7
  DEF MarkManualReview, MarkOrderManualReview, SetStatus, Acknowledge, Closed, IInv, TypeOK, DbOK
<1>8. ASSUME NEW h \in Handlers, MarkPaid(h) PROVE o \in pending' \/ Closed(o)'
  BY <1>8 DEF MarkPaid, PayOrder, SetStatus, Acknowledge, Closed, IInv, TypeOK, DbOK
<1>9. ASSUME NEW h \in Handlers, ReviewSkipped(h) \/ PaySkipped(h)
      PROVE  o \in pending' \/ Closed(o)'
  BY <1>9 DEF ReviewSkipped, PaySkipped, Skipped, Acknowledge, Closed, db
<1>10. ASSUME NEW h \in Handlers, Ordering(h) \/ PreCheckout(h) \/ CheckPayer(h) PROVE UNCHANGED pending
  BY <1>10
  DEF Ordering, InsertOrder, Offer, SendLink, PreCheckout, CheckUser, CheckBoost,
      MarkPreCheckout, AnswerPreCheckout, CheckPayer, provider
<1>11. ASSUME NEW h \in Handlers, HandlerFault(h), ~FailOrderFails(h) PROVE UNCHANGED pending
  BY <1>11
  DEF HandlerFault, OfferFails, OfferWithoutLink, SendLinkFails, AnswerFails,
      HandlerFails, AnswerLost, provider
<1>12. ASSUME NEW h \in Handlers, NEW p \in Orders,
              StartOrder(h, p) \/ StartPreCheckout(h, p) \/ StartWebhook(h, p)
       PROVE  UNCHANGED pending
  BY <1>12 DEF StartOrder, StartPreCheckout, StartWebhook, provider
<1>13. ASSUME NEW p \in Orders, Decline(p) PROVE UNCHANGED pending
  BY <1>13 DEF Decline
<1>14. (\E u \in Users : SetBan(u)) \/ Restart \/ UNCHANGED vars => UNCHANGED pending
  BY DEF SetBan, Restart, vars, provider
<1> QED
  BY <1>1, <1>2, <1>3, <1>4, <1>6, <1>7, <1>8, <1>9, <1>10, <1>11, <1>12, <1>13, <1>14
  DEF Next, Starts, Payment

(* Money comes with a notification of it. *)
LEMMA NoticeSent ==
  ASSUME IInv, NEW o \in Sbp, money[o] # "taken", money'[o] = "taken", [Next]_vars
  PROVE  o \in pending'
<1> o \in Orders /\ money \in [Orders -> Money]
  BY SbpOrders DEF IInv, TypeOK, ProviderOK
<1>1. ASSUME NEW p \in Orders, Take(p) PROVE o \in pending'
  BY <1>1 DEF Take
<1>2. ASSUME NEW h \in Handlers, Ordering(h) \/ PreCheckout(h) PROVE FALSE
  BY <1>2
  DEF Ordering, InsertOrder, Offer, SendLink, CanPay, PreCheckout, CheckUser, CheckBoost,
      MarkPreCheckout, AnswerPreCheckout, provider
<1>3. ASSUME NEW h \in Handlers, Payment(h) \/ FailOrder(h) PROVE FALSE
  BY <1>3
  DEF Payment, CheckPayer, MarkManualReview, ReviewSkipped, MarkPaid, PaySkipped, Skipped,
      FailOrder, provider
<1>4. ASSUME NEW h \in Handlers, HandlerFault(h) PROVE FALSE
  BY <1>4
  DEF HandlerFault, OfferFails, OfferWithoutLink, SendLinkFails, AnswerFails, FailOrderFails,
      HandlerFails, AnswerLost, provider
<1>5. ASSUME NEW h \in Handlers, NEW p \in Orders, Starts(h, p) PROVE FALSE
  BY <1>5 DEF Starts, StartOrder, StartPreCheckout, StartPayment, StartWebhook, provider
<1>6. ASSUME NEW p \in Orders, Decline(p) \/ Cancel(p) \/ IgnoreCancellation(p) PROVE FALSE
  BY <1>6 DEF Decline, Cancel, IgnoreCancellation
<1>7. (\E u \in Users : SetBan(u)) \/ Restart \/ UNCHANGED vars => FALSE
  BY DEF SetBan, Restart, vars, provider
<1> QED
  BY <1>1, <1>2, <1>3, <1>4, <1>5, <1>6, <1>7 DEF Next

(* The strengthened invariant is kept. *)
LEMMA SbpStep ==
  ASSUME IInv, SbpInv, [Next]_vars
  PROVE  SbpInv'
<1> AllGo /\ \A o \in Orders : Moves(o)
  BY GoesStep, MovesStep
<1>1. ASSUME NEW o \in Sbp, status'[o] = "failed" PROVE Doomed(o)'
  <2>1. StatusMoves(o) /\ Moves(o)
    BY SbpOrders DEF Moves
  <2>2. Failer(o) => Doomed(o)
    BY DEF Failer, Failing, SbpInv, SbpKnows
  <2>3. Doomed(o)
    BY <1>1, <2>1, <2>2 DEF StatusMoves, SbpInv
  <2> QED
    BY <2>1, <2>3, DoomStays
<1>2. ASSUME NEW h \in Handlers PROVE SbpKnows(h)'
  <2> SUFFICES ASSUME pc'[h] # "idle", NEW o \in Sbp, o = on'[h]
               PROVE  pc'[h] \notin Checking /\ (pc'[h] \in {"failing", "canceling"} => Doomed(o)')
    BY DEF SbpKnows, Failing
  <2>1. Goes(h) /\ Moves(o)
    BY SbpOrders DEF AllGo
  <2>2. CASE pc'[h] = pc[h] /\ on'[h] = on[h]
    BY <2>1, <2>2, DoomStays DEF SbpInv, SbpKnows, Failing
  <2>3. CASE ~(pc'[h] = pc[h] /\ on'[h] = on[h])
    BY <2>1, <2>3 DEF Goes, Checking
  <2> QED
    BY <2>2, <2>3
<1>3. ASSUME NEW o \in Sbp PROVE Noted(o)'
  <2>1. Closed(o) => Closed(o)'
    BY SbpOrders DEF Moves, StatusMoves, Closed
  <2> QED
    BY <2>1, NoticeKept, NoticeSent DEF SbpInv, Noted
<1> QED
  BY <1>1, <1>2, <1>3 DEF SbpInv

(* No SBP order fails whose price was paid, or can still be: a lost link,  *)
(* a cancellation and a mismatch fail only orders that are past paying.    *)
(* And YooKassa notifies of a paid one until it is closed.                 *)
THEOREM SbpMoneyIsNotLost == Spec => []SbpMoneyNotLost
<1>1. Init => SbpInv
  BY SbpOrders DEF Init, SbpInv, SbpKnows, Noted
<1>2. SbpInv => SbpMoneyNotLost
  BY DEF SbpInv, Doomed, Noted, Closed, SbpMoneyNotLost
<1>3. IInv /\ SbpInv /\ [Next]_vars => SbpInv'
  BY SbpStep
<1> QED
  BY OrdersInvariance, <1>1, <1>2, <1>3, PTL DEF Spec

-----------------------------------------------------------------------------
(* The refinement: each step of Orders is a step of Purchase, or one that  *)
(* Purchase does not see.                                                  *)

(* How the order itself ended. *)
OutcomeOf(o) ==
  CASE status[o] = "paid"          -> "credited"
    [] status[o] = "manual_review" -> "review"
    [] status[o] = "failed"        -> "refused"
    [] OTHER                       -> "open"

(* Nothing that Purchase counts happens to orders or credits. *)
LocalStutter == (\A q \in Orders : OutcomeOf(q)' = OutcomeOf(q)) /\ credits' = credits

(* A step that ends no order, takes no money and moves no credits. *)
LEMMA PurchaseStutters ==
  ASSUME LocalStutter, \A q \in Orders : money'[q] = "taken" <=> money[q] = "taken"
  PROVE  UNCHANGED Bought!vars
<1>1. outcome' = outcome
  BY DEF LocalStutter, OutcomeOf, outcome
<1>2. Taken' = Taken
  BY DEF Taken
<1> QED
  BY <1>1, <1>2 DEF LocalStutter, Bought!vars

(* The outcome of one order moves, those of the others stay. *)
LEMMA OutcomeMoves ==
  ASSUME IInv, NEW o \in Orders, NEW s, SetStatus(o, s), NEW r, OutcomeOf(o)' = r
  PROVE  outcome' = [outcome EXCEPT ![o] = r]
<1>1. ASSUME NEW q \in Orders, q # o PROVE OutcomeOf(q)' = OutcomeOf(q)
  BY <1>1 DEF SetStatus, OutcomeOf, IInv, TypeOK, DbOK
<1> QED
  BY <1>1 DEF outcome, OutcomeOf

(* A status that leaves the order open. *)
LEMMA OpenRefines ==
  ASSUME IInv, NEW o \in Orders, SetStatus(o, "created") \/ SetStatus(o, "precheckout_ok"),
         OutcomeOf(o) = "open", UNCHANGED <<credits, money>>
  PROVE  [Bought!Next]_(Bought!vars)
<1>1. OutcomeOf(o)' = "open"
  BY DEF SetStatus, OutcomeOf, IInv, TypeOK, DbOK
<1>2. ASSUME NEW q \in Orders, q # o PROVE OutcomeOf(q)' = OutcomeOf(q)
  BY <1>2 DEF SetStatus, OutcomeOf, IInv, TypeOK, DbOK
<1>3. LocalStutter
  BY <1>1, <1>2 DEF LocalStutter
<1> QED
  BY <1>3, PurchaseStutters

(* MarkOrderFailed refuses, MarkOrderManualReview puts aside. *)
LEMMA StatementRefines ==
  ASSUME IInv, NEW o \in Orders, UNCHANGED money,
         \/ MarkOrderPrecheckout(o)
         \/ MarkOrderFailed(o)
         \/ MarkOrderManualReview(o) /\ money[o] = "taken"
  PROVE  [Bought!Next]_(Bought!vars)
<1> credits' = credits /\ Taken' = Taken /\ OutcomeOf(o) = "open"
  BY DEF MarkOrderPrecheckout, MarkOrderFailed, MarkOrderManualReview, Payable, Ledger,
     Taken, OutcomeOf
<1>1. CASE MarkOrderPrecheckout(o)
  BY <1>1, OpenRefines DEF MarkOrderPrecheckout
<1>2. CASE MarkOrderFailed(o)
  <2>1. OutcomeOf(o)' = "refused" /\ outcome[o] = "open"
    BY <1>2 DEF MarkOrderFailed, SetStatus, OutcomeOf, outcome, IInv, TypeOK, DbOK
  <2>2. outcome' = [outcome EXCEPT ![o] = "refused"]
    BY <1>2, <2>1, OutcomeMoves DEF MarkOrderFailed
  <2>3. Bought!Refuse(o)
    BY <2>1, <2>2 DEF Bought!Refuse
  <2> QED
    BY <2>3 DEF Bought!Next
<1>3. CASE MarkOrderManualReview(o) /\ money[o] = "taken"
  <2>1. OutcomeOf(o)' = "review" /\ outcome[o] = "open" /\ o \in Taken
    BY <1>3 DEF MarkOrderManualReview, SetStatus, OutcomeOf, outcome, Taken, IInv, TypeOK, DbOK
  <2>2. outcome' = [outcome EXCEPT ![o] = "review"]
    BY <1>3, <2>1, OutcomeMoves DEF MarkOrderManualReview
  <2>3. Bought!Review(o)
    BY <2>1, <2>2 DEF Bought!Review
  <2> QED
    BY <2>3 DEF Bought!Next
<1> QED
  BY <1>1, <1>2, <1>3

(* The payment transaction credits: the ledger does not know the order. *)
LEMMA PayRefines ==
  ASSUME IInv, NEW o \in Orders, UNCHANGED money, PayOrder(o), money[o] = "taken"
  PROVE  [Bought!Next]_(Bought!vars)
<1>1. o \notin credited /\ outcome[o] = "open" /\ o \in Taken
  BY DEF PayOrder, Payable, IInv, RowsAgree, RowAgrees, outcome, Taken
<1>2. OutcomeOf(o)' = "credited"
  BY DEF PayOrder, SetStatus, OutcomeOf, IInv, TypeOK, DbOK
<1>3. outcome' = [outcome EXCEPT ![o] = "credited"]
  BY <1>2, OutcomeMoves DEF PayOrder
<1>4. credits' = [credits EXCEPT ![UserOf[o]] = @ + PackageCredits[o]]
  BY <1>1 DEF PayOrder, AddPurchaseCredits, Owner
<1>5. Taken' = Taken
  BY DEF Taken
<1>6. Bought!Credit(o)
  BY <1>1, <1>3, <1>4, <1>5 DEF Bought!Credit
<1> QED
  BY <1>6 DEF Bought!Next

(* A step that leaves the database and the payments alone. *)
LEMMA QuietRefines ==
  ASSUME UNCHANGED <<db, money>>
  PROVE  [Bought!Next]_(Bought!vars)
<1>1. LocalStutter
  BY DEF LocalStutter, OutcomeOf, db
<1> QED
  BY <1>1, PurchaseStutters

(* A payment that is offered, approved, declined or canceled. *)
LEMMA UnpaidRefines ==
  ASSUME IInv, UNCHANGED db, NEW o \in Orders, NEW m, m # "taken", money[o] # "taken",
         money' = [money EXCEPT ![o] = m]
  PROVE  [Bought!Next]_(Bought!vars)
<1>1. LocalStutter
  BY DEF LocalStutter, OutcomeOf, db
<1>2. \A q \in Orders : money'[q] = "taken" <=> money[q] = "taken"
  BY DEF IInv, TypeOK, ProviderOK
<1> QED
  BY <1>1, <1>2, PurchaseStutters

(* The provider takes the money. *)
LEMMA TakeRefines ==
  ASSUME IInv, NEW o \in Orders, Take(o)
  PROVE  [Bought!Next]_(Bought!vars)
<1>1. money[o] # "taken"
  BY DEF Take
<1>2. outcome' = outcome /\ credits' = credits
  BY DEF Take, db, outcome
<1>3. CASE money' = [money EXCEPT ![o] = "taken"]
  <2>1. o \notin Taken /\ Taken' = Taken \cup {o}
    BY <1>1, <1>3 DEF Taken, IInv, TypeOK, ProviderOK
  <2>2. Bought!TakeMoney(o)
    BY <1>2, <2>1 DEF Bought!TakeMoney
  <2> QED
    BY <2>2 DEF Bought!Next
<1>4. CASE money' = [money EXCEPT ![o] = "mismatched"]
  BY <1>1, <1>4, UnpaidRefines DEF Take
<1> QED
  BY <1>3, <1>4 DEF Take

(* Every step maps to a step of Purchase or to a stutter. *)
LEMMA Refines == IInv /\ [Next]_vars => [Bought!Next]_(Bought!vars)
<1> SUFFICES ASSUME IInv, [Next]_vars PROVE [Bought!Next]_(Bought!vars)
  OBVIOUS
<1>1. ASSUME NEW h \in Handlers, NEW o \in Orders, Starts(h, o)
      PROVE  [Bought!Next]_(Bought!vars)
  BY <1>1, QuietRefines DEF Starts, StartOrder, StartPreCheckout, StartPayment, StartWebhook, provider
<1>2. ASSUME NEW h \in Handlers, InsertOrder(h)
      PROVE  [Bought!Next]_(Bought!vars)
  <2>1. on[h] \in Orders
    BY <1>2, BusyHasOrder DEF InsertOrder, IInv
  <2>2. OutcomeOf(on[h]) = "open"
    BY <1>2 DEF InsertOrder, IInv, HandlersKnow, HandlerKnows, Knows, OutcomeOf
  <2> QED
    BY <1>2, <2>1, <2>2, OpenRefines DEF InsertOrder, Ledger, provider
<1>3. ASSUME NEW h \in Handlers, Offer(h)
      PROVE  [Bought!Next]_(Bought!vars)
  <2>1. on[h] \in Orders
    BY <1>3, BusyHasOrder DEF Offer, IInv
  <2>2. money[on[h]] = "none"
    BY <1>3 DEF Offer, IInv, HandlersKnow, HandlerKnows, Knows, Fresh
  <2> QED
    BY <1>3, <2>1, <2>2, UnpaidRefines DEF Offer
<1>4. ASSUME NEW h \in Handlers, OfferFails(h)
      PROVE  [Bought!Next]_(Bought!vars)
  <2>1. on[h] \in Orders
    BY <1>4, BusyHasOrder DEF OfferFails, IInv
  <2>2. money[on[h]] = "none"
    BY <1>4 DEF OfferFails, IInv, HandlersKnow, HandlerKnows, Knows, Fresh
  <2> QED
    BY <1>4, <2>1, <2>2, UnpaidRefines, QuietRefines DEF OfferFails
<1>5. ASSUME NEW h \in Handlers, OfferWithoutLink(h)
      PROVE  [Bought!Next]_(Bought!vars)
  <2>1. on[h] \in Orders
    BY <1>5, BusyHasOrder DEF OfferWithoutLink, IInv
  <2>2. money[on[h]] = "none"
    BY <1>5 DEF OfferWithoutLink, IInv, HandlersKnow, HandlerKnows, Knows, Fresh
  <2> QED
    BY <1>5, <2>1, <2>2, UnpaidRefines DEF OfferWithoutLink
<1>6. ASSUME NEW h \in Handlers, SendLink(h)
      PROVE  [Bought!Next]_(Bought!vars)
  <2>1. on[h] \in Orders
    BY <1>6, BusyHasOrder DEF SendLink, IInv
  <2>2. CASE money[on[h]] = "open"
    BY <1>6, <2>1, <2>2, UnpaidRefines DEF SendLink, CanPay
  <2>3. CASE money[on[h]] # "open"
    <3>1. UNCHANGED money
      BY <1>6, <2>3 DEF SendLink, CanPay, IInv, TypeOK, ProviderOK
    <3> QED
      BY <1>6, <3>1, QuietRefines DEF SendLink
  <2> QED
    BY <2>2, <2>3
<1>7. ASSUME NEW h \in Handlers, CheckUser(h) \/ CheckBoost(h) \/ CheckPayer(h)
      PROVE  [Bought!Next]_(Bought!vars)
  BY <1>7, QuietRefines DEF CheckUser, CheckBoost, CheckPayer, provider
<1>8. ASSUME NEW h \in Handlers, ReviewSkipped(h) \/ PaySkipped(h)
      PROVE  [Bought!Next]_(Bought!vars)
  BY <1>8, QuietRefines DEF ReviewSkipped, PaySkipped, Skipped
<1>9. ASSUME NEW h \in Handlers, SendLinkFails(h) \/ AnswerFails(h) \/ HandlerFails(h)
      PROVE  [Bought!Next]_(Bought!vars)
  BY <1>9, QuietRefines DEF SendLinkFails, AnswerFails, HandlerFails, provider
<1>10. ASSUME NEW h \in Handlers, MarkPreCheckout(h)
      PROVE  [Bought!Next]_(Bought!vars)
  <2>1. on[h] \in Orders
    BY <1>10, BusyHasOrder DEF MarkPreCheckout, IInv
  <2> QED
    BY <1>10, <2>1, StatementRefines, QuietRefines DEF MarkPreCheckout, provider
<1>11. ASSUME NEW h \in Handlers, AnswerPreCheckout(h)
      PROVE  [Bought!Next]_(Bought!vars)
  <2>1. on[h] \in Orders
    BY <1>11, BusyHasOrder DEF AnswerPreCheckout, IInv
  <2>2. CASE money[on[h]] = "offered"
    BY <1>11, <2>1, <2>2, UnpaidRefines DEF AnswerPreCheckout
  <2>3. CASE money[on[h]] # "offered"
    <3>1. UNCHANGED money
      BY <1>11, <2>3 DEF AnswerPreCheckout, IInv, TypeOK, ProviderOK
    <3> QED
      BY <1>11, <3>1, QuietRefines DEF AnswerPreCheckout
  <2> QED
    BY <2>2, <2>3
<1>12. ASSUME NEW h \in Handlers, MarkManualReview(h)
      PROVE  [Bought!Next]_(Bought!vars)
  <2>1. on[h] \in Orders
    BY <1>12, BusyHasOrder DEF MarkManualReview, IInv
  <2>2. money[on[h]] = "taken"
    BY <1>12 DEF MarkManualReview, IInv, HandlersKnow, HandlerKnows, Knows, Settling
  <2> QED
    BY <1>12, <2>1, <2>2, StatementRefines, QuietRefines DEF MarkManualReview
<1>13. ASSUME NEW h \in Handlers, MarkPaid(h)
      PROVE  [Bought!Next]_(Bought!vars)
  <2>1. on[h] \in Orders
    BY <1>13, BusyHasOrder DEF MarkPaid, IInv
  <2>2. money[on[h]] = "taken"
    BY <1>13 DEF MarkPaid, IInv, HandlersKnow, HandlerKnows, Knows, Settling
  <2> QED
    BY <1>13, <2>1, <2>2, PayRefines, QuietRefines DEF MarkPaid
<1>14. ASSUME NEW h \in Handlers, FailOrder(h)
      PROVE  [Bought!Next]_(Bought!vars)
  <2>1. on[h] \in Orders
    BY <1>14, BusyHasOrder DEF FailOrder, IInv, Failing
  <2> QED
    BY <1>14, <2>1, StatementRefines, QuietRefines DEF FailOrder
<1>15. ASSUME NEW h \in Handlers, FailOrderFails(h)
      PROVE  [Bought!Next]_(Bought!vars)
  <2>1. on[h] \in Orders
    BY <1>15, BusyHasOrder DEF FailOrderFails, IInv, Failing
  <2> QED
    BY <1>15, <2>1, StatementRefines, QuietRefines DEF FailOrderFails
<1>16. ASSUME NEW h \in Handlers, AnswerLost(h)
      PROVE  [Bought!Next]_(Bought!vars)
  <2>1. on[h] \in Orders
    BY <1>16, BusyHasOrder DEF AnswerLost, IInv
  <2>2. UNCHANGED money
    BY <1>16 DEF AnswerLost, provider
  <2>3. pc[h] \in Settling => money[on[h]] = "taken"
    BY <2>1 DEF IInv, HandlersKnow, HandlerKnows, Knows, Settling
  <2>4. CASE pc[h] = "inserting" /\ SetStatus(on[h], "created") /\ UNCHANGED Ledger
    <3>1. OutcomeOf(on[h]) = "open"
      BY <2>4 DEF IInv, HandlersKnow, HandlerKnows, Knows, OutcomeOf
    <3> QED
      BY <2>1, <2>2, <2>4, <3>1, OpenRefines DEF Ledger
  <2> QED
    BY <1>16, <2>1, <2>2, <2>3, <2>4, StatementRefines, PayRefines DEF AnswerLost, Settling
<1>17. ASSUME NEW o \in Orders, Take(o)
      PROVE  [Bought!Next]_(Bought!vars)
  BY <1>17, TakeRefines
<1>18. ASSUME NEW o \in Orders, Decline(o) \/ Cancel(o)
      PROVE  [Bought!Next]_(Bought!vars)
  BY <1>18, UnpaidRefines DEF Decline, Cancel
<1>19. ASSUME NEW o \in Orders, IgnoreCancellation(o)
      PROVE  [Bought!Next]_(Bought!vars)
  BY <1>19, QuietRefines DEF IgnoreCancellation
<1>20. ASSUME NEW u \in Users, SetBan(u)
      PROVE  [Bought!Next]_(Bought!vars)
  BY <1>20, QuietRefines DEF SetBan, provider
<1>21. ASSUME Restart \/ UNCHANGED vars
      PROVE  [Bought!Next]_(Bought!vars)
  BY <1>21, QuietRefines DEF Restart, vars, provider
<1> QED
  BY <1>1, <1>2, <1>3, <1>4, <1>5, <1>6, <1>7, <1>8, <1>9, <1>10, <1>11, <1>12,
     <1>13, <1>14, <1>15, <1>16, <1>17, <1>18, <1>19, <1>20, <1>21
  DEF Next, Ordering, PreCheckout, Payment, HandlerFault

(* Orders implements Purchase: whatever the handlers, duplicates, bans and *)
(* failures, an order ends once, is credited only when its money was       *)
(* taken, and credits move exactly once, with that step.                   *)
THEOREM ImplementsPurchase == Spec => PurchaseKept
<1>1. Init => Bought!Init
  BY DEF Init, Bought!Init, outcome, Taken
<1> QED
  BY OrdersInvariance, <1>1, Refines, PTL DEF Spec, PurchaseKept, Bought!Spec
=============================================================================
