------------------------------- MODULE Orders -------------------------------
(***************************************************************************)
(* Buying credits (internal/payments/service.go and yookassa.go): an order *)
(* is created with a Telegram invoice or a YooKassa SBP payment, may be    *)
(* checked before the money is taken, and is credited when the provider    *)
(* says it was.  Handlers of several updates and webhooks run at the same  *)
(* time; each SQL statement, and the payment transaction, is one step.     *)
(*                                                                         *)
(* The providers are external: money[o] is what Telegram or YooKassa knows *)
(* of the payment, and pending holds the notifications still to come.      *)
(***************************************************************************)
EXTENDS Integers

CONSTANTS
  Orders,          \* orders.id, a fresh UUID each
  Sbp,             \* those paid by SBP through YooKassa, the others by Telegram
  Boosts,          \* those whose package code starts with "boost"
  Users,
  UserOf,          \* Orders -> Users
  PackageCredits,  \* Orders -> credits of the package
  InitialCredits,  \* bound: what each user has to begin with
  InitialLastPaid, \* the package a returning user paid for last
  Handlers,        \* goroutines that serve updates and webhooks
  Faults,          \* what the environment may do, see FaultKinds
  NoOrder          \* no order in hand

\* "db"       a statement fails, carried out or not        "crash" the process dies
\* "provider" a call to Telegram or YooKassa fails, carried out or not
\* "ban"      admins ban and unban users
\* "mismatch" a payment differs from its order in amount or currency
\* "again"    a notification comes again after it was handled
FaultKinds == {"db", "crash", "provider", "ban", "mismatch", "again"}

ASSUME ConstantsAssumption ==
  /\ Sbp \subseteq Orders /\ Boosts \subseteq Orders
  /\ UserOf \in [Orders -> Users]
  /\ PackageCredits \in [Orders -> Nat]
  /\ InitialCredits \in Nat
  /\ InitialLastPaid \in {"none", "base", "boost"}
  /\ NoOrder \notin Orders
  /\ Faults \subseteq FaultKinds

VARIABLES
  status,    \* orders.status, "none" before the row exists
  credited,  \* orders whose op_key purchase:<id> is in credit_ledger
  credits,   \* the users' balances
  lastPaid,  \* kind of the package each user paid for last
  banned,    \* users.is_banned
  money,     \* external: the payment at the provider
  pending,   \* external: orders whose payment still has to be notified
  pc,        \* what each handler does next
  on,        \* the order it works on
  seen       \* orders.status as the handler read it

db       == <<status, credited, credits, lastPaid>>
provider == <<money, pending>>
control  == <<pc, on, seen>>
vars     == <<db, banned, provider, control>>

\* The enum order_status without "refunded", which no statement writes.
OrderStatus == {"none", "created", "precheckout_ok", "paid", "failed", "manual_review"}

Money == {"none",       \* the provider knows nothing of the order
          "open",       \* a YooKassa payment whose link has not reached the user
          "offered",    \* the user can pay
          "approved",   \* Telegram has the bot's consent to take the money
          "taken",      \* the price of the order was paid
          "mismatched", \* something else was, in amount or currency
          "canceled"}

\* "failing" ends in failOrder, "canceling" too and answers YooKassa with 200.
Stages == {"idle", "inserting", "offering", "linking", "failing", "canceling",
           "checking user", "checking boost", "approving", "answering",
           "checking payer", "reviewing", "review skipped", "paying", "pay skipped"}

DbOK ==
  /\ status \in [Orders -> OrderStatus]
  /\ credited \subseteq Orders
  /\ credits \in [Users -> Nat]
  /\ lastPaid \in [Users -> {"none", "base", "boost"}]

ProviderOK == money \in [Orders -> Money] /\ pending \subseteq Orders

ControlOK ==
  /\ pc \in [Handlers -> Stages]
  /\ on \in [Handlers -> Orders \cup {NoOrder}]
  /\ seen \in [Handlers -> OrderStatus]
  /\ \A h \in Handlers : pc[h] # "idle" => on[h] \in Orders

TypeOK == DbOK /\ ProviderOK /\ ControlOK /\ banned \subseteq Users

Init ==
  /\ status = [o \in Orders |-> "none"]
  /\ credited = {}
  /\ credits = [u \in Users |-> InitialCredits]
  /\ lastPaid = [u \in Users |-> InitialLastPaid]
  /\ banned = {}
  /\ money = [o \in Orders |-> "none"]
  /\ pending = {}
  /\ pc = [h \in Handlers |-> "idle"]
  /\ on = [h \in Handlers |-> NoOrder]
  /\ seen = [h \in Handlers |-> "none"]

-----------------------------------------------------------------------------
(* A handler's own steps.                                                  *)

Owner(o) == UserOf[o]

Goto(h, stage) == pc' = [pc EXCEPT ![h] = stage]

(* A handler takes up an order and reads its row. *)
Begin(h, o, stage) ==
  /\ pc[h] = "idle"
  /\ Goto(h, stage)
  /\ on' = [on EXCEPT ![h] = o]
  /\ seen' = [seen EXCEPT ![h] = status[o]]

Continue(h, stage) == Goto(h, stage) /\ UNCHANGED <<on, seen>>

Finish(h) ==
  /\ Goto(h, "idle")
  /\ on' = [on EXCEPT ![h] = NoOrder]
  /\ seen' = [seen EXCEPT ![h] = "none"]

(* YooKassa repeats a notification until it is answered with 200; an       *)
(* update from Telegram was answered when it was queued.                   *)
Acknowledge(o) == pending' = pending \ {o}

(* ensurePaymentAllowed: a boost needs a base package paid for last. *)
BoostAllowed(o) == o \in Boosts => lastPaid[Owner(o)] = "base"

-----------------------------------------------------------------------------
(* The statements of orders.sql that change a row.                         *)

Payable(o) == status[o] \in {"created", "precheckout_ok"}

SetStatus(o, s) == status' = [status EXCEPT ![o] = s]

Ledger == <<credited, credits, lastPaid>>

MarkOrderPrecheckout(o) ==
  status[o] = "created" /\ SetStatus(o, "precheckout_ok") /\ UNCHANGED Ledger

\* Mutant: a status that the enum order_status does not have.
MarkOrderCanceled(o) == Payable(o) /\ SetStatus(o, "canceled") /\ UNCHANGED Ledger

MarkOrderFailed(o) == Payable(o) /\ SetStatus(o, "failed") /\ UNCHANGED Ledger

MarkOrderManualReview(o) ==
  Payable(o) /\ SetStatus(o, "manual_review") /\ UNCHANGED Ledger

(* AddPurchaseCredits: INSERT ... ON CONFLICT (op_key) DO NOTHING, applied *)
(* to the balance by a trigger.                                            *)
AddPurchaseCredits(o) ==
  IF o \in credited
  THEN UNCHANGED <<credited, credits>>
  ELSE /\ credited' = credited \cup {o}
       /\ credits' = [credits EXCEPT ![Owner(o)] = @ + PackageCredits[o]]

\* Mutant: an order that failed in the meantime is paid all the same.
PayFailedToo(o) ==
  /\ status[o] \in {"created", "precheckout_ok", "failed"}
  /\ SetStatus(o, "paid")
  /\ AddPurchaseCredits(o)
  /\ lastPaid' = [lastPaid EXCEPT ![Owner(o)] = IF o \in Boosts THEN "boost" ELSE "base"]

(* The payment transaction: MarkOrderPaid and the credits. *)
PayOrder(o) ==
  /\ Payable(o)
  /\ SetStatus(o, "paid")
  /\ AddPurchaseCredits(o)
  /\ lastPaid' = [lastPaid EXCEPT ![Owner(o)] = IF o \in Boosts THEN "boost" ELSE "base"]

-----------------------------------------------------------------------------
(* Creating an order: SendInvoiceForPackage, CreateSBPPaymentForPackage.   *)

(* ensurePaymentAllowed and the fresh UUID. *)
StartOrder(h, o) ==
  /\ status[o] = "none"
  /\ \A g \in Handlers : on[g] # o
  /\ Owner(o) \notin banned
  /\ BoostAllowed(o)
  /\ Begin(h, o, "inserting")
  /\ UNCHANGED <<db, banned, provider>>

InsertOrder(h) ==
  /\ pc[h] = "inserting"
  /\ SetStatus(on[h], "created")
  /\ Continue(h, "offering")
  /\ UNCHANGED <<Ledger, banned, provider>>

(* The invoice is in the chat, or the payment exists at YooKassa and its   *)
(* link is on the way to the user.                                         *)
Offer(h) ==
  /\ pc[h] = "offering"
  /\ IF on[h] \in Sbp
     THEN money' = [money EXCEPT ![on[h]] = "open"] /\ Continue(h, "linking")
     ELSE money' = [money EXCEPT ![on[h]] = "offered"] /\ Finish(h)
  /\ UNCHANGED <<db, banned, pending>>

(* An invoice that may not have been sent fails the order; an error of     *)
(* YooKassa leaves it created.                                             *)
OfferFails(h) ==
  /\ "provider" \in Faults
  /\ pc[h] = "offering"
  /\ IF on[h] \in Sbp
     THEN Finish(h) /\ (UNCHANGED money \/ money' = [money EXCEPT ![on[h]] = "open"])
     ELSE Continue(h, "failing")
          /\ (UNCHANGED money \/ money' = [money EXCEPT ![on[h]] = "offered"])
  /\ UNCHANGED <<db, banned, pending>>

(* A payment without a confirmation_url. *)
OfferWithoutLink(h) ==
  /\ "provider" \in Faults
  /\ pc[h] = "offering"
  /\ on[h] \in Sbp
  /\ money' = [money EXCEPT ![on[h]] = "open"]
  /\ Continue(h, "failing")
  /\ UNCHANGED <<db, banned, pending>>

CanPay(o) == money' = [money EXCEPT ![o] = IF @ = "open" THEN "offered" ELSE @]

\* Mutant: the order fails when its payment id could not be saved, but the
\* link goes to the user.
SendLinkAndFail(h) ==
  /\ pc[h] = "linking"
  /\ CanPay(on[h])
  /\ Continue(h, "failing")
  /\ UNCHANGED <<db, banned, pending>>

(* SetOrderProviderPayment, whatever it returns, then the link. *)
SendLink(h) ==
  /\ pc[h] = "linking"
  /\ CanPay(on[h])
  /\ Finish(h)
  /\ UNCHANGED <<db, banned, pending>>

SendLinkFails(h) ==
  /\ "provider" \in Faults
  /\ pc[h] = "linking"
  /\ Finish(h)
  /\ UNCHANGED <<db, banned, provider>>

(* failOrder, which tells its caller nothing. *)
Failing(h) == pc[h] \in {"failing", "canceling"}

AnswerFailing(h) ==
  /\ IF pc[h] = "canceling" THEN Acknowledge(on[h]) ELSE UNCHANGED pending
  /\ Finish(h)

FailOrder(h) ==
  /\ Failing(h)
  /\ MarkOrderFailed(on[h]) \/ (~Payable(on[h]) /\ UNCHANGED db)
  /\ AnswerFailing(h)
  /\ UNCHANGED <<banned, money>>

FailOrderFails(h) ==
  /\ "db" \in Faults
  /\ Failing(h)
  /\ UNCHANGED db \/ MarkOrderFailed(on[h])
  /\ AnswerFailing(h)
  /\ UNCHANGED <<banned, money>>

-----------------------------------------------------------------------------
(* HandlePreCheckout, for Telegram payments only.                          *)

StartPreCheckout(h, o) ==
  /\ o \notin Sbp
  /\ money[o] \in {"offered", "approved"}
  /\ \/ Begin(h, o, "checking user")
     \/ "mismatch" \in Faults /\ Begin(h, o, "failing")
  /\ UNCHANGED <<db, banned, provider>>

CheckUser(h) ==
  /\ pc[h] = "checking user"
  /\ Continue(h, IF Owner(on[h]) \in banned THEN "failing" ELSE "checking boost")
  /\ UNCHANGED <<db, banned, provider>>

(* ensurePaymentAllowed once more; a ban that came in between is answered  *)
(* with "try again" and leaves the order alone.                            *)
CheckBoost(h) ==
  /\ pc[h] = "checking boost"
  /\ IF Owner(on[h]) \in banned THEN Finish(h)
     ELSE Continue(h, IF BoostAllowed(on[h]) THEN "approving" ELSE "failing")
  /\ UNCHANGED <<db, banned, provider>>

\* Mutant: an error of MarkOrderPrecheckout is only logged.
MarkPreCheckoutOrLog(h) ==
  /\ pc[h] = "approving"
  /\ MarkOrderPrecheckout(on[h]) \/ UNCHANGED db
  /\ Continue(h, "answering")
  /\ UNCHANGED <<banned, provider>>

(* MarkOrderPrecheckout.  No row changed: the answer follows the status    *)
(* that was read at the start.                                             *)
MarkPreCheckout(h) ==
  /\ pc[h] = "approving"
  /\ \/ MarkOrderPrecheckout(on[h]) /\ Continue(h, "answering")
     \/ /\ status[on[h]] # "created"
        /\ IF seen[h] \in {"precheckout_ok", "paid"} THEN Continue(h, "answering") ELSE Finish(h)
        /\ UNCHANGED db
  /\ UNCHANGED <<banned, provider>>

(* Telegram learns that the order may be paid. *)
AnswerPreCheckout(h) ==
  /\ pc[h] = "answering"
  /\ money' = [money EXCEPT ![on[h]] = IF @ = "offered" THEN "approved" ELSE @]
  /\ Finish(h)
  /\ UNCHANGED <<db, banned, pending>>

AnswerFails(h) ==
  /\ "provider" \in Faults
  /\ pc[h] = "answering"
  /\ Finish(h)
  /\ UNCHANGED <<db, banned, provider>>

-----------------------------------------------------------------------------
(* HandleSuccessfulPayment, handleYooKassaPaymentSucceeded and -Canceled,  *)
(* processPaidOrder.                                                       *)

(* The update with the payment is queued and answered at once.  The order  *)
(* row is read first; a payment that does not match it fails the order.    *)
StartPayment(h, o) ==
  /\ o \notin Sbp
  /\ o \in pending \/ "again" \in Faults
  /\ \/ money[o] = "taken" /\ Begin(h, o, "checking payer")
     \/ money[o] = "mismatched" /\ Begin(h, o, "failing")
  /\ Acknowledge(o)
  /\ UNCHANGED <<db, banned, money>>

Notified(o) == o \in pending \/ ("again" \in Faults /\ money[o] \in {"taken", "mismatched", "canceled"})

(* payment.succeeded and payment.canceled of YooKassa, which is asked for  *)
(* the payment's state (confirmYooKassaPayment).  An amount that does not  *)
(* match is answered with 200, one that cannot be parsed is not.           *)
StartWebhook(h, o) ==
  /\ o \in Sbp
  /\ Notified(o)
  /\ \/ money[o] = "taken" /\ Begin(h, o, "checking payer")
     \/ money[o] = "canceled" /\ Begin(h, o, "canceling")
     \/ /\ money[o] = "mismatched"
        /\ Begin(h, o, "failing") \/ Begin(h, o, "canceling")
  /\ UNCHANGED <<db, banned, provider>>

(* A cancellation with another amount is answered and forgotten. *)
IgnoreCancellation(o) ==
  /\ o \in Sbp
  /\ "mismatch" \in Faults
  /\ money[o] = "canceled"
  /\ Acknowledge(o)
  /\ UNCHANGED <<db, banned, money, control>>

CheckPayer(h) ==
  /\ pc[h] = "checking payer"
  /\ Continue(h, IF Owner(on[h]) \in banned THEN "reviewing" ELSE "paying")
  /\ UNCHANGED <<db, banned, provider>>

(* MarkOrderManualReview for a banned payer. *)
MarkManualReview(h) ==
  /\ pc[h] = "reviewing"
  /\ \/ MarkOrderManualReview(on[h]) /\ Acknowledge(on[h]) /\ Finish(h)
     \/ ~Payable(on[h]) /\ Continue(h, "review skipped") /\ UNCHANGED <<db, pending>>
  /\ UNCHANGED <<banned, money>>

(* No row changed: the status is read again, and a known one is fine. *)
Skipped(h, known) ==
  /\ IF status[on[h]] \in known THEN Acknowledge(on[h]) ELSE UNCHANGED pending
  /\ Finish(h)
  /\ UNCHANGED <<db, banned, money>>

ReviewSkipped(h) == pc[h] = "review skipped" /\ Skipped(h, {"manual_review"})

\* Mutant: YooKassa is answered before the payment is recorded.
MarkPaidAnswersFirst(h) ==
  /\ pc[h] = "paying"
  /\ PayOrder(on[h]) \/ UNCHANGED db
  /\ Acknowledge(on[h]) /\ Finish(h)
  /\ UNCHANGED <<banned, money>>

MarkPaid(h) ==
  /\ pc[h] = "paying"
  /\ \/ PayOrder(on[h]) /\ Acknowledge(on[h]) /\ Finish(h)
     \/ ~Payable(on[h]) /\ Continue(h, "pay skipped") /\ UNCHANGED <<db, pending>>
  /\ UNCHANGED <<banned, money>>

(* A duplicate is fine; on a failed order the payment is an error. *)
PaySkipped(h) == pc[h] = "pay skipped" /\ Skipped(h, {"paid", "manual_review"})

-----------------------------------------------------------------------------
(* Any other database error ends the handler.  YooKassa will notify again, *)
(* Telegram repeats a pre-checkout but not a payment.                      *)

HandlerFails(h) ==
  /\ "db" \in Faults
  /\ ~Failing(h)
  /\ pc[h] \notin {"idle", "offering", "linking", "answering"}
  /\ Finish(h)
  /\ UNCHANGED <<db, banned, provider>>

(* The statement was carried out, its answer is lost. *)
AnswerLost(h) ==
  /\ "db" \in Faults
  /\ \/ pc[h] = "inserting" /\ SetStatus(on[h], "created") /\ UNCHANGED Ledger
     \/ pc[h] = "approving" /\ MarkOrderPrecheckout(on[h])
     \/ pc[h] = "reviewing" /\ MarkOrderManualReview(on[h])
     \/ pc[h] = "paying" /\ PayOrder(on[h])
  /\ Finish(h)
  /\ UNCHANGED <<banned, provider>>

-----------------------------------------------------------------------------
(* The world around the bot.                                               *)

(* Telegram takes money with the bot's consent, YooKassa on its own. *)
Take(o) ==
  /\ money[o] = IF o \in Sbp THEN "offered" ELSE "approved"
  /\ \/ money' = [money EXCEPT ![o] = "taken"]
     \/ "mismatch" \in Faults /\ money' = [money EXCEPT ![o] = "mismatched"]
  /\ pending' = pending \cup {o}
  /\ UNCHANGED <<db, banned, control>>

(* The card was declined: the user may press the button again. *)
Decline(o) ==
  /\ money[o] = "approved"
  /\ money' = [money EXCEPT ![o] = "offered"]
  /\ UNCHANGED <<db, banned, pending, control>>

(* A YooKassa payment expires or is given up. *)
Cancel(o) ==
  /\ o \in Sbp
  /\ money[o] \in {"open", "offered"}
  /\ money' = [money EXCEPT ![o] = "canceled"]
  /\ pending' = pending \cup {o}
  /\ UNCHANGED <<db, banned, control>>

(* admin.SetBanByTGID, both ways. *)
SetBan(u) ==
  /\ "ban" \in Faults
  /\ banned' = IF u \in banned THEN banned \ {u} ELSE banned \cup {u}
  /\ UNCHANGED <<db, provider, control>>

(* The process dies and is started again: every handler is gone. *)
Restart ==
  /\ "crash" \in Faults
  /\ pc' = [h \in Handlers |-> "idle"]
  /\ on' = [h \in Handlers |-> NoOrder]
  /\ seen' = [h \in Handlers |-> "none"]
  /\ UNCHANGED <<db, banned, provider>>

-----------------------------------------------------------------------------

Ordering(h) == InsertOrder(h) \/ Offer(h) \/ SendLink(h)

PreCheckout(h) == CheckUser(h) \/ CheckBoost(h) \/ MarkPreCheckout(h) \/ AnswerPreCheckout(h)

Payment(h) ==
  \/ CheckPayer(h) \/ MarkManualReview(h) \/ ReviewSkipped(h)
  \/ MarkPaid(h) \/ PaySkipped(h)

HandlerFault(h) ==
  \/ OfferFails(h) \/ OfferWithoutLink(h) \/ SendLinkFails(h) \/ AnswerFails(h)
  \/ FailOrderFails(h) \/ HandlerFails(h) \/ AnswerLost(h)

Starts(h, o) ==
  StartOrder(h, o) \/ StartPreCheckout(h, o) \/ StartPayment(h, o) \/ StartWebhook(h, o)

Next ==
  \/ \E h \in Handlers, o \in Orders : Starts(h, o)
  \/ \E h \in Handlers :
       Ordering(h) \/ PreCheckout(h) \/ Payment(h) \/ FailOrder(h) \/ HandlerFault(h)
  \/ \E o \in Orders : Take(o) \/ Decline(o) \/ Cancel(o) \/ IgnoreCancellation(o)
  \/ \E u \in Users : SetBan(u)
  \/ Restart

Spec == Init /\ [][Next]_vars

(* Goroutines run on.  YooKassa repeats what was not answered with 200;    *)
(* database errors and restarts may interrupt a payment often, but not     *)
(* every time, hence SF.                                                   *)
Fairness ==
  /\ \A h \in Handlers :
       /\ WF_vars(Ordering(h)) /\ WF_vars(PreCheckout(h))
       /\ WF_vars(FailOrder(h)) /\ WF_vars(Payment(h))
  /\ \A o \in Sbp :
       /\ SF_vars(\E h \in Handlers : StartWebhook(h, o))
       /\ SF_vars(\E h \in Handlers : on[h] = o /\ CheckPayer(h))
       /\ SF_vars(\E h \in Handlers : on[h] = o /\ MarkManualReview(h))
       /\ SF_vars(\E h \in Handlers : on[h] = o /\ MarkPaid(h))

FairSpec == Spec /\ Fairness

-----------------------------------------------------------------------------
(* What must be true.                                                      *)

Taken == {o \in Orders : money[o] = "taken"}

outcome ==
  [o \in Orders |-> CASE status[o] = "paid"          -> "credited"
                      [] status[o] = "manual_review" -> "review"
                      [] status[o] = "failed"        -> "refused"
                      [] OTHER                       -> "open"]

Bought == INSTANCE Purchase WITH taken <- Taken

(* Whatever the handlers, duplicates and failures: an order ends once, is  *)
(* credited only when its money was taken, and its credits arrive exactly  *)
(* once, in the step that makes it paid.  (processPaidOrder's transaction  *)
(* and the WHERE clauses of orders.sql.)                                   *)
PurchaseKept == Bought!Spec

(* Telegram has the bot's consent to take money only for an order that was *)
(* marked precheckout_ok first, whichever of several pre-checkouts, late   *)
(* or repeated, answered.  (validatePreCheckout, the duplicate branch.)    *)
ConsentRecorded ==
  \A o \in Orders \ Sbp :
    money[o] \in {"approved", "taken", "mismatched"} => status[o] \notin {"none", "created"}

(* A price paid by SBP is not lost: the order is credited or in review, or *)
(* it is open and YooKassa still notifies of it, whoever else cancels,     *)
(* loses a link or answers late.  (HandleYooKassaWebhook answers 200 only  *)
(* for a closed order; failOrder looks at no payment.)                     *)
SbpMoneyNotLost ==
  \A o \in Sbp : money[o] = "taken" =>
    \/ status[o] \in {"paid", "manual_review"}
    \/ status[o] # "failed" /\ o \in pending

(* A price paid by SBP ends in credits or in manual review, although the   *)
(* process may crash and statements fail.  (YooKassa notifies until the    *)
(* webhook answers 200, and it answers 200 only when the order is closed.) *)
SbpSettled == \A o \in Sbp : money[o] = "taken" ~> status[o] \in {"paid", "manual_review"}

(* "A boost can be bought only once after a base package"                  *)
(* (boostRestrictionMessage): a boost order becomes paid only while the    *)
(* package its owner paid for last is a base one.                          *)
BoostNeedsBase ==
  [][\A o \in Boosts : status[o] # "paid" /\ status'[o] = "paid"
                         => lastPaid[Owner(o)] = "base"]_vars
=============================================================================
