------------------------- MODULE PaymentFulfillment -------------------------
(***************************************************************************)
(* The payment fulfillment protocol: the `transactions' row with its       *)
(* fulfillment fence, the durable inbox of provider callbacks, and the     *)
(* task executions that move money received into a subscription on the     *)
(* external panel.                                                         *)
(*                                                                         *)
(* A worker is one execution of ProcessPayment: started by the queued      *)
(* task, by the replay sweep, or directly (free and Telegram Stars         *)
(* payments, the operator's retry button).  A step of a worker is one SQL  *)
(* statement that matches and is committed, one re-read, or one call to    *)
(* the outside; PostgreSQL runs at READ COMMITTED, so every other worker,  *)
(* sweep or delivery may act between two steps.  A worker may crash at any *)
(* step and only the two tables survive.                                   *)
(*                                                                         *)
(* A fulfillment or inbox token is represented by the worker that drew it: *)
(* tokens are fresh random values, and a worker draws one per execution.   *)
(***************************************************************************)
EXTENDS Naturals

CONSTANTS
  Payments,            \* payment ids
  Workers,             \* concurrent executions of ProcessPayment
  EventKinds,          \* the callback statuses a provider reports
  FreePayments,        \* payments whose final amount is zero
  TestPayments,        \* payments made by CreateTestPayment
  DirectPayments,      \* payments confirmed without the inbox (free, Stars)
  LegacyPayments,      \* rows the 0049 migration found in status FAILED
  Conflicting,         \* callbacks whose payment method may contradict a stored one
  Invalid,             \* callbacks of another gateway than the transaction's
  WebhookMaxAttempts,  \* failed attempts after which an event is parked
  PanelMaxAttempts,    \* attempts that may defer an unreachable panel
  MaxFaults,           \* bound on crashes and on executions outliving an inbox lease
  None                 \* the SQL NULL of a token, and the idle worker's job

ASSUME ConstantsAssumption ==
  /\ EventKinds \subseteq {"COMPLETED", "CANCELED", "REFUNDED"}
  /\ "COMPLETED" \in EventKinds
  /\ FreePayments \subseteq DirectPayments
  /\ DirectPayments \subseteq Payments
  /\ TestPayments \subseteq Payments
  /\ LegacyPayments \subseteq Payments
  /\ Conflicting \subseteq Payments \X EventKinds
  /\ Invalid \subseteq Payments \X EventKinds
  /\ WebhookMaxAttempts \in Nat \ {0}
  /\ PanelMaxAttempts \in Nat
  /\ PanelMaxAttempts >= WebhookMaxAttempts
  /\ MaxFaults \in Nat
  /\ None \notin Payments \cup Workers \cup EventKinds

VARIABLES
  tx,       \* tx[p]: the transactions row of payment p
  inbox,    \* inbox[p][k]: the payment_webhook_events row of <<p, k>>
  worker,   \* worker[w]: what execution w is doing
  effect,   \* effect[p]: how often p was applied, persisted and rewarded
  acked,    \* callbacks the provider was told (HTTP 200) are safely stored
  faults    \* number of faults so far

vars == <<tx, inbox, worker, effect, acked, faults>>

-----------------------------------------------------------------------------
(* State of one row, one inbox entry, one worker.                          *)

Statuses == {"ABSENT", "PENDING", "COMPLETED", "CANCELED", "REFUNDED", "FAILED"}
Fulfillments == {"NOT_STARTED", "PROCESSING", "SUCCEEDED", "MANUAL_REQUIRED"}
Tokens == Workers \cup {None}

\* started_at, completed_at are functions of `ful' in every write of the code.
Rows == [status : Statuses,
         reason : {"NULL", "PROVIDER", "LOCAL_TIMEOUT"},
         ful    : Fulfillments,
         token  : Tokens,
         lease  : {"NULL", "LIVE", "EXPIRED"},
         error  : {"NULL", "PANEL_UNREACHABLE", "OTHER"}]

\* `due' abstracts processing_next_attempt_at, `live' the processing lease: it
\* is FALSE when there is none or it is over.
Events == [st      : {"none", "waiting", "manual"},
           token   : Tokens,
           live    : BOOLEAN,
           due     : BOOLEAN,
           attempt : 0 .. PanelMaxAttempts]

OwnerSteps == {"deliver", "persist", "reward", "complete", "recheck", "fence", "release"}
Outcomes == {"ok", "rejected", "deferred", "failed", "unfenced"}
Steps == {"idle", "apply", "refundFence", "reread", "expire"} \cup OwnerSteps \cup Outcomes

Jobs == [pc      : Steps,
         p       : Payments \cup {None},
         k       : EventKinds \cup {None},
         inboxed : BOOLEAN,
         attempt : 0 .. PanelMaxAttempts]

Effects == [panel : Nat, local : Nat, reward : Nat]

Effect(panel, local, reward) == [panel |-> panel, local |-> local, reward |-> reward]
NoEffect == Effect(0, 0, 0)
\* Free purchases earn no referral reward.
FullEffect(p) == Effect(1, 1, IF p \in FreePayments THEN 0 ELSE 1)

NewRow == [status |-> "ABSENT", reason |-> "NULL", ful |-> "NOT_STARTED",
           token |-> None, lease |-> "NULL", error |-> "NULL"]
LegacyRow == [NewRow EXCEPT !.status = "FAILED", !.ful = "MANUAL_REQUIRED", !.error = "OTHER"]
NoEvent == [st |-> "none", token |-> None, live |-> FALSE, due |-> FALSE, attempt |-> 0]
StoredEvent == [NoEvent EXCEPT !.st = "waiting", !.due = TRUE]
ManualEvent == [NoEvent EXCEPT !.st = "manual", !.due = TRUE]
Idle == [pc |-> "idle", p |-> None, k |-> None, inboxed |-> FALSE, attempt |-> 0]

Init ==
  /\ tx = [p \in Payments |-> IF p \in LegacyPayments THEN LegacyRow ELSE NewRow]
  /\ inbox = [p \in Payments |-> [k \in EventKinds |-> NoEvent]]
  /\ worker = [w \in Workers |-> Idle]
  /\ effect = [p \in Payments |-> NoEffect]
  /\ acked = {}
  /\ faults = 0

-----------------------------------------------------------------------------
(* The transactions table: each guarded UPDATE of TransactionDao as the    *)
(* rows it matches and the row it writes.                                  *)

\* CHECK ck_transactions_fulfillment_state.
FulfillmentAllowed(r) ==
  \/ r.ful = "NOT_STARTED" /\ r.token = None /\ r.lease = "NULL"
       /\ r.status \in {"PENDING", "CANCELED", "REFUNDED"}
  \/ r.ful = "PROCESSING" /\ r.token # None /\ r.lease # "NULL"
       /\ r.status \in {"COMPLETED", "REFUNDED"}
  \/ r.ful = "SUCCEEDED" /\ r.token = None /\ r.lease = "NULL"
       /\ r.status \in {"COMPLETED", "REFUNDED"}
  \/ r.ful = "MANUAL_REQUIRED" /\ r.lease = "NULL"
       /\ r.status \in {"COMPLETED", "FAILED", "REFUNDED"}

\* And ck_transactions_cancellation_reason, without LEGACY_UNKNOWN (migration
\* 0049 and its trigger write it for older code): PostgreSQL rejects other rows.
RowAllowed(r) == FulfillmentAllowed(r) /\ (r.status = "CANCELED" <=> r.reason # "NULL")

InFlight(r) == r.ful \in {"PROCESSING", "MANUAL_REQUIRED"}

\* Fault: a claim whose lease is over may be claimed anew.
ClaimMatchesExpired(r) ==
  \/ r.ful = "NOT_STARTED" /\ r.status = "PENDING"
  \/ r.ful = "PROCESSING" /\ r.lease = "EXPIRED"
\* Fault: the operator's retry may claim a row nobody knows the delivery of.
ClaimMatchesFailed(r) == r.status \in {"PENDING", "FAILED"}

ClaimMatches(r) ==
  /\ r.ful = "NOT_STARTED"
  /\ \/ r.status = "PENDING"
     \/ r.status = "CANCELED" /\ r.reason = "LOCAL_TIMEOUT"
     \/ r.status = "COMPLETED" /\ r.error = "PANEL_UNREACHABLE"
Claimed(r, w) == [r EXCEPT !.status = "COMPLETED", !.reason = "NULL", !.ful = "PROCESSING",
                           !.token = w, !.lease = "LIVE", !.error = "NULL"]

CancelMatches(r) == r.status \in {"PENDING", "CANCELED"} /\ r.ful = "NOT_STARTED"
\* Fault: the reason is not recorded.
CanceledWithoutReason(r, why) == [r EXCEPT !.status = "CANCELED"]
Canceled(r, why) == [r EXCEPT !.status = "CANCELED", !.reason = why]

RefundMatches(r) ==
  \/ r.status \in {"PENDING", "CANCELED"} /\ r.ful = "NOT_STARTED"
  \/ r.status = "COMPLETED" /\ r.ful = "NOT_STARTED" /\ r.error = "PANEL_UNREACHABLE"
  \/ r.status = "COMPLETED" /\ r.ful = "SUCCEEDED"
Refunded(r) == [r EXCEPT !.status = "REFUNDED", !.reason = "NULL"]

RefundFenceMatches(r) == r.status = "COMPLETED" /\ InFlight(r)
RefundFenced(r) == [r EXCEPT !.status = "REFUNDED", !.error = "OTHER"]

OwnsLiveFence(r, w) ==
  r.status = "COMPLETED" /\ r.ful = "PROCESSING" /\ r.token = w /\ r.lease = "LIVE"
Succeeded(r) == [r EXCEPT !.ful = "SUCCEEDED", !.token = None, !.lease = "NULL", !.error = "NULL"]
Released(r) == [r EXCEPT !.ful = "NOT_STARTED", !.token = None, !.lease = "NULL",
                         !.error = "PANEL_UNREACHABLE"]

FenceMatches(r, w) == r.status \in {"COMPLETED", "REFUNDED"} /\ InFlight(r) /\ r.token = w
\* Faults: the fence forgets its owner; the fence keeps its lease.
FencedForgettingOwner(r) ==
  [r EXCEPT !.ful = "MANUAL_REQUIRED", !.token = None, !.lease = "NULL", !.error = "OTHER"]
FencedWithLease(r) == [r EXCEPT !.ful = "MANUAL_REQUIRED", !.error = "OTHER"]
\* The token is kept: a fenced row stays recognisable to the worker that owns it.
Fenced(r) == [r EXCEPT !.ful = "MANUAL_REQUIRED", !.lease = "NULL", !.error = "OTHER"]

\* Fault: a claim refunded meanwhile is not swept.
ExpireMatchesUnrefunded(r) ==
  r.status = "COMPLETED" /\ r.ful = "PROCESSING" /\ r.lease = "EXPIRED"
ExpireMatches(r) ==
  r.status \in {"COMPLETED", "REFUNDED"} /\ r.ful = "PROCESSING" /\ r.lease = "EXPIRED"

-----------------------------------------------------------------------------
(* The provider, the clock and the sweeps that do not run ProcessPayment.  *)

\* CreatePayment / CreateTestPayment commit the row after the provider call,
\* so a callback may arrive before it.
CreateTransaction(p) ==
  /\ tx[p].status = "ABSENT"
  /\ tx' = [tx EXCEPT ![p].status = "PENDING"]
  /\ UNCHANGED <<inbox, worker, effect, acked, faults>>

\* Free payments only enter the inbox when the operation is reconciled;
\* Telegram Stars has no webhook.
MayBeDelivered(p, k) == p \in DirectPayments => p \in FreePayments /\ k = "COMPLETED"

Store(e) == IF e.st = "none" THEN StoredEvent ELSE e

\* A provider callback (or a redelivery) is stored, then acknowledged.
DeliverWebhook(p, k) ==
  /\ MayBeDelivered(p, k)
  /\ inbox' = [inbox EXCEPT ![p][k] = Store(@)]
  /\ acked' = acked \cup {<<p, k>>}
  /\ UNCHANGED <<tx, worker, effect, faults>>

\* The stored callback carries another payment method: the conflict parks the
\* event and takes it away from whoever is processing it.
DeliverConflicting(p, k) ==
  /\ MayBeDelivered(p, k)
  /\ <<p, k>> \in Conflicting
  /\ inbox[p][k].st # "none"
  /\ inbox' = [inbox EXCEPT ![p][k] = [ManualEvent EXCEPT !.attempt = inbox[p][k].attempt]]
  /\ acked' = acked \cup {<<p, k>>}
  /\ UNCHANGED <<tx, worker, effect, faults>>

\* cancel_old_transactions_task: a pending row older than 30 minutes.
CancelOld(p) ==
  /\ tx[p].status = "PENDING"
  /\ tx' = [tx EXCEPT ![p] = Canceled(@, "LOCAL_TIMEOUT")]
  /\ UNCHANGED <<inbox, worker, effect, acked, faults>>

\* Reconciliation of a payment operation finds the payment canceled at its
\* provider: the row is inserted as such, or canceled if it is there.
RecoverCanceled(p) ==
  /\ tx[p].status = "ABSENT" \/ CancelMatches(tx[p])
  /\ tx' = [tx EXCEPT ![p] = Canceled(@, "PROVIDER")]
  /\ UNCHANGED <<inbox, worker, effect, acked, faults>>

LeaseExpires(p) ==
  /\ tx[p].lease = "LIVE"
  /\ tx' = [tx EXCEPT ![p].lease = "EXPIRED"]
  /\ UNCHANGED <<inbox, worker, effect, acked, faults>>

\* sweep_payment_fulfillments_task, first statement.
ExpireFulfillments(p) ==
  /\ ExpireMatches(tx[p])
  /\ tx' = [tx EXCEPT ![p] = Fenced(@)]
  /\ UNCHANGED <<inbox, worker, effect, acked, faults>>

Processing(w, p, k) ==
  worker[w].pc # "idle" /\ worker[w].inboxed /\ worker[w].p = p /\ worker[w].k = k

\* The 5 or 15 minutes are over.  The holder crashed, or (a fault) is slower.
EventLeaseExpires(p, k) ==
  /\ inbox[p][k].live
  /\ inbox' = [inbox EXCEPT ![p][k].live = FALSE]
  /\ IF Processing(inbox[p][k].token, p, k)
       THEN faults < MaxFaults /\ faults' = faults + 1
       ELSE faults' = faults
  /\ UNCHANGED <<tx, worker, effect, acked>>

BackoffElapses(p, k) ==
  /\ inbox[p][k].st = "waiting" /\ ~inbox[p][k].due
  /\ inbox' = [inbox EXCEPT ![p][k].due = TRUE]
  /\ UNCHANGED <<tx, worker, effect, acked, faults>>

Orphaned(p, k) == tx[p].status = "ABSENT" \/ <<p, k>> \in Invalid

\* replay_pending_payment_webhooks_task, first statement: no transaction of that
\* gateway after the 7 day retention.
ExpireOrphan(p, k) ==
  /\ Orphaned(p, k)
  /\ inbox[p][k].st = "waiting"
  /\ ~inbox[p][k].live
  /\ inbox' = [inbox EXCEPT ![p][k] = [ManualEvent EXCEPT !.attempt = inbox[p][k].attempt]]
  /\ UNCHANGED <<tx, worker, effect, acked, faults>>

-----------------------------------------------------------------------------
(* Starting an execution.                                                  *)

\* Fault: only events nobody ever claimed are claimable.
EventClaimableOnce(e) == e.st = "waiting" /\ e.due /\ e.token = None
\* `live' is FALSE exactly when the token is NULL or its lease is over.
EventClaimable(e) == e.st = "waiting" /\ e.due /\ ~e.live

NextAttempt(e) == IF e.attempt < PanelMaxAttempts THEN e.attempt + 1 ELSE e.attempt

ClaimEvent(w, p, k) ==
  /\ worker[w].pc = "idle"
  /\ EventClaimable(inbox[p][k])
  /\ inbox' = [inbox EXCEPT ![p][k] = [@ EXCEPT !.token = w, !.live = TRUE,
                                                !.attempt = NextAttempt(inbox[p][k])]]
  /\ worker' = [worker EXCEPT ![w] = [pc |-> "apply", p |-> p, k |-> k, inboxed |-> TRUE,
                                      attempt |-> NextAttempt(inbox[p][k])]]
  /\ UNCHANGED <<tx, effect, acked, faults>>

\* handle_payment_transaction_task: one is queued per delivery, so a task may
\* run at any time after the first one, in any number.
StartTask(w, p, k) == ClaimEvent(w, p, k)

\* The replay sweep only takes events whose transaction exists.
StartReplay(w, p, k) == ~Orphaned(p, k) /\ ClaimEvent(w, p, k)

StartOutsideInbox(w, p, k) ==
  /\ worker[w].pc = "idle"
  /\ worker' = [worker EXCEPT ![w] = [pc |-> "apply", p |-> p, k |-> k, inboxed |-> FALSE,
                                      attempt |-> 0]]
  /\ UNCHANGED <<tx, inbox, effect, acked, faults>>

\* Free payments are confirmed by the request that created them, Stars
\* payments by the bot's update handler (CANCELED: the owner's test payment).
StartDirect(w, p, k) ==
  /\ p \in DirectPayments
  /\ tx[p].status # "ABSENT"
  /\ k = "COMPLETED" \/ (k = "CANCELED" /\ p \notin FreePayments)
  /\ StartOutsideInbox(w, p, k)

RetryFailedTransaction(w, p) ==
  /\ tx[p].status = "FAILED"
  /\ StartOutsideInbox(w, p, "COMPLETED")

-----------------------------------------------------------------------------
(* ProcessPayment.                                                         *)

Goto(w, step) == worker' = [worker EXCEPT ![w].pc = step]

\* A Platega callback whose method contradicts the row is applied all the same
\* and then reported as not applied.
Settle(w) == \/ Goto(w, "ok")
             \/ <<worker[w].p, worker[w].k>> \in Conflicting /\ Goto(w, "rejected")

\* The outcome after a notification: the notifier or the second transaction
\* that records the alert may fail.
Notify(w) == Settle(w) \/ Goto(w, "failed")

\* The transaction does not exist yet: keep the event and report an error.
StoreEarly(w) ==
  LET p == worker[w].p  k == worker[w].k IN
  /\ worker[w].pc = "apply"
  /\ tx[p].status = "ABSENT"
  /\ inbox' = [inbox EXCEPT ![p][k] = Store(@)]
  /\ Goto(w, "failed")
  /\ UNCHANGED <<tx, effect, acked, faults>>

RejectInvalid(w) ==
  /\ worker[w].pc = "apply"
  /\ tx[worker[w].p].status # "ABSENT"
  /\ <<worker[w].p, worker[w].k>> \in Invalid
  /\ Goto(w, "rejected")
  /\ UNCHANGED <<tx, inbox, effect, acked, faults>>

\* A statement raises and its transaction rolls back: a database error, or an
\* owner merged into another account (the claim locks the owner row).  For the
\* release of a live fence this is a branch of ReleaseUnapplied.
DatabaseError(w) ==
  /\ \/ worker[w].pc \in {"apply", "refundFence", "reread", "expire",
                          "complete", "recheck", "fence"}
     \/ worker[w].pc = "release" /\ ~OwnsLiveFence(tx[worker[w].p], w)
  /\ Goto(w, "failed")
  /\ UNCHANGED <<tx, inbox, effect, acked, faults>>

Applying(w, k) ==
  /\ worker[w].pc = "apply"
  /\ worker[w].k = k
  /\ tx[worker[w].p].status # "ABSENT"
  /\ <<worker[w].p, k>> \notin Invalid

\* claim_fulfillment and its commit.
ApplyCompleted(w) ==
  LET p == worker[w].p IN
  /\ Applying(w, "COMPLETED")
  /\ IF ClaimMatches(tx[p])
       THEN tx' = [tx EXCEPT ![p] = Claimed(@, w)] /\ Goto(w, "deliver")
       ELSE tx' = tx /\ Goto(w, "reread")
  /\ UNCHANGED <<inbox, effect, acked, faults>>

ApplyCanceled(w) ==
  LET p == worker[w].p IN
  /\ Applying(w, "CANCELED")
  /\ IF CancelMatches(tx[p])
       THEN tx' = [tx EXCEPT ![p] = Canceled(@, "PROVIDER")] /\ Settle(w)
       ELSE tx' = tx /\ Goto(w, "reread")
  /\ UNCHANGED <<inbox, effect, acked, faults>>

ApplyRefunded(w) ==
  LET p == worker[w].p IN
  /\ Applying(w, "REFUNDED")
  /\ IF RefundMatches(tx[p])
       THEN tx' = [tx EXCEPT ![p] = Refunded(@)] /\ Notify(w)
       ELSE tx' = tx /\ Goto(w, "refundFence")
  /\ UNCHANGED <<inbox, effect, acked, faults>>

\* mark_refund_manual_required.
FenceRefund(w) ==
  LET p == worker[w].p IN
  /\ worker[w].pc = "refundFence"
  /\ IF RefundFenceMatches(tx[p])
       THEN tx' = [tx EXCEPT ![p] = RefundFenced(@)] /\ Notify(w)
       ELSE tx' = tx /\ Goto(w, "reread")
  /\ UNCHANGED <<inbox, effect, acked, faults>>

\* The UPDATE matched no row: decide from a fresh read of it.
RereadCompleted(w, r) ==
  CASE r.ful = "PROCESSING" -> Goto(w, "expire")
    [] r.ful = "SUCCEEDED" -> Settle(w)
    [] r.ful = "NOT_STARTED" /\ r.status = "REFUNDED" -> Settle(w)
    [] OTHER -> Goto(w, "rejected")

RereadCanceled(w, r) ==
  IF (r.status = "CANCELED" /\ r.reason = "PROVIDER") \/ r.status = "REFUNDED"
    THEN Settle(w) ELSE Goto(w, "rejected")

RereadRefunded(w, r) ==
  IF r.status = "REFUNDED" THEN Notify(w) ELSE Goto(w, "rejected")

Reread(w) ==
  LET r == tx[worker[w].p] IN
  /\ worker[w].pc = "reread"
  /\ \/ worker[w].k = "COMPLETED" /\ RereadCompleted(w, r)
     \/ worker[w].k = "CANCELED" /\ RereadCanceled(w, r)
     \/ worker[w].k = "REFUNDED" /\ RereadRefunded(w, r)
  /\ UNCHANGED <<tx, inbox, effect, acked, faults>>

\* Another execution owns the claim: fence it if its lease is over, and in
\* either case treat the callback as handled.
ExpireFulfillment(w) ==
  LET p == worker[w].p IN
  /\ worker[w].pc = "expire"
  /\ IF ExpireMatches(tx[p])
       THEN tx' = [tx EXCEPT ![p] = Fenced(@)] /\ Notify(w)
       ELSE tx' = tx /\ Settle(w)
  /\ UNCHANGED <<inbox, effect, acked, faults>>

-----------------------------------------------------------------------------
(* _handle_success: outside any database transaction.                      *)

\* A test payment only sends a message.
DeliverTest(w) ==
  /\ worker[w].pc = "deliver"
  /\ worker[w].p \in TestPayments
  /\ Goto(w, "complete") \/ Goto(w, "fence")
  /\ UNCHANGED <<tx, inbox, effect, acked, faults>>

\* The panel applied the purchase; its answer may be lost, or a later part of
\* the call (reset_traffic) may fail.
DeliverOnPanel(w) ==
  LET p == worker[w].p IN
  /\ worker[w].pc = "deliver"
  /\ p \notin TestPayments
  /\ effect' = [effect EXCEPT ![p].panel = @ + 1]
  /\ Goto(w, "persist") \/ Goto(w, "fence")
  /\ UNCHANGED <<tx, inbox, acked, faults>>

\* The subscription lock, the lookup or the panel refused: nothing applied.
DeliverRefused(w) ==
  /\ worker[w].pc = "deliver"
  /\ worker[w].p \notin TestPayments
  /\ Goto(w, "fence")
  /\ UNCHANGED <<tx, inbox, effect, acked, faults>>

\* defer_unreachable_fulfillment: only the inbox defers, while it has budget.
MayDefer(w) == worker[w].inboxed /\ worker[w].attempt < PanelMaxAttempts

\* RemnawaveUnreachableError: the request provably never reached the panel.
PanelUnreachable(w) ==
  /\ worker[w].pc = "deliver"
  /\ worker[w].p \notin TestPayments
  /\ Goto(w, IF MayDefer(w) THEN "release" ELSE "fence")
  /\ UNCHANGED <<tx, inbox, effect, acked, faults>>

\* Fault: a failed commit of the local subscription is ignored.
PersistIgnoringErrors(w) ==
  LET p == worker[w].p IN
  /\ worker[w].pc = "persist"
  /\ effect' = effect \/ effect' = [effect EXCEPT ![p].local = @ + 1]
  /\ Goto(w, "reward")
  /\ UNCHANGED <<tx, inbox, acked, faults>>

\* PurchaseSubscription commits the local subscription after the panel call.
PersistSubscription(w) ==
  LET p == worker[w].p IN
  /\ worker[w].pc = "persist"
  /\ \/ effect' = [effect EXCEPT ![p].local = @ + 1] /\ Goto(w, "reward")
     \/ effect' = effect /\ Goto(w, "fence")
  /\ UNCHANGED <<tx, inbox, acked, faults>>

\* Fault: free purchases are rewarded as well.
RewardFreePurchases(w) ==
  LET p == worker[w].p IN
  /\ worker[w].pc = "reward"
  /\ effect' = [effect EXCEPT ![p].reward = @ + 1]
  /\ Goto(w, "complete")
  /\ UNCHANGED <<tx, inbox, acked, faults>>

\* Publish the event, persist the referral reward intents (paid payments),
\* redirect the user; any of them may raise.
AssignReferralRewards(w) ==
  LET p == worker[w].p IN
  /\ worker[w].pc = "reward"
  /\ \/ /\ effect' = [effect EXCEPT ![p].reward = @ + FullEffect(p).reward]
        /\ Goto(w, "complete") \/ Goto(w, "fence")
     \/ effect' = effect /\ Goto(w, "fence")
  /\ UNCHANGED <<tx, inbox, acked, faults>>

-----------------------------------------------------------------------------
(* Recording the result.                                                   *)

CompleteFulfillment(w) ==
  LET p == worker[w].p IN
  /\ worker[w].pc = "complete"
  /\ IF OwnsLiveFence(tx[p], w)
       THEN tx' = [tx EXCEPT ![p] = Succeeded(@)] /\ Settle(w)
       ELSE tx' = tx /\ Goto(w, "recheck")
  /\ UNCHANGED <<inbox, effect, acked, faults>>

\* The proof came too late (a refund, or the lease is over): leave the row to
\* the operator, or report that the fence was lost.
RecheckFulfillment(w) ==
  LET p == worker[w].p  r == tx[worker[w].p] IN
  /\ worker[w].pc = "recheck"
  /\ IF FenceMatches(r, w)
       THEN tx' = [tx EXCEPT ![p] = Fenced(@)] /\ Notify(w)
       ELSE /\ tx' = tx
            /\ IF r.ful = "SUCCEEDED" THEN Settle(w) ELSE Goto(w, "unfenced")
  /\ UNCHANGED <<inbox, effect, acked, faults>>

\* The except branch: mark_fulfillment_manual_required with the worker's token.
FenceFailure(w) ==
  LET p == worker[w].p IN
  /\ worker[w].pc = "fence"
  /\ IF FenceMatches(tx[p], w)
       THEN tx' = [tx EXCEPT ![p] = Fenced(@)] /\ Goto(w, "failed")
       ELSE /\ tx' = tx
            /\ Goto(w, IF tx[p].ful = "MANUAL_REQUIRED" THEN "failed" ELSE "unfenced")
  /\ UNCHANGED <<inbox, effect, acked, faults>>

\* release_unapplied_fulfillment.  The statement is subject to the CHECK
\* constraint: a rejected row raises IntegrityError and rolls back.
ReleaseUnapplied(w) ==
  LET p == worker[w].p  r == tx[worker[w].p] IN
  /\ worker[w].pc = "release"
  /\ IF OwnsLiveFence(r, w)
       THEN IF RowAllowed(Released(r))
              THEN tx' = [tx EXCEPT ![p] = Released(@)] /\ Goto(w, "deferred")
              ELSE tx' = tx /\ Goto(w, "failed")
       ELSE IF FenceMatches(r, w)
              THEN tx' = [tx EXCEPT ![p] = Fenced(@)] /\ Goto(w, "rejected")
              ELSE tx' = tx /\ Goto(w, "unfenced")
  /\ UNCHANGED <<inbox, effect, acked, faults>>

\* The task or the sweep deletes or releases its inbox event, under its token.
Parks(w) == worker[w].pc = "rejected"
              \/ (worker[w].pc \in {"failed", "unfenced"}
                    /\ worker[w].attempt >= WebhookMaxAttempts)

\* Fault: the released event keeps its token and its lease.
FinishedEventKeepingClaim(e, w) ==
  IF worker[w].pc = "ok"
    THEN IF e.st = "manual" THEN e ELSE NoEvent
    ELSE [e EXCEPT !.due = Parks(w), !.st = IF Parks(w) THEN "manual" ELSE @]
FinishedEvent(e, w) ==
  IF worker[w].pc = "ok"
    THEN IF e.st = "manual" THEN e ELSE NoEvent
    ELSE [e EXCEPT !.token = None, !.live = FALSE, !.due = Parks(w),
                   !.st = IF Parks(w) THEN "manual" ELSE @]

FinishEvent(w) ==
  LET p == worker[w].p  k == worker[w].k IN
  /\ worker[w].pc \in Outcomes
  /\ inbox' = IF worker[w].inboxed /\ inbox[p][k].token = w
                THEN [inbox EXCEPT ![p][k] = FinishedEvent(@, w)]
                ELSE inbox
  /\ worker' = [worker EXCEPT ![w] = Idle]
  /\ UNCHANGED <<tx, effect, acked, faults>>

Crash(w) ==
  /\ faults < MaxFaults
  /\ worker[w].pc # "idle"
  /\ worker' = [worker EXCEPT ![w] = Idle]
  /\ faults' = faults + 1
  /\ UNCHANGED <<tx, inbox, effect, acked>>

-----------------------------------------------------------------------------
WorkerStep(w) ==
  \/ StoreEarly(w) \/ RejectInvalid(w) \/ DatabaseError(w)
  \/ ApplyCompleted(w) \/ ApplyCanceled(w) \/ ApplyRefunded(w)
  \/ FenceRefund(w) \/ Reread(w) \/ ExpireFulfillment(w)
  \/ DeliverTest(w) \/ DeliverOnPanel(w) \/ DeliverRefused(w) \/ PanelUnreachable(w)
  \/ PersistSubscription(w) \/ AssignReferralRewards(w)
  \/ CompleteFulfillment(w) \/ RecheckFulfillment(w) \/ FenceFailure(w)
  \/ ReleaseUnapplied(w) \/ FinishEvent(w)

Next ==
  \/ \E p \in Payments :
       \/ CreateTransaction(p) \/ CancelOld(p) \/ RecoverCanceled(p)
       \/ LeaseExpires(p) \/ ExpireFulfillments(p)
       \/ \E k \in EventKinds :
            \/ DeliverWebhook(p, k) \/ DeliverConflicting(p, k)
            \/ EventLeaseExpires(p, k) \/ BackoffElapses(p, k) \/ ExpireOrphan(p, k)
  \/ \E w \in Workers :
       \/ WorkerStep(w)
       \/ Crash(w)
       \/ \E p \in Payments :
            \/ RetryFailedTransaction(w, p)
            \/ \E k \in EventKinds :
                 \/ StartTask(w, p, k) \/ StartReplay(w, p, k) \/ StartDirect(w, p, k)

Spec == Init /\ [][Next]_vars

(* Workers run until they end or crash; leases and backoffs run out; the   *)
(* cron sweeps run every minute, and the replay sweep takes the events     *)
(* that have waited longest first, so an event that keeps becoming         *)
(* claimable is claimed.  Nothing obliges a provider, a customer or the    *)
(* queued task to act.                                                     *)
Fairness ==
  /\ \A w \in Workers : WF_vars(WorkerStep(w))
  /\ \A p \in Payments :
       /\ WF_vars(LeaseExpires(p))
       /\ WF_vars(ExpireFulfillments(p))
       /\ \A k \in EventKinds :
            /\ WF_vars(EventLeaseExpires(p, k))
            /\ WF_vars(BackoffElapses(p, k))
            /\ WF_vars(ExpireOrphan(p, k))
            /\ SF_vars(\E w \in Workers : StartReplay(w, p, k))

FairSpec == Spec /\ Fairness

-----------------------------------------------------------------------------
(* Properties.                                                             *)

(* What no CHECK of payment_webhook_events demands and the sweeps rely on: *)
(* a claimed event was counted and still waits, a lease has its token, and *)
(* a parked event has neither.                                             *)
EventShape(e) ==
  /\ e.st = "none" => e = NoEvent
  /\ e.live => e.token # None
  /\ e.token # None => e.st = "waiting" /\ e.attempt > 0
  /\ e.st = "manual" => e.due

(* Every variable keeps the shape of its table, queue or process record,   *)
(* and an inbox event the shape of its claim, whoever stores, claims,      *)
(* parks, releases or deletes it meanwhile.                                *)
TypeOK ==
  /\ tx \in [Payments -> Rows]
  /\ inbox \in [Payments -> [EventKinds -> Events]]
  /\ \A p \in Payments, k \in EventKinds : EventShape(inbox[p][k])
  /\ worker \in [Workers -> Jobs]
  /\ effect \in [Payments -> Effects]
  /\ acked \subseteq Payments \X EventKinds
  /\ faults \in 0 .. MaxFaults

(* No interleaving of the guarded UPDATEs leaves a row that the two CHECK  *)
(* constraints forbid: apart from the release, none of them can be         *)
(* rejected for it.                                                        *)
CheckConstraintHolds == \A p \in Payments : tx[p].status = "ABSENT" \/ RowAllowed(tx[p])

(* However often a callback is delivered, queued, replayed, crashed or     *)
(* overtaken by a lease expiry, a payment is applied on the panel, written *)
(* to the local subscription and rewarded at most once each.               *)
AppliedAtMostOnce == \A p \in Payments :
  effect[p].panel <= 1 /\ effect[p].local <= 1 /\ effect[p].reward <= 1

(* SUCCEEDED is proof: the purchase was applied once, the local            *)
(* subscription was committed once and a paid purchase's referral rewards  *)
(* were recorded once.                                                     *)
SucceededIsProof ==
  \A p \in Payments :
    tx[p].ful = "SUCCEEDED" => p \in TestPayments \/ effect[p] = FullEffect(p)

(* The execution that won the claim still finds its own token in the row,  *)
(* whatever refunds and lease expiries happened meanwhile: the             *)
(* RuntimeErrors "could not be fenced", "could not release its fence" and  *)
(* "proof could not be persisted" of ProcessPayment are unreachable.       *)
FenceIsNeverLost == \A w \in Workers :
  /\ worker[w].pc # "unfenced"
  /\ worker[w].pc \in OwnerSteps => InFlight(tx[worker[w].p]) /\ tx[worker[w].p].token = w

Reflected(p, k) ==
  \/ tx[p].status = "REFUNDED"
  \/ k = "COMPLETED" /\ tx[p].ful # "NOT_STARTED"
  \/ k = "CANCELED" /\ tx[p].status = "CANCELED" /\ tx[p].reason = "PROVIDER"

(* A callback answered with HTTP 200 is never lost: it waits in the inbox, *)
(* is parked there for the operator, or its effect is in the row.          *)
NothingAcknowledgedIsLost ==
  \A p \in Payments, k \in EventKinds :
    <<p, k>> \in acked => inbox[p][k].st # "none" \/ Reflected(p, k)

(* No payment stays in PROCESSING: crashed, refunded or slow, it is proved *)
(* or handed to the operator.                                              *)
EveryClaimEnds ==
  \A p \in Payments : tx[p].ful = "PROCESSING" ~> tx[p].ful # "PROCESSING"

(* No stored callback waits forever: it is handled or parked.              *)
EveryEventSettles ==
  \A p \in Payments, k \in EventKinds :
    inbox[p][k].st = "waiting" ~> inbox[p][k].st # "waiting"

(* ProcessPaymentDto: "When the panel was provably never reached, the      *)
(* fulfillment claim is released instead of being fenced for manual        *)
(* review, and the inbox replays the event later."                         *)
UnreachablePanelIsReplayed ==
  [][\A w \in Workers :
       (worker[w].pc = "release" /\ OwnsLiveFence(tx[worker[w].p], w) /\ ReleaseUnapplied(w))
         => tx'[worker[w].p].ful = "NOT_STARTED"]_vars

-----------------------------------------------------------------------------
(* What the protocol promises: see PaymentPromise.                         *)

Money(r) ==
  CASE r.status = "ABSENT" -> "none"
    [] r.status = "CANCELED" /\ r.reason = "PROVIDER" -> "void"
    [] r.status = "PENDING" \/ (r.status = "CANCELED" /\ r.reason # "PROVIDER") -> "due"
    [] r.status = "COMPLETED" -> "received"
    [] r.status = "REFUNDED" -> "returned"
    [] r.status = "FAILED" -> "legacy"

Delivery(r) ==
  CASE r.ful = "NOT_STARTED" -> "no"
    [] r.ful = "PROCESSING" -> "doing"
    [] r.ful = "SUCCEEDED" -> "done"
    [] r.ful = "MANUAL_REQUIRED" -> "review"

Promise == INSTANCE PaymentPromise WITH
  Exempt <- TestPayments,
  money <- [p \in Payments |-> Money(tx[p])],
  delivery <- [p \in Payments |-> Delivery(tx[p])],
  applied <- [p \in Payments |-> effect[p].panel]

(* The protocol implements the promise.                                    *)
ImplementsPromise == Promise!Spec
=============================================================================
