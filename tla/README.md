# Remnashop: formal models of the money paths

Remnashop is a shop for VPN subscriptions: a Telegram bot and a web cabinet in
front of a PostgreSQL database, a Redis instance, a task queue (taskiq) and an
external panel, Remnawave, that owns the VPN accounts. A purchase becomes a row
of `transactions`, is paid at one of fifteen payment gateways, and is delivered
by one call to the panel. Money, database and panel are three systems with no
common transaction. The code keeps them in step with guarded UPDATE statements,
random fencing tokens, leases, a durable inbox of provider callbacks and sweeps
that run every minute. These models state what that machinery promises, check it
on small instances with TLC, and prove the central promises for every size with
TLAPS.

Paths below are relative to the repository. `PROJECT.json` holds the line by
line map from every definition to the code it models.

Contents: 1 the system; 2 the modules and how they correspond to the code;
3 the runs; 4 fairness; 5 the proofs; 6 disagreements found; 7 what is only
model-checked, and what is not modelled; 8 plan; 9 how to run.

## 1. The system

### 1.1 Payment fulfillment and the callback inbox (modelled)

*Code*: `src/src/infrastructure/database/dao/transaction.py`,
`src/src/application/use_cases/gateways/commands/payment.py`,
`src/src/infrastructure/taskiq/tasks/payments.py`,
`src/src/application/use_cases/misc/commands/maintenance.py`,
`src/src/web/endpoints/payments.py`.

*State*: `transactions` (status, cancellation reason, fulfillment status with its
token, lease and error code) and `payment_webhook_events` (one row per payment
and callback status, with a processing token, a lease, an attempt count, the time
of the next attempt and a manual flag).

*Operations*: create a transaction; store a callback and acknowledge it; claim an
event; claim a fulfillment; cancel (by the provider, by the 30 minute timeout, by
reconciliation); refund; apply the purchase on the panel, persist the local
subscription, record the reward intents; prove, fence or release the claim;
finish, release or park the event; the two sweeps; the operator's retry.

*Interactions*: the webhook endpoint stores and queues; a queued task, the replay
sweep and direct confirmations (free purchases, Telegram Stars) run the same
`ProcessPayment`; reconciliation of payment operations (1.2) cancels rows and
stores success events; the referral engine (1.3) takes the intents.

*Hard*: statements are committed one by one at READ COMMITTED and the panel call
happens between two of them, outside any transaction; every process may die
anywhere; callbacks are duplicated, late, and arrive in any order, before the row
exists too; leases run out under executions that are still alive.

*Correct when*: a payment is applied, persisted and rewarded at most once;
SUCCEEDED is proof of delivery; an acknowledged callback is never lost; every
claim ends proved or with an operator; a settled delivery never starts again.

### 1.2 Payment operations: idempotent creation and reconciliation (modelled)

*Code*: `src/src/infrastructure/database/dao/payment_operation.py`,
`src/src/application/services/payment_idempotency.py`,
`src/src/application/services/payment_reconciliation.py`,
`src/src/web/endpoints/public/subscription.py`, `CreatePayment` in
`payment.py`.

*State*: `payment_operations`, one row per user, operation and Idempotency-Key:
status, body hash, processing lease, the checkpointed provider result, the linked
transaction, the replay deadline, and the reconciliation's token, lease, attempts
and next attempt.

*Operations*: claim a key, take over an expired claim, cross the side-effect
boundary, call the provider, checkpoint its answer, create and link the
transaction, store the response, abandon, mark unknown; claim a reconciliation,
replay the stored request, verify, complete, release, hand over; expire leases;
show the operation to its owner.

*Hard*: the provider may have charged although the answer was lost; a replay under
the same Idempotence-Key is safe only while YooKassa remembers the key; two
requests may believe they lead one claim; `mark_unknown` and `delete_claimed` have
no owner; a reconciliation may outlive its lease.

*Correct when*: the provider creates at most one payment per key; a client that
was answered finds the same payment ever after; a stored response stands on
evidence; a settled operation is final; an ambiguous operation does not stay so.

### 1.3 Referral rewards (modelled)

*Code*: `src/src/application/use_cases/referral/commands/rewards.py`,
`src/src/infrastructure/database/dao/referral.py`. *State*: a reward per source
transaction and level: PENDING, PROCESSING, RETRY_WAITING, ISSUED,
MANUAL_REQUIRED, SUPERSEDED, with a token, a lease, the winner's marker of the
first-payment strategy, and for extra days the absolute target expiry.
*Operations*: record intents, sweep, claim (one in flight per recipient), grant
points in one transaction, grant days in two phases around a panel call made while
the source transaction's row is locked, defer, supersede after a refund, alert and
resolve by hand. *Hard*: an ambiguous extension of the subscription, a refund
racing the grant, a stale candidate list, two first payments proved in one order
and claimed in another. *Correct when*: a reward is granted at most once, for the
first payment only where that is the strategy, never takes days away, and a refund
of what was granted reaches a person.

### 1.4 Subscription mutations, panel synchronisation, promocodes and trials (modelled)

*Code*: `src/src/infrastructure/services/subscription_mutation_lock.py` and every
use case that writes both the panel and the local subscription:
`use_cases/subscription/commands/*`, `use_cases/promocode/commands/activate.py`,
`use_cases/remnawave/commands/synchronization.py`,
`application/services/remnawave.py`. *State*: a Redis key per user with a 300 s
lease, extended by a heartbeat that cancels its owner when the extension fails;
the current subscription; the panel's user; webhooks under way; promocode
activations; the trial flag. *Hard*: a full snapshot is written to the panel and
committed locally afterwards; either of them may fail alone; a request may land
after its caller gave up; the panel changes by itself and says so late; two users at a
promocode's last activation. *Correct when*: a stored subscription and the panel agree
once nobody is at work; paid days are added to what is there; nothing is granted beyond
its limit.

### 1.5 Subscription e-mail reminders (modelled)

*Code*: `src/src/infrastructure/database/dao/subscription_email_reminder.py`,
`src/src/application/use_cases/notification/commands.py`,
`src/src/infrastructure/services/email_delivery_lock.py`. *State*: an outbox row
per expiry and threshold with a token and a lease; the run lock in Redis.
*Operations*: generate (hourly), claim, check again under row locks, send, renew
the lease meanwhile, mark sent, release, sweep, give back at the deadline (a run
each minute). *Hard*: eligibility is proved under locks that are released before
the SMTP call; a crash after the send and before the record of it; lost locks.
*Correct when*: each reminder arrives once, in order, not after the user changed
his mind, up to one more for each fault; and none stays open for ever.

### 1.6 Notification channels (modelled)

*Code*: `src/src/infrastructure/services/notification_channels.py`. *State*: a
delivery row per message, recipient and address; the feed; push subscriptions;
consent. *Operations*: enqueue, cancel, hide, recall, expire, claim, send, record,
subscribe, unsubscribe. *Hard*: a lease that nothing renews, a run lock for mail
and none for pushes, opt-outs and recalls while a copy is on the wire. *Correct
when*: one delivery per row unless something failed; an opt-out wins; a recalled
push is revoked on the device (which a retried one is not, section 6).

### 1.7 Broadcasts (modelled)

*Code*: `src/src/infrastructure/taskiq/tasks/broadcast.py`,
`src/src/application/use_cases/broadcast/`,
`src/src/infrastructure/services/broadcast_execution_lock.py`. *State*: the
broadcast's status and counters, a status per recipient, a PostgreSQL advisory lock
per broadcast. *Operations*: start, dispatch, copy to the channels, send in
batches, cancel, delete with a recall, finish. *Hard*: redelivered tasks,
cancellation without the lock, a crash between a send and its record. *Correct
when*: outside crashes nobody receives a broadcast twice, the counters are those of
the messages, a cancellation stops after the batch under way.

### 1.8 User merge (not modelled)

`src/src/infrastructure/database/dao/user_merge.py` moves every row of one user to
another in one transaction and refuses while work is in flight. *Hard*: a late
writer of a moved row.

### 1.9 Authentication and refresh tokens (not modelled)

`src/src/infrastructure/redis/auth.py`, `use_cases/auth/`. Refresh tokens are
rotated by an atomic script and carry a token version; a password change bumps it.

### 1.10 Pricing and payment cursors, operator alerts of payments (not modelled)

`src/src/application/services/pricing.py` and `payment_cursor.py` are sequential
arithmetic. The alert columns of the payment tables (claim an alert, emit it, mark
it, once more after a crash) belong to 1.1 and 1.2 and are read by nothing else.

### 1.11 The rest (not modelled)

Plans, settings, access rules, menus, ad links, blacklist and statistics (single
row reads and writes by an administrator); importer and backup (bulk copies; each
imported user takes the path of 1.4); gateway clients, the Telegram interface,
rendering and deployment (network clients, texts and probes). What a gateway
reports enters the models as a nondeterministic callback or answer.

## 2. The modules

    PaymentPromise  <== PaymentFulfillment      <-- MC, Proofs
         |
         +-- instantiated by PaymentOperation ==> PaymentOnce     <-- MC, Proofs
         |   (the purchase's row)
         +-- instantiated by ReferralReward   ==> RewardOnce      <-- MC, Proofs
             (the payments that earn rewards)

    NotificationChannels <-- Broadcast          <-- MCBroadcast
        <-- ChannelProofs  <--  BroadcastProofs (of Broadcast)
    ReminderOutbox                              <-- MC, Proofs
    SubscriptionMutation                        <-- MC, Proofs

    Counting: lemmas on the sizes of finite sets, of the last three families' proofs

`==>` is a refinement, stated as a property and checked; `<--` is EXTENDS. The two
modules that read the payments' state use the abstract specification that the
fulfillment is proved to implement, never the protocol itself.

### 2.1 PaymentPromise, PaymentOnce and RewardOnce: the promises

`PaymentPromise` has no tokens, leases, workers or inbox. For each payment, money
is none, due, received, void or returned; delivery is no, doing, done or in
review. Delivery starts once and only when money is received; it is proved or
handed over; the panel applies the purchase at most once, never before delivery
starts and never after it was proved.

`PaymentOnce` is the promise of an Idempotency-Key: a key is opened, charged at
most once, and ends settled or in review for good; it may be forgotten, for a
corrected request to use it, only while nothing was charged.

`RewardOnce` is the promise of a reward: owed, then granted or closed; granted once
at most, while owed and not refunded; recorded as granted or closed only as that
is true; what is in doubt is ruled on by a person.

### 2.2 PaymentFulfillment

| State | Code |
|---|---|
| `tx[p]` | the `transactions` row; `ABSENT` before the INSERT. `ful`, `token`, `lease`, `error` are the fulfillment columns; `started_at` and `completed_at` are functions of `ful` in every write and are left out |
| `inbox[p][k]` | the `payment_webhook_events` row of payment p and callback status k; `live` is the processing lease, `due` the next attempt's time, `manual` the parked flag |
| `worker[w]` | one execution of `ProcessPayment`: its place in the code (`pc`), its job, whether an inbox event carries it, and that event's attempt |
| `effect[p]` | how often the purchase was applied on the panel, persisted locally, rewarded: what the outside world saw |
| `acked` | the callbacks answered with HTTP 200 |
| `faults` | crashes and event leases that ran out under a live execution, bounded by `MaxFaults` |

One step of a worker is one SQL statement that matches and is committed, one
re-read, or one call to the outside. Two statements of one database transaction
are one step where the second depends on what the first locked, and separate steps
where the code re-reads after an UPDATE that matched nothing, which under READ
COMMITTED sees whatever was committed in between (`RereadCompleted` and its
siblings). A fencing token is the worker that drew it: the code draws a fresh random
value per execution, and a worker slot whose old token is still in a row cannot
be mistaken for a new one, because the proof shows that a row with a token never
becomes claimable again.

`RowAllowed` is the table's two CHECK constraints, on the fulfillment columns and on
the cancellation reason: every other statement is shown to satisfy them
(`CheckConstraintHolds`), and the release is rolled back by the first. The inbox has
no such constraint: `EventShape`, a part of `TypeOK`, states what the sweeps rely on
(a claimed event was counted and still waits, a lease has its token, a parked event
has neither).

Each guarded UPDATE of `TransactionDaoImpl` is a pair of operators, the rows it
matches and the row it writes (`ClaimMatches` / `Claimed`, `CancelMatches` /
`Canceled`, ...), so that a reader can lay it beside the SQL. The operators named
as a fault (`ClaimMatchesExpired`, `FencedForgettingOwner`, ...) are plausible
bugs, kept beside the definition each would replace; nothing in the
specification uses them. They are there to show that each property notices such a
change.

### 2.3 PaymentOperation

| State | Code |
|---|---|
| `op[i]` | the `payment_operations` row of key i; `id` tells a row from the one deleted before it under the same key; `result` is the checkpointed provider result by its status; `replay` is the 23 hour deadline; `token`, `tlease`, `due`, `attempt` are the reconciliation columns |
| `exec[w]` | one HTTP request: where it is, which row it works on, the body it carries, what it has seen |
| `invoice[i]`, `charges[i]` | the provider: the payment, which row's provider key it still remembers, and how many payments it has created |
| `money`, `delivery`, `applied` | the purchase's transactions row as `PaymentPromise` sees it |
| `notified` | successes handed to fulfillment |
| `answered` | responses with a payment that clients received |

A step is one database transaction or one provider call. Each transaction writes
the operation through one guarded UPDATE, whose row lock is held until the commit.
What it reads before that is either read again by the guard (the token, its lease,
the status), or cannot be taken back (a delivery that was proved), or is written by
a guarded UPDATE of its own (the transactions row); so the transaction takes effect
at the moment of the UPDATE. The delivery of the purchase is
the business of `PaymentFulfillment`; here `Fulfill` lets the row move by any step
of `PaymentPromise`, which `PaymentFulfillment` is proved to implement, so the two
models compose through that abstract specification. Only the creation of the row,
its cancellation by reconciliation and the notice of success are actions of this
module.

External parts, modelled from how the code uses them: the provider's invoice, its
24 hour memory of an Idempotence-Key (`ProviderForgets`), and the customer
(`InvoiceEnds`). One assumption of the code is stated as a guard: a call begun
within the 23 hour window ends within the remaining hour, so the provider does not
forget a key while a request under it is on the wire.

Simplifications, each with its reason:
- a validation error of the persisted snapshots is a nondeterministic refusal
  (`ReconcileFails`): which field is broken does not matter to any property;
- the disjunct of `complete` that accepts a SUCCEEDED row with the same response
  matches no reachable row, because a recovered response has another shape;
- the paid branch of `_complete_linked` is no action, because only free
  purchases are linked before their response is stored. That is a checked and
  proved property, `LinkedEarlyIsFree`, not an assumption;
- a request of an owner who was merged into another account is refused without a
  write, a stutter.

### 2.4 ReferralReward

| State | Code |
|---|---|
| `money`, `delivery`, `applied` | the source payments as `PaymentPromise` sees them |
| `earlier[s]` | the payments proved before s, by `fulfillment_completed_at` |
| `reward[r]` | the `referral_rewards` row; `first` is the strategy's snapshot, `won` the winner's marker, `base` and `target` the absolute expiries of extra days, `ruling` its last resolution |
| `worker[w]` | one iteration of `RetryPendingReferralRewards`: sweep, pick, lock, claim, grant |
| `expiry[u]`, `panel[u]` | the recipient's subscription, here and on the panel |
| `effect[r]` | how often r was granted |

The claim is four steps: the sweeps; the candidate of the statement's snapshot; the
User row locked with SKIP LOCKED and the candidates read again; the UPDATE, whose
predicates are applied once more. The sweeps are operators on one row, composed in
the order of the statements (`Swept`). A grant of days holds the locks of its reward
and of its source from `LockSource` to the end, which is what a refund waits for.
The recipient's mutation lock is taken with the first step under it.

### 2.5 NotificationChannels and Broadcast

`row[k]` is the delivery row of dedupe key k (a message, a user, and EMAIL or a push
subscription; a revocation is a key of its own), `worker[w]` a run with the rows it
has claimed and the servers' answers, `sent` and `late` what the outside world saw.
`Broadcast` extends it with the broadcast's row, its messages and counters, the
executions of its two tasks and the steps of a cancellation. Whatever takes the
advisory lock is one holder from `Acquire` to `Ends`. `copy_to_channels`,
`cancel_pending`, `hide_feed` and `recall` are the operators of the channels.

### 2.6 ReminderOutbox

One user with one subscription; `row[id]` is the reminder of an expiry and a
threshold. The clock counts days, leases and backoffs may be over at any time. A
run claims, prepares (the second check), sends and records; its two heartbeats are
`Interrupt` (run lock) and `LoseFence` (row). `mailed`, `backwards` and `late` are
what the mail server saw: how often it accepted a reminder, how often after a later
one of the same expiry, and how many mails nobody wanted any more.

### 2.7 SubscriptionMutation

A mutation is a read under the lock (`Hold`), one panel call (`Land`) and one
commit (`Commit`), whatever order the use case writes its own statements in: the
local write is seen only when the transaction commits, after the panel answered.
Each use case is an operator that gives the possible pairs of a row to commit and a
panel user, named as in the code; `Outcomes` is the table of them. Traffic, device
limit, squads and tag are one value, the plan. `Merged` is what
`SubscriptionDao.update` does with a row that moved since it was read: it writes
only the fields the mutation changed. `wire` holds panel calls whose caller gave
up, `notices` the panel's webhooks: `MODIFIED`, `STATUS` (`user.enabled` and
`user.disabled`), `EXPIRED` and `DELETED`.

Three ways in which the code may lose touch with the panel, without any fault, are
in the model:
- `delete_user` may answer that nothing was deleted and its callers do not look
  (`management.py`, `sync.py`): `Deletion` clears the row and leaves the panel user;
- a webhook that finds no subscription of its uuid is acknowledged and dropped before
  the lock (`Ignore`), whatever it reports. `user.modified` also finds its user by a
  Telegram id; whether there is one is left open, so that it may be dropped or
  delivered;
- a dropped webhook is missed if a row with its uuid is about to be committed
  (`Upcoming`).

Two history variables say of which users less is stated. `torn`: a row was committed
without the lease, or after a webhook about it had been dropped in that window; only
the limits are stated of them. `late`: a panel call landed whose caller had no lease
any more; the agreement is stated of them, the panel's side of `PaidDaysStand` is not.

Decisions: a caller waiting for the lock has read nothing it will use and is not
represented; a dead process is a rollback and a lock that is released late; a
webhook answered with 503 comes again; `RENEW` takes the path of `NEW` with a row
and is left out of the run; grace is reached through the EXPIRED webhook, and the
reset of traffic after it is not followed.

## 3. The runs

Twelve runs; four of them show a disagreement (section 6). All bounds are named
constants or constraints of the MC modules. A constraint says which part of the
state space the run looks at: TLC checks the properties in every state it reaches,
but follows only states that satisfy the constraint.

### 3.1 Fulfillment

| Run | Instance | Checks |
|---|---|---|
| `pf_safety` | a paid, a free, a test and a migrated FAILED purchase, one at a time; two executions; all three callback kinds, one of which contradicts the stored payment method and one names the wrong gateway; events parked after 1 failure, 2 deferrals, 2 faults | `TypeOK`, `CheckConstraintHolds`, `AppliedAtMostOnce`, `SucceededIsProof`, `FenceIsNeverLost`, `NothingAcknowledgedIsLost`, `ImplementsPromise` |
| `pf_liveness` | one purchase, one execution at a time, parked after 2 failures, 3 deferrals, 2 faults, fair | `EveryClaimEnds`, `EveryEventSettles` |
| `pf_deferral` | section 6 | violation |

`OnePayment`: payments share no row, no statement and no token, so one moves at a
time. `TwoReports`: a payment is reported in at most two of the three ways.
`TwoFaults`: the second fault hits only the ordinary payment. Two executions are
what a race over one row needs; the third execution of a chain is covered because a
finished or crashed slot starts again. `pf_liveness` trades the second execution for
a second failed attempt and a second crash: what waits for its backoff, and what is
left by a process that dies twice, must still settle. `PanelMaxAttempts = 2` makes a
deferral and its exhaustion reachable (the constants are 5 and 12 in the code; the
counter saturates in the model, and its guards compare it with the bounds only). Two
faults allow a crash during the recovery from a crash. Deadlock checking is on:
callbacks may always be redelivered.

### 3.2 Operations

| Run | Instance | Checks |
|---|---|---|
| `po_safety` | a key at YooKassa, a key at a gateway that cannot be replayed and a free purchase, one at a time; two requests, two bodies, two row ids, 2 attempts; fair | `TypeOK`, `OnePaymentPerKey`, `AnsweredIsDurable`, `SucceededIsProof`, `SuccessIsQueued`, `SettledIsFinal`, `FinalViewsStay`, `ImplementsOnce`, `EveryOperationSettles` |

`OneKey`: keys share no row. `FirstBody`: the first row of a key has the first
body, which is symmetry written as a constraint so that it is sound for liveness.
`MaxIds = 2` lets a key be deleted and claimed anew once, with another body, while
requests of its first row still run; `MaxAttempts = 2` (12 in the code) makes a
retry and its exhaustion reachable. Neither constraint cuts a fair action off: the
steps they exclude are requests that never have to come. Deadlock checking is off:
an operation in MANUAL_REQUIRED with nobody asking is where the system stops.

### 3.3 Referral rewards

| Run | Instance | Checks |
|---|---|---|
| `rr_safety` | two payments of one referred user, two rewards of one recipient, two workers, 1 fault | `TypeOK`, `GrantedAtMostOnce`, `OneInFlight`, `FirstPaymentOnly`, `IncidentsEnd`, `GrantExtends`, `ImplementsRewardOnce` |
| `rr_liveness` | one payment, one reward, recipients with and without a subscription, 1 fault, fair | `EveryRewardSettles`, `RefundsReachTheOperator` |
| `rr_evidence` | section 6 | violation |

`MCInit` starts where both purchases have just been applied: what a payment does
before touches no reward, and the proofs start from `Init`. `OneType`: the
administrator does not switch between points and days meanwhile, and with points
nobody reads the subscription. `VIEW Seen` leaves out what no step and no property
of the run reads. Two payments and two workers are what first-payment conflicts and
the fence per recipient need.

### 3.4 Channels, broadcasts and reminders

| Run | Instance | Checks |
|---|---|---|
| `bc_safety` | two users, one broadcast and one service message, two devices, two delivery runs, two executions of the tasks, 1 fault, batches of one | `SentOnce`, `OptOutWins`, `CountsAddUp`, `CancelStops`, `RecallMissesNoPush` |
| `bc_optout` | section 6 | violation |
| `bc_recall` | section 6: one user, one device, one run at a time, no fault | violation |
| `ro_outbox` | one subscription, reminders one and two days before its end, three days, two runs, 1 fault, fair | `TypeOK`, `RemindedOnce`, `ChangesWin`, `EveryReminderSettles` |

`OneSide`: the chats of a broadcast and its copies share its status and its lock
only, so the run looks at one of them at a time; with copies one execution of a
task is enough, and no fault is combined with a broadcast in progress (what a crash
does to a copy does not depend on who queued it). `OneChannel`: mails and pushes
share no row: two runs on one mail or one device, or one run on two.
`OneMessage`: copies of another message move before the broadcast or after it.
The three only keep the run small: the theorems of 5.4 state the same five
properties without them.

In `ro_outbox` reminders of different expiries never read each other: `OneExpiry`
follows those of the last, `TwoExpiries` gives the subscription one other expiry,
`UnfitAfterConsent` lets a user become unfit after he opted in. What leaves the
three is an action of the user, which no fairness demands.

### 3.5 Subscription mutations

| Run | Instance | Checks |
|---|---|---|
| `sm_safety` | thirteen use cases and the three webhook handlers, two executions at a time, one user and a second one who shares a promocode used once, two days, two panel users, 1 fault | `TypeOK`, `PanelAgrees`, `GrantedWithinLimits`, `PaidDaysStand` |

Without a fault, a promocode or a second panel user, every use case meets every
other on both days. `FewKindsWithFaults`: a fault is combined with one use case of
each kind (a purchase, a local switch, a trial, a promocode, the webhooks that
synchronise, a deletion), on one day. `FewKindsWithPromo`, `PromoOfTwo`: a promocode
is combined with another redeeming user, a trial, a purchase and a synchronisation.
`SecondUserIsNew`: the user created after a deletion meets purchases and the late
webhooks of the first. `TornIsSpent`: of a torn user only the limits are stated.
The theorems of 5.6 state the same properties without these constraints.

### 3.6 The properties worth reading first

- `AppliedAtMostOnce` needs the whole fence: it fails if an expired claim can be
  claimed anew, which is what a queue with at-least-once delivery usually does.
  The code prefers an operator to a second attempt.
- `NothingAcknowledgedIsLost` relates the inbox to the row: an event is deleted
  only when its effect, or that of a refund that overtook it, is in the row.
- `FenceIsNeverLost` states that three RuntimeErrors of `ProcessPayment` ("could
  not be fenced", ...) are unreachable, whatever refunds, sweeps and executions of
  other callbacks happen meanwhile.
- `OnePaymentPerKey` needs the replay window to be shorter than the provider's
  memory, the row id in every guard, and the deletion of claims to be restricted
  to CLAIMED rows.
- `FinalViewsStay` is about the public view, which is computed from two rows
  that move independently; a client stops polling at SUCCEEDED and
  MANUAL_REQUIRED, so neither may be taken back.
- `FirstPaymentOnly`: payments are proved in one order and claimed in another; the
  locked recheck and the marker keep the reward with the first.
- `GrantExtends`: an absolute target is stored, then other mutations may move the
  subscription; the comparison with the base, here and on the panel, is what keeps
  a grant from taking days away.
- `OptOutWins` and `ChangesWin` say how late is too late: one message that had
  passed its last check, and one more for each fault.
- `RecallMissesNoPush`: a push on the wire during the recall, or retried after it,
  has a revocation too. That the revocation comes last is another matter (`bc_recall`).
- `PanelAgrees` is eventual consistency of two systems that are each written alone
  and change by themselves, with webhooks that overtake the writes they report and
  some that nobody hears.

## 4. Fairness, and why the code justifies it

`PaymentFulfillment!Fairness`:
- weak fairness of every worker's step: an asyncio task that is alive goes on,
  and a task that is not is the action `Crash`, which is never fair and is bounded
  by `MaxFaults`. Without that bound the property would be false: an event that
  kills its process at every attempt is never parked, because only an attempt that
  ends counts;
- weak fairness of leases and backoffs: clocks advance;
- weak fairness of `ExpireFulfillments` and `ExpireOrphan`: both are the first
  statements of cron tasks that run every minute;
- strong fairness of the replay of an event: the sweep takes the events that have
  waited longest first and runs every minute, and other executions may be busy in
  between, so an event that becomes claimable again and again is claimed in the end.

Nothing is assumed of providers, customers, the queue or operators.

`PaymentOperation!Fairness`: weak fairness of requests, leases, backoffs, the
sweep and the give-up transition, and strong fairness of claiming a
reconciliation. The last is an assumption about the client, and is stated as such:
the repository schedules no reconciliation of its own; the cabinet polls.

`ReferralReward!Fairness`: weak fairness of a live worker's steps, of the sweep the
task begins with each minute, of leases and backoffs; strong fairness of picking a
recipient and of locking a reward of his, because candidates are taken in a fixed
order, a deferred one waits at least a minute, and another claim may hold the row
in between. Faults are bounded.

`ReminderOutbox!Fairness`: weak fairness of the clock, of the scheduler's next run,
of a live run's steps, and of leases that nobody renews any more (the action that
costs no fault). The user may do as he likes.

## 5. The proofs

The proof modules are checked by TLAPS for every value of the constants, from
`ConstantsAssumption`, `OperationAssumption`, `RewardAssumption`,
`ChannelConstants`, `BroadcastConstants`, `ReminderConstants`,
`MutationConstants` and `NoneIsNoRecord`, which TLC evaluates in the runs. Every
safety property of every passing run is a theorem; what rests on fairness is not
(section 7).

### 5.1 PaymentFulfillmentProofs

| Theorem | Property |
|---|---|
| `TypeCorrect` | `TypeOK` |
| `FenceInductive` | the inductive invariant `FenceInv` |
| `CheckConstraintKept` | `CheckConstraintHolds` |
| `AppliedOnce` | `AppliedAtMostOnce` |
| `SuccessProved` | `SucceededIsProof` |
| `FenceKept` | `FenceIsNeverLost` |
| `AcknowledgedKept` | `NothingAcknowledgedIsLost` |
| `KeepsPromise` | `ImplementsPromise`, the refinement |
| `FailedIsNeverClaimed` | a FAILED row never moves and its retry never delivers (section 6) |

None of the safety properties is inductive. "Applied at most once" says nothing of
the execution about to apply, and "the token is still mine" says nothing of the
other execution about to overwrite it. The invariant is
`FenceInv == (\A p : RowInv(p)) /\ (\A w : WorkInv(w))`. `RowInv` gives the
shape of a row and its effects for each fulfillment state: not started means no
effect at all; SUCCEEDED means the full effect; otherwise each effect happened at
most once. `WorkInv` says what an execution may rely on at each of its steps: an
owner (any step from `deliver` to `release`) finds its token in a row that is in
flight, with exactly the effects of the steps it has already taken. Two owners of
one row are excluded by the token being a function of the row. The step theorem has
one lemma per action. What all of them share is that every statement of another
worker, sweep or clock `Preserves` an owner's claim: it may expire the lease,
refund or fence the row, but never changes the token or makes the row claimable.

`NothingAcknowledgedIsLost` is inductive beside `FenceInv`: an event leaves the
inbox only in the hands of a worker that ended `ok`, `WorkInv` says that such a
worker's callback is reflected in the row, and a reflected callback stays
reflected, whichever statement comes next (`ReflectedStable`).

The refinement follows: initial states map to initial states, and by the invariant
each action maps to one step of `PaymentPromise` or to a stutter.

### 5.2 PaymentOperationProofs

| Theorem | Property |
|---|---|
| `TypeCorrect` | `TypeOK` |
| `OperationInductive` | the inductive invariant `OperationInv` |
| `OnePayment` | `OnePaymentPerKey` |
| `AnswersStay` | `AnsweredIsDurable` |
| `SuccessProved` | `SucceededIsProof` |
| `SuccessQueued` | `SuccessIsQueued` |
| `EarlyLinksAreFree` | `LinkedEarlyIsFree` |
| `SettledStays` | `SettledIsFinal` |
| `FinalViews` | `FinalViewsStay` |
| `KeepsPromise` | `ImplementsOnce`, the refinement |

`OperationInv` has four parts. `RowInv` and `ProviderInv` tie the row to the
provider and the purchase: a row that has not crossed the boundary has no token,
link, result or charge; a result means a charge; a charged replay key is either
still remembered by the provider under this row's id, or its replay window is over.
`RequestInv` says what a request may rely on however far the others moved: its row
id is at most the current one, equal from the boundary on; a request about to call
the provider knows that nothing was charged, or that a call under its key gets the
payment that exists. `Alone` says that one request at most is past the boundary of
a key: `mark_processing` is the only way in, and a row never returns to CLAIMED.

The argument that other requests do not disturb these facts is made once:
`Moves(r, s)` lists the directions in which any step moves a row, and the frame
lemma shows that `RequestInv` of everybody else survives any step that `Moves` its
row and leaves the provider consistent. Each action then needs its own request,
its own row and `Moves` only. Reconciliation does not need `Alone`: a stale
reconciliation and its successor may both be under way, and it is the token with
its lease in every write (`Holds`), and the provider's memory in the replay, that
keep them apart.

`FinalViewsStay` needs more than `OperationInv`, because the view is computed from
two rows. `MANUAL_REQUIRED` of the operation's own row is settled and stays by
`SettledIsFinal`. The other way to that view is an UNKNOWN operation of a free
purchase whose delivery is in review: `Begun` (a delivery that began belongs to
money that was received) keeps the delivery there, and `ReviewedStep` follows the row
through each reconciliation: with the delivery in review it can only stay UNKNOWN
and linked or become MANUAL_REQUIRED.

### 5.3 ReferralRewardProofs

| Theorem | Property |
|---|---|
| `InvariantHolds` | the inductive invariant `ReferralInv` |
| `TypeCorrect` | `TypeOK` |
| `GrantedOnce` | `GrantedAtMostOnce` |
| `OneInFlightKept` | `OneInFlight` |
| `FirstPaymentKept` | `FirstPaymentOnly` |
| `IncidentsEndProved` | `IncidentsEnd` |
| `GrantsExtend` | `GrantExtends` |
| `KeepsPromise` | `ImplementsRewardOnce`, the refinement |

`ReferralInv` ties a row to what was granted (`RowOK`: no grant before PROCESSING,
no grant without a target for days, a target at least `Days` beyond its base, the
marker only for the first payment, the number of incidents by state), and says what
an iteration may rely on (`JobOK`): between `LockSource` and the end it owns the
row, the source is paid and locked, and before the call nothing was granted and the
subscription stands at the base. `OneMutator` is the mutation lock. The statements
are lemmas about rows, so that the sweeps compose: each keeps `RowOK`, and each
moves a row only as `RewardOnce!Settle` allows. The theorem starts from `Init`,
not from the run's `MCInit`.

### 5.4 ChannelProofs and BroadcastProofs

| Theorem | Property |
|---|---|
| `TypeCorrect` | `TypeOK`, and with it `ChannelTypeOK` (no run lists them) |
| `Once` | `SentOnce`: copies and chats |
| `OptOut` | `OptOutWins` |
| `Counted` | `CountsAddUp` |
| `Stopping` | `CancelStops` |
| `Recalling` | `RecallMissesNoPush` |

They hold of `Spec` for any finite sets of users and runs, any messages, devices
and executions, and without the constraints of the run: copies, chats, mails,
pushes and both messages move at once.

`ChannelProofs` keeps `ChannelInv` through each step of the channels. "Sent once,
and once more per fault" is not inductive: a run that has claimed a copy and has
no answer yet may still send it. `Budget(k)` counts both, the copies sent and the
runs that still may (`Pending`), against `faults + 1`, and against `faults` alone
as long as the copy can be claimed again (`~Spent`): a claim uses up the
difference, and only a fault makes a claimed row claimable. `ConsentOK` is the same
argument for the mails that leave after an opt-out: a user's late mails and the
runs still holding one never exceed one and the faults, since the advisory lock
lets a second run mail only after a fault.

`BInv` adds the broadcast. `Mutex` ties the program counters to the advisory lock;
`TaskOK` is what the holder may rely on although cancelling takes no lock: its
remaining users are PENDING, and the status is PROCESSING or CANCELED. From it
follow the counters, since a batch is written over PENDING rows only. `ChatOK` is
the budget of the chats, `OverrunOK` counts a cancelled batch's sent and unanswered
messages together, and `RecallOK` carries what the recall has queued from the recall
itself to the end of the deletion: no step of a run begins a push that was
withdrawn or never queued (`NoneBegins`). A push that was begun may be retried after
its revocation was sent, so no theorem speaks of their order.

### 5.5 ReminderOutboxProofs

| Theorem | Property |
|---|---|
| `InvariantHolds` | the inductive invariant `OutboxInv` |
| `TypeCorrect` | `TypeOK` |
| `Reminded` | `RemindedOnce` |
| `UserWins` | `ChangesWin` |

For any finite set of runs and any thresholds, days and faults. The argument is a
budget again, with one more party. A run that lost the lock goes on until its next
heartbeat (`Rogue`), and the row it, an interrupted run or a dead one left loses its
lease at no further fault, so that the next run can claim it; so a reminder is charged
for the mails that left, the runs that may still send it (`Pending`) and the rogues
together: `Load(id) + Rogues` is at most `faults + 1`, and at most `faults` while the
row can be claimed again (`~Spent`). Rogues are counted in every reminder's budget
because any of them may turn to it. A mail that overtook or was overtaken needs two runs
at work, one of them a rogue, which is why a reminder that left after a later one
(`Behind`) is charged one more. From the second clause follows that it happens at most
once per fault *and reminder*. The stronger bound over all reminders of one expiry
together is false: with four thresholds one lost lock is enough for two mails out of
order, since the rogue run goes from one row to the next; TLC shows it with five days
and one fault. `ChangesWin` counts the late mails and the runs past their last check
(`Astray`), which are at most the holder of the run lock and the rogues.

### 5.6 SubscriptionMutationProofs

| Theorem | Property |
|---|---|
| `InvariantHolds` | the inductive invariant `MutationInv` |
| `TypeCorrect` | `TypeOK` |
| `Agreement` | `PanelAgrees` |
| `Granted` | `GrantedWithinLimits` |
| `DaysStand` | `PaidDaysStand` |

For any finite set of users, any executions, plans, days and faults, any of the
use cases, and without the constraints of the run: two panel users, faults and a
promocode meet all of them at once.

`PanelAgrees` speaks of quiet users only, so the invariant has to say what is true
while they are not. `Agreeing(row, panel, news)` does, of a stored row: either a
`DELETED` note with its uuid is under way, or the panel user carries its uuid and
either they say the same or an update of that uuid (`MODIFIED`, `STATUS`, `EXPIRED`)
is under way. Under way (`News`) are the webhooks that wait and those that an
execution is handling and has not committed; a failed handler is owed its webhook
again (503). A webhook dropped before the lock explained nothing: no row had its
uuid, and if one was about to be committed the user is torn from then on.

`Prepared` says of the leaseholder that has changed the panel that the row it wants
agrees with the panel, with the news that remain when its own webhook is taken away,
and `HolderOK` that it read the row that is stored. So a commit needs the lease,
which is `Locked`: the key in Redis names exactly the execution that still has its
lease. Both facts survive whatever else happens to the panel, late calls and edits
included, because the panel announces every change of a user (`Announced`), a
creation apart, and a panel user keeps its uuid until it is gone. What may not
survive a late call is the expiry a renewal has sent, which is what `late` exempts.

That every use case prepares such a row is `OutcomeFits`, one lemma per use case: a
row that is made together with a panel user says what that one says, or the panel
has announced the change, or both are left as they were (`Paired`); a trial enters no
grace; and a paid renewal adds its days to what it read. `MergedRow` is the field-wise
update of the DAO: over the row that was read it writes the row that was wanted.

`GrantedWithinLimits` rests on neither: `create_activation` counts under the
promocode's row lock, and a trial's execution is alone past `claim_trial`
(`Claims`), while the trial is still free.

## 6. Disagreements found

1. **A claim whose panel call never left the host is not released.**
   `release_unapplied_fulfillment` (`dao/transaction.py`) sets NOT_STARTED on a row
   whose status stays COMPLETED. The CHECK constraint
   `ck_transactions_fulfillment_state` (`models/transaction.py`) allows NOT_STARTED
   with PENDING, CANCELED or REFUNDED only. PostgreSQL rejects the UPDATE, the
   transaction rolls back and the claim waits for its lease to run out and for an
   operator. The comment of `ProcessPaymentDto` says that "the inbox replays the
   event later". Run `pf_deferral` violates `UnreachablePanelIsReplayed`. The
   branches of `ClaimMatches` and `RefundMatches` for a released row are therefore
   unreachable today; they are in the model, as in the code.
2. **The operator's "grant subscription" button on a FAILED payment delivers
   nothing.** `RetryFailedTransaction` requires FAILED and runs a claim that needs
   NOT_STARTED, but the constraint lets a FAILED row be MANUAL_REQUIRED only. The
   retry ends in `PaymentEventNotAppliedError`, while `buttons.ftl` (line 172) offers
   to grant the subscription and `notifications.ftl` (line 61) reports it granted.
   This one is a theorem instead of a run: `FailedIsNeverClaimed`.
3. **Evidence of a reward may be somebody else's.** `_reconcile_extra_days`
   (`rewards.py`) confirms a reward of extra days without an override when the
   panel shows its target, and a renewal of the recipient may have moved the panel
   exactly there. `REFERRAL_REWARD_RECOVERY.md` says that a later renewal "is not
   causal proof that this reward reached Remnawave". Run `rr_evidence` violates
   `ConfirmedWasApplied`.
4. **A copy left by a crashed run cannot be cancelled by an opt-out.** The claim of
   a row that is no longer eligible sets CANCELED and leaves token and lease; for a
   row a crashed run left in PROCESSING the CHECK constraint rejects that, the run
   ends with an exception, and each following run meets the row again until it
   expires. Run `bc_optout` violates `CancelingIsAllowed`.
5. **A recalled push may be shown after its revocation.** `recall` queues a
   revocation for a push on the wire and leaves the push itself alone. If the push
   service answers it 429 or 5xx, it becomes RETRY_WAITING with a backoff; the
   revocation is due at once and is delivered first, and `_claimable` offers the
   retry without asking for a recall. The push is then shown for good, since
   `revoke:<id>` is queued once. `docs/notification-channels.md` (line 62) and the
   port's docstring ("Withdraw a source: queued copies, feed items and delivered
   push") promise that it is taken down. Run `bc_recall` violates
   `RevokedStaysRevoked` without any fault.

Seen while modelling, without a run, because no line of the repository promises
otherwise or because the models do not state it:

- The promocode's reward reaches the panel before the activation is recorded; of
  two users at the last activation one is rejected and keeps the reward
  (`activate.py`). Recorded activations stay within the limit.
- A late `user.expired` starts grace without looking at the expiry again
  (`application/services/remnawave.py`), so that a subscription renewed meanwhile
  is restricted until the next write. Local and panel expiry differ by design
  while grace lasts, so agreement cannot be stated there.
- `delete_user` reports that the panel did not delete (`is_deleted` false) and no
  caller looks: the local subscription is cleared, the panel user stays, and nothing
  mends it but a synchronisation. So nothing is stated of users without a row.
- A late `user.deleted`, after the panel user was created again under the same
  uuid, unlinks a subscription whose panel user is alive.
- A status webhook, or a `user.modified` of an account without a Telegram id, that
  arrives between the panel's answer and the commit of the row it is about is
  acknowledged and dropped (`application/services/remnawave.py`,
  `synchronization.py`); the row then keeps what was sent (`torn`).
- A comment of the administrator's toggle (`management.py`) says that an expired
  subscription keeps the status ACTIVE and so is not toggled on; the synchronisation
  stores EXPIRED, which the toggle does turn on.
- A cancelled broadcast's copies: `cancel_pending` runs once, and a send task that
  read PROCESSING before queues its copies afterwards. A broadcast cancelled
  during its last batch ends COMPLETED. A failed recall is logged, the broadcast
  becomes DELETED and nothing repeats the recall. A crash between the commit of
  StartBroadcast and the dispatch leaves it in PROCESSING.
- Extra-days rewards that became MANUAL before a target was stored cannot be
  resolved through the API (`rewards.py`, the guard of the resolution).
- `models/promocode.py` still declares a unique constraint that migration 0036
  dropped.

## 7. Only model-checked, and not modelled

*Only model-checked*: the liveness properties (`EveryClaimEnds`,
`EveryEventSettles`, `EveryOperationSettles`, `EveryRewardSettles`,
`RefundsReachTheOperator`, `EveryReminderSettles`), since they rest on fairness and
ENABLED, which the prover does not handle.

*Not modelled in the modelled components*:
- payments: `LEGACY_UNKNOWN` of the cancellation reason (written by migration 0049 and
  its trigger for older code only), the alert columns, the reports sent to people, the
  validation of persisted snapshots (a nondeterministic refusal), the merge of an owner
  during an operation, the contents of plans and prices;
- rewards: `fulfillment_completed_at` is taken to follow the order of the commits (in
  the code two proofs may commit in the other order within moments), the historical
  backfill, the operator manifests of past incidents, a
  recipient whose account is gone, the attachment of a referrer;
- channels and broadcasts: retention deletes, reading the feed, rendering, the
  limit of ten devices, consent per category, editing a sent broadcast, the
  upsert race of two browsers saving one endpoint, and the loss of a broadcast's
  advisory lock under a live task (`broadcast_execution_lock.py` holds it in a session
  that may die; in `Acquire` it ends with its holder only, whereas the mail run's lock
  may be lost);
- reminders: `Generate` asks for every condition of eligibility, the code's generation
  not for the service notification setting and the date of consent, which are checked
  at the claim and before the mail here as there; retention deletes, the candidate
  limits of a run, backoff times, merged users;
- mutations: the status LIMITED and `user.limited` (no property tells it from
  DISABLED), `user.revoked`, resets of traffic, devices and links, discounts, reusable
  promocodes, availability rules, node, device and torrent events, the bulk importer,
  the three-day cut of EXPIRED.

*Not modelled at all*, and why: the merge of users needs every table in one state,
more than TLC can explore; authentication is the next candidate; pricing and
cursors are sequential and covered value by value by unit tests; the rest of 1.11
has no protocol whose steps could interleave.

*Hazards without a property* are in `PROJECT.json` with the reason. Two concern
modelled parts: a Telegram Stars payment is processed outside the inbox, so that
a crash before the claim loses it (the model lets a direct execution crash, and
no property can promise otherwise); and an UNKNOWN operation nobody asks about.

## 8. Plan

1. An abstract specification of a mutation (one atomic write of both systems per
   execution that is not torn) and the refinement to it, from `MutationInv`.
2. `RefreshTokens`: rotation by an atomic script, the token version and a password
   change.
3. The alert columns as actions of both payment modules.
4. `UserMerge`, composed with the abstract specifications of payments, operations
   and rewards.

## 9. How to run

    tlc -config PaymentFulfillment_safety.cfg MCPaymentFulfillment
    tlc -config PaymentOperation_safety.cfg MCPaymentOperation
    tlc -config ReferralReward_safety.cfg MCReferralReward
    tlc -config Broadcast_safety.cfg MCBroadcast
    tlc -config ReminderOutbox_outbox.cfg MCReminderOutbox
    tlc -config SubscriptionMutation_safety.cfg MCSubscriptionMutation
    tlapm PaymentFulfillmentProofs.tla    # and the other seven modules with theorems

`PROJECT.json` names the module and configuration of every run. Distinct states:
`po_safety` 111 541, `rr_safety` 434 109, `rr_liveness` 25 476,
`bc_safety` 133 127, `ro_outbox` 54 518, `sm_safety` 584 218, `pf_safety` 99 696. With two workers the
longest takes about three minutes.
