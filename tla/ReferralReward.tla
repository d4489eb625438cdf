--------------------------- MODULE ReferralReward ---------------------------
(***************************************************************************)
(* The referral engine: reward intents recorded while a payment is being   *)
(* fulfilled, the worker that claims and grants them (points in one        *)
(* database transaction, extra days by a call to the panel between two),   *)
(* refunds of the payment that earned them, and the operator's decisions.  *)
(*                                                                         *)
(* A worker is one iteration of RetryPendingReferralRewards: a claim       *)
(* transaction with its sweeps, then the grant of the claimed reward under *)
(* the recipient's subscription mutation lock.  A step is one committed    *)
(* transaction, or one part of a longer one whose row locks are held until *)
(* its end.  The token of a claim is represented by the worker that drew   *)
(* it: the code draws a fresh random one per iteration.                    *)
(*                                                                         *)
(* The source payments move as PaymentPromise allows, which the            *)
(* fulfillment protocol is proved to implement.                            *)
(***************************************************************************)
EXTENDS Naturals

CONSTANTS
  Rewards,      \* possible intents: one per source payment and level
  Sources,      \* the payments of one referred user
  Recipients,   \* the referrers
  Workers,      \* concurrent iterations of the reward worker
  SourceOf,     \* SourceOf[r]: the payment that earns r
  RecipientOf,  \* RecipientOf[r]: who receives it
  GroupOf,      \* GroupOf[r]: its origin referral and level
  Days,         \* the amount of an EXTRA_DAYS reward
  MaxDay,       \* bound of the wall clock, in days
  MaxExpiry,    \* bound of a purchased expiry
  MaxFaults,    \* bound on crashes, errors and overlong iterations
  None          \* SQL NULL

ASSUME RewardAssumption ==
  /\ SourceOf \in [Rewards -> Sources]
  /\ RecipientOf \in [Rewards -> Recipients]
  /\ Days \in Nat \ {0}
  /\ MaxDay \in Nat /\ MaxExpiry \in Nat /\ MaxFaults \in Nat
  /\ None \notin Nat \cup Workers \cup Rewards \cup Recipients

VARIABLES
  money, delivery, applied,  \* the source payments, as PaymentPromise sees them
  earlier,    \* earlier[s]: the sources proved before s, by fulfillment_completed_at
  assigned,   \* sources whose intents were recorded
  reward,     \* reward[r]: the referral_rewards row
  worker,     \* worker[w]: what iteration w is doing
  expiry,     \* expiry[u]: local expiry of u's paid subscription, None without one
  panel,      \* panel[u]: its expiry on the panel
  effect,     \* effect[r]: how often r was granted
  faults      \* number of faults so far

purchase == <<money, delivery, applied>>
vars == <<money, delivery, applied, earlier, assigned, reward, worker, expiry, panel,
          effect, faults>>

Promise == INSTANCE PaymentPromise WITH
  Payments <- Sources, LegacyPayments <- {}, Exempt <- {}

-----------------------------------------------------------------------------
States == {"ABSENT", "PENDING", "PROCESSING", "RETRY_WAITING", "ISSUED",
           "MANUAL_REQUIRED", "SUPERSEDED"}

\* The resolution of the row's latest incident that has one.
Rulings == [version : Nat, decision : {"NONE", "CONFIRM_ISSUED", "CANCEL"},
            drift : BOOLEAN, refunded : BOOLEAN]
NoRuling == [version |-> 0, decision |-> "NONE", drift |-> FALSE, refunded |-> FALSE]

\* `first' is accrual_strategy_snapshot = ON_FIRST_PAYMENT, `won' the claim marker
\* accrual_strategy = ON_FIRST_PAYMENT, `due' says next_attempt_at is reached.
Rows == [state   : States,
         type    : {"POINTS", "EXTRA_DAYS"},
         first   : BOOLEAN,
         won     : BOOLEAN,
         issued  : BOOLEAN,
         token   : Workers \cup {None},
         lease   : {"NULL", "LIVE", "EXPIRED"},
         due     : BOOLEAN,
         base    : Nat \cup {None},
         target  : Nat \cup {None},
         cause   : {"NULL", "REFUND", "OTHER"},
         version : Nat,
         alerted : BOOLEAN,
         ruling  : Rulings]

NoRow == [state |-> "ABSENT", type |-> "POINTS", first |-> FALSE, won |-> FALSE,
          issued |-> FALSE, token |-> None, lease |-> "NULL", due |-> FALSE, base |-> None,
          target |-> None, cause |-> "NULL", version |-> 0, alerted |-> FALSE,
          ruling |-> NoRuling]

\* The table's CHECK constraints.
RowAllowed(x) ==
  /\ (x.state = "PROCESSING") = (x.token # None)
  /\ (x.state = "PROCESSING") = (x.lease # "NULL")
  /\ x.state = "ISSUED" => x.issued
  /\ x.issued => x.state \in {"ISSUED", "MANUAL_REQUIRED"}
  /\ (x.target = None) = (x.base = None)
  /\ x.target # None => x.type = "EXTRA_DAYS"
  /\ x.won => x.first
  /\ x.state = "ISSUED" /\ x.first => x.won

Intent(type, first) ==
  [NoRow EXCEPT !.state = "PENDING", !.type = type, !.first = first, !.due = TRUE]

Steps == {"idle", "select", "lock", "update", "hold", "prepared", "call", "finish",
          "manual", "defer"}
Jobs == [pc : Steps, r : Rewards \cup {None}, u : Recipients \cup {None}]
Idle == [pc |-> "idle", r |-> None, u |-> None]

StartRewards ==
  /\ earlier = [s \in Sources |-> {}]
  /\ assigned = {}
  /\ reward = [r \in Rewards |-> NoRow]
  /\ worker = [w \in Workers |-> Idle]
  /\ expiry \in [Recipients -> {None, 0}]
  /\ panel = [u \in Recipients |-> 0]
  /\ effect = [r \in Rewards |-> 0]
  /\ faults = 0

Init == Promise!Init /\ StartRewards

-----------------------------------------------------------------------------
(* Locks.  From "call" on a grant holds the rows of its reward and source. *)

Locking(w) == worker[w].pc \in {"call", "finish"}
Locked(r) == \E w \in Workers : Locking(w) /\ worker[w].r = r
SourceLocked(s) == \E w \in Workers : Locking(w) /\ SourceOf[worker[w].r] = s

\* Under the recipient's subscription mutation lock.
Mutating(w) == worker[w].pc \in {"prepared", "call", "finish", "manual"}
MutationLocked(u) == \E w \in Workers : Mutating(w) /\ worker[w].u = u

\* The User row, which a claim takes FOR UPDATE SKIP LOCKED until it commits.
RecipientLocked(u) == \E w \in Workers : worker[w].pc = "update" /\ worker[w].u = u

-----------------------------------------------------------------------------
(* The source payments and the intents they earn.                          *)

Returned(s) == money[s] = "returned"
Proved(s) == delivery[s] = "done"

\* The fulfillment is proved only after the intents were recorded.
ProveSource(s) ==
  /\ s \in assigned
  /\ Promise!Prove(s)
  /\ earlier' = [earlier EXCEPT ![s] = {t \in Sources : Proved(t)}]
  /\ UNCHANGED <<assigned, reward, worker, expiry, panel, effect, faults>>

\* A refund is an UPDATE of the transactions row: it waits for a grant that locked it.
RefundSource(s) ==
  /\ ~SourceLocked(s)
  /\ Promise!Return(s)
  /\ UNCHANGED <<earlier, assigned, reward, worker, expiry, panel, effect, faults>>

MoveSource(s) ==
  /\ \/ Promise!Open(s) \/ Promise!Void(s) \/ Promise!Receive(s)
     \/ Promise!Apply(s) \/ Promise!HandOver(s)
  /\ UNCHANGED <<earlier, assigned, reward, worker, expiry, panel, effect, faults>>

\* AssignReferralRewards, called by the execution that delivered the purchase: its
\* snapshot of the payment may be older than a refund or a fence.  The settings give
\* all levels one type and one strategy; switched off, they give no intent.
AssignReferralRewards(s) ==
  /\ s \notin assigned
  /\ applied[s] = 1
  /\ delivery[s] \in {"doing", "review"}
  /\ assigned' = assigned \cup {s}
  /\ \/ reward' = reward
     \/ \E type \in {"POINTS", "EXTRA_DAYS"}, first \in BOOLEAN :
          reward' = [r \in Rewards |-> IF SourceOf[r] = s THEN Intent(type, first)
                                                          ELSE reward[r]]
  /\ UNCHANGED <<purchase, earlier, worker, expiry, panel, effect, faults>>

\* A purchase of the recipient's own, under the mutation lock.
PurchaseSubscription(u) ==
  LET new == IF expiry[u] = None THEN 1 ELSE expiry[u] + 1 IN
  /\ ~MutationLocked(u)
  /\ new <= MaxExpiry
  /\ expiry' = [expiry EXCEPT ![u] = new]
  /\ panel' = [panel EXCEPT ![u] = new]
  /\ UNCHANGED <<purchase, earlier, assigned, reward, worker, effect, faults>>

LeaseExpires(r) ==
  /\ reward[r].lease = "LIVE"
  /\ reward' = [reward EXCEPT ![r].lease = "EXPIRED"]
  /\ IF worker[reward[r].token].r = r
       THEN faults < MaxFaults /\ faults' = faults + 1
       ELSE faults' = faults
  /\ UNCHANGED <<purchase, earlier, assigned, worker, expiry, panel, effect>>

BackoffElapses(r) ==
  /\ reward[r].state = "RETRY_WAITING" /\ ~reward[r].due
  /\ reward' = [reward EXCEPT ![r].due = TRUE]
  /\ UNCHANGED <<purchase, earlier, assigned, worker, expiry, panel, effect, faults>>

-----------------------------------------------------------------------------
(* claim_pending_rewards: the sweeps.  Each operator is one UPDATE, as the *)
(* row it makes of row x of reward r.                                      *)

\* Every transition out of PROCESSING clears the claim.
Freed(x, state) ==
  [x EXCEPT !.state = state, !.token = None, !.lease = "NULL", !.due = FALSE]

Manual(x, cause) == [Freed(x, "MANUAL_REQUIRED") EXCEPT !.version = @ + 1, !.cause = cause,
                                                        !.alerted = FALSE]
Superseded(x) == Freed(x, "SUPERSEDED")
\* Fault: the lease stays.
RetriedWithLease(x, due) ==
  [Freed(x, "RETRY_WAITING") EXCEPT !.due = due, !.lease = x.lease]
Retried(x, due) == [Freed(x, "RETRY_WAITING") EXCEPT !.due = due]

Waiting(x) == x.state \in {"PENDING", "RETRY_WAITING"}

SweepUnproven(r, x) ==
  IF delivery[SourceOf[r]] = "review" /\ Waiting(x) THEN Manual(x, "OTHER") ELSE x

\* Fault: a claim without a target is left alone.
SweepExpiredTargets(x) ==
  IF x.state = "PROCESSING" /\ x.lease = "EXPIRED" /\ x.target # None THEN Manual(x, "OTHER")
                                                                      ELSE x
SweepExpired(x) ==
  IF x.state # "PROCESSING" \/ x.lease # "EXPIRED" THEN x
  ELSE IF x.type = "EXTRA_DAYS" /\ x.target # None THEN Manual(x, "OTHER") ELSE Retried(x, TRUE)

RuledAfterRefund(x) == x.ruling.version = x.version /\ x.ruling.refunded

Unreviewed(x) ==
  \/ x.state = "PROCESSING"
  \/ x.state = "ISSUED" /\ ~RuledAfterRefund(x)
  \/ x.state = "MANUAL_REQUIRED" /\ x.cause # "REFUND"

\* Faults: the refund of an issued reward is not noticed; a refund is reviewed again
\* after it was ruled on.
SweepRefundedUnissued(r, x) ==
  IF ~Returned(SourceOf[r]) THEN x
  ELSE IF Waiting(x) THEN Superseded(x)
  ELSE IF Unreviewed(x) /\ x.state # "ISSUED" THEN Manual(x, "REFUND") ELSE x
SweepRefundedAgain(r, x) ==
  IF ~Returned(SourceOf[r]) THEN x
  ELSE IF Waiting(x) THEN Superseded(x)
  ELSE IF Unreviewed(x) \/ x.state = "ISSUED" THEN Manual(x, "REFUND") ELSE x
SweepRefunded(r, x) ==
  IF ~Returned(SourceOf[r]) THEN x
  ELSE IF Waiting(x) THEN Superseded(x)
  ELSE IF Unreviewed(x) THEN Manual(x, "REFUND") ELSE x

EarlierSuccess(r) == earlier[SourceOf[r]] # {}
OtherWinner(r) == \E q \in Rewards \ {r} : GroupOf[q] = GroupOf[r] /\ reward[q].won

SweepNotFirst(r, x) ==
  IF x.first /\ ~x.won /\ Waiting(x) /\ (EarlierSuccess(r) \/ OtherWinner(r))
    THEN Superseded(x) ELSE x

Swept(r) ==
  SweepNotFirst(r, SweepRefunded(r, SweepExpired(SweepUnproven(r, reward[r]))))

-----------------------------------------------------------------------------
(* claim_pending_rewards: the claim.                                       *)

\* Fault: the first payment is not compared with the others.
EligibleUncompared(r) == money[SourceOf[r]] = "received" /\ Proved(SourceOf[r])
Eligible(r) ==
  /\ money[SourceOf[r]] = "received" /\ Proved(SourceOf[r])
  /\ reward[r].first => ~EarlierSuccess(r) /\ ~OtherWinner(r)

Claimable(r) == Waiting(reward[r]) /\ reward[r].due /\ Eligible(r)

\* Fault: a claim whose lease is over does not count.
InFlightLive(u) == \E r \in Rewards :
  RecipientOf[r] = u /\ reward[r].state = "PROCESSING" /\ reward[r].lease = "LIVE"
InFlight(u) == \E r \in Rewards : RecipientOf[r] = u /\ reward[r].state = "PROCESSING"

Goto(w, step) == worker' = [worker EXCEPT ![w].pc = step]
Done(w) == worker' = [worker EXCEPT ![w] = Idle]

\* A run that found nothing to claim logs every case nobody was told of, then marks it.
Alerted == [r \in Rewards |->
  IF reward[r].state = "MANUAL_REQUIRED" THEN [reward[r] EXCEPT !.alerted = TRUE]
                                         ELSE reward[r]]

\* A statement of the sweeps waits for the row of a grant in progress.
Sweep(w) ==
  /\ worker[w].pc = "idle"
  /\ \A r \in Rewards : Locked(r) => Swept(r) = reward[r]
  /\ reward' = [r \in Rewards |-> Swept(r)]
  /\ Goto(w, "select")
  /\ UNCHANGED <<purchase, earlier, assigned, expiry, panel, effect, faults>>

Due(u) == ~InFlight(u) /\ \E r \in Rewards : RecipientOf[r] = u /\ Claimable(r)

\* Chosen from the statement's snapshot, before the User row is locked.
PickRecipient(w, u) ==
  /\ worker[w].pc = "select"
  /\ Due(u)
  /\ worker' = [worker EXCEPT ![w] = [pc |-> "lock", r |-> None, u |-> u]]
  /\ UNCHANGED <<purchase, earlier, assigned, reward, expiry, panel, effect, faults>>

\* Under the User row's lock the candidates are read anew, new intents first.
LockRecipient(w, r) ==
  /\ worker[w].pc = "lock"
  /\ worker[w].u = RecipientOf[r]
  /\ ~RecipientLocked(RecipientOf[r])
  /\ ~InFlight(RecipientOf[r])
  /\ Claimable(r)
  /\ reward[r].state = "PENDING" \/
       \A q \in Rewards : RecipientOf[q] = RecipientOf[r] /\ Claimable(q)
                            => reward[q].state # "PENDING"
  /\ worker' = [worker EXCEPT ![w].pc = "update", ![w].r = r]
  /\ UNCHANGED <<purchase, earlier, assigned, reward, expiry, panel, effect, faults>>

Claimed(x, w) == [x EXCEPT !.state = "PROCESSING", !.token = w, !.lease = "LIVE",
                           !.due = FALSE, !.won = x.first]

LosesTo(q, r) ==
  /\ q # r /\ GroupOf[q] = GroupOf[r] /\ reward[r].first
  /\ reward[q].first /\ ~reward[q].won /\ Waiting(reward[q])

\* The UPDATE applies every predicate again; the winner supersedes its group.
ClaimReward(w) ==
  LET r == worker[w].r IN
  /\ worker[w].pc = "update"
  /\ IF Claimable(r) /\ ~InFlight(RecipientOf[r])
       THEN /\ reward' = [q \in Rewards |-> IF q = r THEN Claimed(reward[r], w)
                                            ELSE IF LosesTo(q, r) THEN Superseded(reward[q])
                                            ELSE reward[q]]
            /\ Goto(w, "hold")
       ELSE reward' = Alerted /\ Done(w)
  /\ UNCHANGED <<purchase, earlier, assigned, expiry, panel, effect, faults>>

\* No candidate, or another claim holds its User row (SKIP LOCKED), or it is gone.
RunEnds(w) ==
  /\ \/ worker[w].pc = "select" /\ \A u \in Recipients : ~Due(u)
     \/ worker[w].pc = "lock" /\ (RecipientLocked(worker[w].u) \/ ~Due(worker[w].u))
  /\ reward' = Alerted
  /\ Done(w)
  /\ UNCHANGED <<purchase, earlier, assigned, expiry, panel, effect, faults>>

-----------------------------------------------------------------------------
(* GiveReferrerReward, under the recipient's mutation lock.                *)

\* Fault: the reward is locked by its id alone.
OwnsById(w) == reward[worker[w].r].state # "ABSENT"
Owns(w) ==
  reward[worker[w].r].state = "PROCESSING" /\ reward[worker[w].r].token = w
Row(w) == reward[worker[w].r]
Write(w, x) == reward' = [reward EXCEPT ![worker[w].r] = x]

\* The lock is taken with the first step under it: taken earlier, it only delays others.
MayMutate(w) == worker[w].pc = "hold" /\ ~MutationLocked(worker[w].u)

\* The lock was not granted in time, or the grant failed before any effect.
GrantFails(w) ==
  /\ faults < MaxFaults
  /\ worker[w].pc = "hold"
  /\ faults' = faults + 1
  /\ Goto(w, "defer")
  /\ UNCHANGED <<purchase, earlier, assigned, reward, expiry, panel, effect>>

\* defer_reward: only a claim without a stored target.
Defer(w) ==
  /\ worker[w].pc = "defer"
  /\ reward' = IF Owns(w) /\ Row(w).target = None
                 THEN [reward EXCEPT ![worker[w].r] = Retried(@, FALSE)] ELSE reward
  /\ Done(w)
  /\ UNCHANGED <<purchase, earlier, assigned, expiry, panel, effect, faults>>

\* Fault: the source may have been refunded.
SourceProved(s) == Proved(s)
SourceEligible(s) == money[s] = "received" /\ Proved(s)

\* lock_reward_source_if_eligible or cancel_claimed_reward: the row of the source is
\* locked until the transaction ends.
MayLock(w) == ~SourceLocked(SourceOf[worker[w].r])
CancelClaimed(w) ==
  /\ reward' = IF Owns(w) THEN [reward EXCEPT ![worker[w].r] = Superseded(@)] ELSE reward
  /\ Done(w)

Issued(x) == [Freed(x, "ISSUED") EXCEPT !.issued = TRUE]

\* Points: lock, issue and credit in one transaction.
IssuePoints(w) ==
  LET r == worker[w].r IN
  /\ MayMutate(w) /\ Row(w).type = "POINTS"
  /\ MayLock(w)
  /\ IF Owns(w) /\ SourceEligible(SourceOf[r])
       THEN /\ Write(w, Issued(Row(w)))
            /\ effect' = [effect EXCEPT ![r] = @ + 1]
            /\ Done(w)
       ELSE CancelClaimed(w) /\ effect' = effect
  /\ UNCHANGED <<purchase, earlier, assigned, expiry, panel, faults>>

Later(a, b) == IF a < b THEN b ELSE a

Aimed(x, base, today) ==
  [x EXCEPT !.base = base, !.target = Later(base, today) + Days]

\* Extra days: the absolute target is stored before the panel is called.
PrepareTarget(w) ==
  LET r == worker[w].r  base == expiry[worker[w].u] IN
  /\ MayMutate(w) /\ Row(w).type = "EXTRA_DAYS"
  /\ IF base = None
       THEN reward' = reward /\ Goto(w, "defer")
       ELSE IF Owns(w) /\ Row(w).target = None
              THEN /\ \E today \in 0 .. MaxDay :
                        Write(w, Aimed(Row(w), base, today))
                   /\ Goto(w, "prepared")
              ELSE reward' = reward /\ Done(w)
  /\ UNCHANGED <<purchase, earlier, assigned, expiry, panel, effect, faults>>

\* Fault: the panel's own expiry is not compared.
LocalAtBase(u, x) == expiry[u] = x.base
AtBase(u, x) == expiry[u] = x.base /\ panel[u] = x.base

\* The second transaction: lock, then compare the subscription here and on the panel.
\* Nothing can change either between the two, so they are one step.
LockSource(w) ==
  /\ worker[w].pc = "prepared"
  /\ MayLock(w)
  /\ IF Owns(w) /\ SourceEligible(SourceOf[worker[w].r])
       THEN IF AtBase(worker[w].u, Row(w))
              THEN reward' = reward /\ Goto(w, "call")
              ELSE Write(w, Manual(Row(w), "OTHER")) /\ Done(w)
       ELSE CancelClaimed(w)
  /\ UNCHANGED <<purchase, earlier, assigned, expiry, panel, effect, faults>>

\* The panel may apply the target and the answer may still be lost.  An exception
\* rolls the transaction back, which releases its row locks.
CallPanel(w) ==
  /\ worker[w].pc = "call"
  /\ \/ /\ panel' = [panel EXCEPT ![worker[w].u] = Row(w).target]
        /\ effect' = [effect EXCEPT ![worker[w].r] = @ + 1]
        /\ Goto(w, "finish") \/ Goto(w, "manual")
     \/ UNCHANGED <<panel, effect>> /\ Goto(w, "manual")
  /\ UNCHANGED <<purchase, earlier, assigned, reward, expiry, faults>>

\* finish_extra_days_reward commits the local expiry with the reward.
FinishExtraDays(w) ==
  /\ worker[w].pc = "finish"
  /\ \/ /\ Owns(w)
        /\ Write(w, Issued(Row(w)))
        /\ expiry' = [expiry EXCEPT ![worker[w].u] = Row(w).target]
        /\ Done(w)
     \/ UNCHANGED <<reward, expiry>> /\ Goto(w, "manual")
  /\ UNCHANGED <<purchase, earlier, assigned, panel, effect, faults>>

Ambiguous(x) == Manual(x, "OTHER")

MarkManual(w) ==
  /\ worker[w].pc = "manual"
  /\ IF Owns(w) THEN Write(w, Ambiguous(Row(w))) ELSE reward' = reward
  /\ Done(w)
  /\ UNCHANGED <<purchase, earlier, assigned, expiry, panel, effect, faults>>

Crash(w) ==
  /\ faults < MaxFaults
  /\ worker[w].pc # "idle"
  /\ faults' = faults + 1
  /\ Done(w)
  /\ UNCHANGED <<purchase, earlier, assigned, reward, expiry, panel, effect>>

-----------------------------------------------------------------------------
(* ResolveManualReferralReward.                                            *)

\* _reconcile_extra_days: the panel shows what the decision claims.
Evidence(r, confirm) ==
  /\ expiry[RecipientOf[r]] # None
  /\ panel[RecipientOf[r]] = IF confirm THEN reward[r].target ELSE reward[r].base

MayConfirm(x) == x.first => x.won

Resolve(r, confirm, drift) ==
  LET u == RecipientOf[r]  x == reward[r]  refunded == Returned(SourceOf[r]) IN
  /\ x.state = "MANUAL_REQUIRED"
  /\ ~MutationLocked(u) /\ ~Locked(r) /\ ~SourceLocked(SourceOf[r])
  /\ confirm => MayConfirm(x) /\ (refunded => drift)
  /\ x.type = "EXTRA_DAYS" => x.target # None /\ (Evidence(r, confirm) \/ drift)
  /\ expiry' = IF x.type = "EXTRA_DAYS" /\ expiry[u] # None
                 THEN [expiry EXCEPT ![u] = panel[u]] ELSE expiry
  /\ reward' = [reward EXCEPT ![r] =
       [@ EXCEPT !.state = IF confirm THEN "ISSUED" ELSE "SUPERSEDED", !.issued = confirm,
                 !.ruling = [version |-> x.version, drift |-> drift, refunded |-> refunded,
                             decision |-> IF confirm THEN "CONFIRM_ISSUED" ELSE "CANCEL"]]]
  /\ UNCHANGED <<purchase, earlier, assigned, worker, panel, effect, faults>>

-----------------------------------------------------------------------------
WorkerStep(w) ==
  \/ RunEnds(w) \/ ClaimReward(w) \/ Defer(w) \/ IssuePoints(w) \/ PrepareTarget(w)
  \/ LockSource(w) \/ CallPanel(w) \/ FinishExtraDays(w) \/ MarkManual(w)

Next ==
  \/ \E s \in Sources :
       ProveSource(s) \/ RefundSource(s) \/ MoveSource(s) \/ AssignReferralRewards(s)
  \/ \E u \in Recipients : PurchaseSubscription(u)
  \/ \E r \in Rewards :
       \/ LeaseExpires(r) \/ BackoffElapses(r)
       \/ \E confirm, drift \in BOOLEAN : Resolve(r, confirm, drift)
  \/ \E w \in Workers :
       \/ WorkerStep(w) \/ Sweep(w) \/ GrantFails(w) \/ Crash(w)
       \/ \E u \in Recipients : PickRecipient(w, u)
       \/ \E r \in Rewards : LockRecipient(w, r)

Spec == Init /\ [][Next]_vars

(* The task runs every minute and claims until nothing is due; recipients  *)
(* and rewards are taken in a fixed order and a deferred one waits at      *)
(* least a minute, so none that stays due is passed over for ever.         *)
Fairness ==
  /\ \A w \in Workers : WF_vars(WorkerStep(w)) /\ WF_vars(Sweep(w))
  /\ \A u \in Recipients : SF_vars(\E w \in Workers : PickRecipient(w, u))
  /\ \A r \in Rewards :
       /\ SF_vars(\E w \in Workers : LockRecipient(w, r))
       /\ WF_vars(LeaseExpires(r)) /\ WF_vars(BackoffElapses(r))

FairSpec == Spec /\ Fairness

-----------------------------------------------------------------------------
(* Properties.                                                             *)

(* Every variable keeps the shape of its table or process record, and no   *)
(* statement writes a row that the table's CHECK constraints reject.       *)
TypeOK ==
  /\ earlier \in [Sources -> SUBSET Sources]
  /\ assigned \subseteq Sources
  /\ reward \in [Rewards -> Rows]
  /\ \A r \in Rewards : RowAllowed(reward[r])
  /\ worker \in [Workers -> Jobs]
  /\ expiry \in [Recipients -> Nat \cup {None}]
  /\ panel \in [Recipients -> Nat]
  /\ effect \in [Rewards -> Nat]
  /\ faults \in 0 .. MaxFaults

(* Whatever crashes, leases and lost answers, points are credited at most  *)
(* once and days are added on the panel at most once for one reward.       *)
GrantedAtMostOnce == \A r \in Rewards : effect[r] <= 1

(* The unique indexes are never what stops a claim: the locked recheck     *)
(* keeps one reward of a recipient in flight, and the winner's marker is   *)
(* set for one reward of an origin and level.                              *)
OneInFlight == \A q, r \in Rewards : q # r =>
  /\ RecipientOf[q] = RecipientOf[r]
       => ~(reward[q].state = "PROCESSING" /\ reward[r].state = "PROCESSING")
  /\ GroupOf[q] = GroupOf[r] => ~(reward[q].won /\ reward[r].won)

(* An ON_FIRST_PAYMENT reward is granted for the payment that was proved   *)
(* first, and for no second one of its origin and level.                   *)
FirstPaymentOnly == \A r \in Rewards :
  reward[r].first /\ effect[r] > 0 =>
    /\ earlier[SourceOf[r]] = {}
    /\ \A q \in Rewards \ {r} :
         GroupOf[q] = GroupOf[r] /\ reward[q].first => effect[q] = 0 /\ ~reward[q].issued

(* A refund is reviewed and closed once: a reward becomes an incident at   *)
(* most twice, for an ambiguity and for the refund of its source.          *)
IncidentsEnd == \A r \in Rewards : reward[r].version <= 2

(* A grant of extra days never shortens what the recipient already has on  *)
(* the panel: the target is absolute, but it adds its days to it.          *)
GrantExtends ==
  [][\A r \in Rewards :
       effect'[r] > effect[r] /\ reward[r].type = "EXTRA_DAYS" =>
         panel'[RecipientOf[r]] >= panel[RecipientOf[r]] + Days]_vars

\* A reward as RewardOnce sees it.
Stage(x) ==
  CASE x.state = "ABSENT" -> "none"
    [] x.state \in {"PENDING", "PROCESSING", "RETRY_WAITING"} -> "owed"
    [] x.state = "ISSUED" -> "granted"
    [] x.state = "SUPERSEDED" -> "closed"
    [] x.state = "MANUAL_REQUIRED" -> "review"

Once == INSTANCE RewardOnce WITH stage <- [r \in Rewards |-> Stage(reward[r])]

(* The engine keeps the promise of RewardOnce: a reward is granted once at *)
(* most, while owed and not refunded, and what it records without a person *)
(* is true: ISSUED was granted, SUPERSEDED was not, nothing granted or     *)
(* closed is ever owed again.                                              *)
ImplementsRewardOnce == Once!Spec

Settleable(r) ==
  /\ delivery[SourceOf[r]] \in {"done", "review"}
  /\ reward[r].type = "POINTS" \/ expiry[RecipientOf[r]] # None

(* A reward whose payment is settled and whose recipient can receive it is *)
(* granted, superseded or handed to the operator.                          *)
EveryRewardSettles == \A r \in Rewards :
  reward[r].state \in {"PENDING", "RETRY_WAITING", "PROCESSING"} /\ Settleable(r)
    ~> reward[r].state \in {"ISSUED", "SUPERSEDED", "MANUAL_REQUIRED"}

(* The refund of a payment whose reward stands issued reaches the operator *)
(* as an alert, unless the operator has already ruled on that refund.      *)
RefundsReachTheOperator == \A r \in Rewards :
  Returned(SourceOf[r]) /\ reward[r].issued
    ~> \/ reward[r].state = "MANUAL_REQUIRED" /\ reward[r].alerted
       \/ reward[r].ruling.refunded

(* REFERRAL_REWARD_RECOVERY.md: "both confirmation and cancellation        *)
(* require the current panel expiry to match the relevant durable target   *)
(* exactly unless an explicit audited drift override is supplied", for     *)
(* what is not "causal proof that this reward reached Remnawave": a reward *)
(* confirmed without the override was applied.                             *)
ConfirmedWasApplied == \A r \in Rewards :
  /\ reward[r].type = "EXTRA_DAYS" /\ reward[r].ruling.decision = "CONFIRM_ISSUED"
  /\ ~reward[r].ruling.drift
  => effect[r] > 0
=============================================================================
