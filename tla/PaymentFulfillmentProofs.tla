---------------------- MODULE PaymentFulfillmentProofs ----------------------
(***************************************************************************)
(* Proofs about PaymentFulfillment, for any number of payments, workers,   *)
(* callbacks, attempts and faults.                                         *)
(***************************************************************************)
EXTENDS PaymentFulfillment, TLAPS

LEMMA ConstantFacts ==
  /\ EventKinds \subseteq {"COMPLETED", "CANCELED", "REFUNDED"}
  /\ "COMPLETED" \in EventKinds
  /\ \A k \in EventKinds : k # None
  /\ \A w \in Workers : w # None
  /\ \A p \in Payments : p # None
  /\ PanelMaxAttempts \in Nat \ {0}
  /\ MaxFaults \in Nat
  /\ 0 \in 0 .. PanelMaxAttempts
BY ConstantsAssumption

(***************************************************************************)
(* Type correctness.                                                       *)
(***************************************************************************)
(* A worker's move to another step keeps its record well typed.            *)
LEMMA GotoType ==
  ASSUME TypeOK, NEW w \in Workers, NEW s \in Steps, Goto(w, s)
  PROVE  worker' \in [Workers -> Jobs]
BY DEF TypeOK, Goto, Jobs

LEMMA SettleType ==
  ASSUME TypeOK, NEW w \in Workers, Settle(w)
  PROVE  worker' \in [Workers -> Jobs]
<1>1. "ok" \in Steps /\ "rejected" \in Steps
  BY DEF Steps, Outcomes
<1> QED BY <1>1, GotoType DEF Settle

LEMMA NotifyType ==
  ASSUME TypeOK, NEW w \in Workers, Notify(w)
  PROVE  worker' \in [Workers -> Jobs]
<1>1. "failed" \in Steps
  BY DEF Steps, Outcomes
<1> QED BY <1>1, GotoType, SettleType DEF Notify

(* The rows written by the guarded UPDATEs are rows of the table.          *)
LEMMA RowWritesType ==
  ASSUME NEW r \in Rows, NEW w \in Workers
  PROVE  /\ Claimed(r, w) \in Rows
         /\ Canceled(r, "PROVIDER") \in Rows
         /\ Canceled(r, "LOCAL_TIMEOUT") \in Rows
         /\ Refunded(r) \in Rows
         /\ RefundFenced(r) \in Rows
         /\ Succeeded(r) \in Rows
         /\ Released(r) \in Rows
         /\ Fenced(r) \in Rows
BY DEF Rows, Claimed, Canceled, Refunded, RefundFenced, Succeeded, Released, Fenced,
       Statuses, Fulfillments, Tokens

(* The values Init and the inbox writes are built from.                    *)
LEMMA InitialValuesType ==
  /\ NewRow \in Rows
  /\ LegacyRow \in Rows
  /\ NoEvent \in Events
  /\ Idle \in Jobs
  /\ NoEffect \in Effects
<1>1. NewRow \in Rows /\ LegacyRow \in Rows
  BY DEF NewRow, LegacyRow, Rows, Statuses, Fulfillments, Tokens
<1>2. NoEvent \in Events /\ Idle \in Jobs
  BY ConstantFacts DEF NoEvent, Events, Tokens, Idle, Jobs, Steps
<1>3. NoEffect \in Effects
  BY DEF Effects, NoEffect, Effect
<1> QED BY <1>1, <1>2, <1>3

THEOREM InitTypeOK == Init => TypeOK
<1> SUFFICES ASSUME Init PROVE TypeOK
  OBVIOUS
<1>1. tx \in [Payments -> Rows]
  BY InitialValuesType DEF Init
<1>2. inbox \in [Payments -> [EventKinds -> Events]]
  BY InitialValuesType DEF Init
<1>3. worker \in [Workers -> Jobs]
  BY InitialValuesType DEF Init
<1>4. effect \in [Payments -> Effects]
  BY InitialValuesType DEF Init
<1>5. acked \subseteq Payments \X EventKinds /\ faults \in 0 .. MaxFaults
  BY ConstantFacts DEF Init
<1>6. \A p \in Payments, k \in EventKinds : EventShape(inbox[p][k])
  BY DEF Init, EventShape, NoEvent
<1> QED BY <1>1, <1>2, <1>3, <1>4, <1>5, <1>6 DEF TypeOK

LEMMA InboxReadType ==
  ASSUME TypeOK, NEW p \in Payments, NEW k \in EventKinds
  PROVE  inbox[p][k] \in Events /\ EventShape(inbox[p][k])
BY DEF TypeOK

(* Recording an effect leaves the effects well typed.                      *)
LEMMA EffectWriteType ==
  ASSUME TypeOK, NEW p
  PROVE  /\ [effect EXCEPT ![p].panel = @ + 1] \in [Payments -> Effects]
         /\ [effect EXCEPT ![p].local = @ + 1] \in [Payments -> Effects]
         /\ [effect EXCEPT ![p].reward = @ + FullEffect(p).reward] \in [Payments -> Effects]
<1>1. FullEffect(p).reward \in Nat
  BY DEF FullEffect, Effect
<1>2. CASE p \in Payments
  <2>1. PICK a \in Nat, b \in Nat, c \in Nat : effect[p] = [panel |-> a, local |-> b, reward |-> c]
    BY <1>2 DEF TypeOK, Effects
  <2>2. [effect EXCEPT ![p].panel = @ + 1] \in [Payments -> Effects]
    BY <1>2, <2>1 DEF TypeOK, Effects
  <2>3. [effect EXCEPT ![p].local = @ + 1] \in [Payments -> Effects]
    BY <1>2, <2>1 DEF TypeOK, Effects
  <2>4. [effect EXCEPT ![p].reward = @ + FullEffect(p).reward] \in [Payments -> Effects]
    BY <1>1, <1>2, <2>1 DEF TypeOK, Effects
  <2> QED BY <2>2, <2>3, <2>4
<1>3. CASE p \notin Payments
  BY <1>3 DEF TypeOK
<1> QED BY <1>2, <1>3

(* What TypeOK asks of an inbox.                                           *)
InboxOK(i) ==
  /\ i \in [Payments -> [EventKinds -> Events]]
  /\ \A p \in Payments, k \in EventKinds : EventShape(i[p][k])

(* Writing one event leaves the inbox well typed.                          *)
LEMMA InboxWriteType ==
  ASSUME TypeOK, NEW p \in Payments, NEW k \in EventKinds, NEW e \in Events, EventShape(e)
  PROVE  InboxOK([inbox EXCEPT ![p][k] = e])
<1> DEFINE i == [inbox EXCEPT ![p][k] = e]
<1>1. [inbox[p] EXCEPT ![k] = e] \in [EventKinds -> Events]
  BY DEF TypeOK
<1>2. i \in [Payments -> [EventKinds -> Events]]
  BY <1>1 DEF TypeOK
<1>3. \A q \in Payments, j \in EventKinds : i[q][j] = IF q = p /\ j = k THEN e ELSE inbox[q][j]
  BY DEF TypeOK
<1>4. \A q \in Payments, j \in EventKinds : EventShape(inbox[q][j])
  BY DEF TypeOK
<1>5. \A q \in Payments, j \in EventKinds : EventShape(i[q][j])
  <2> SUFFICES ASSUME NEW q \in Payments, NEW j \in EventKinds PROVE EventShape(i[q][j])
    OBVIOUS
  <2>1. CASE q = p /\ j = k
    <3>1. i[q][j] = e
      BY <1>3, <2>1
    <3> HIDE DEF i
    <3> QED BY <3>1
  <2>2. CASE ~(q = p /\ j = k)
    <3>1. i[q][j] = inbox[q][j]
      BY <1>3, <2>2
    <3> HIDE DEF i
    <3> QED BY <1>4, <3>1
  <2> QED BY <2>1, <2>2
<1> QED BY <1>2, <1>5 DEF InboxOK

(* The events the provider, the clock and a finishing worker write.        *)
LEMMA EventWritesType ==
  ASSUME NEW e \in Events, EventShape(e)
  PROVE  /\ Store(e) \in Events /\ EventShape(Store(e))
         /\ LET parked == [ManualEvent EXCEPT !.attempt = e.attempt]
            IN  parked \in Events /\ EventShape(parked)
         /\ LET over == [e EXCEPT !.live = FALSE]
            IN  over \in Events /\ EventShape(over)
         /\ LET ready == [e EXCEPT !.due = TRUE]
            IN  ready \in Events /\ (e.st = "waiting" => EventShape(ready))
         /\ \A w \in Workers :
              FinishedEvent(e, w) \in Events /\ (e.token = w => EventShape(FinishedEvent(e, w)))
<1>1. Store(e) \in Events
  BY InitialValuesType DEF Store, StoredEvent, NoEvent, Events
<1>2. [ManualEvent EXCEPT !.attempt = e.attempt] \in Events
  BY InitialValuesType DEF ManualEvent, NoEvent, Events
<1>3. [e EXCEPT !.live = FALSE] \in Events /\ [e EXCEPT !.due = TRUE] \in Events
  BY DEF Events
<1>4. \A w \in Workers : FinishedEvent(e, w) \in Events
  BY InitialValuesType DEF FinishedEvent, Parks, Events, Tokens
<1>5. EventShape(Store(e))
  BY DEF EventShape, Store, StoredEvent, NoEvent
<1>6. EventShape([ManualEvent EXCEPT !.attempt = e.attempt])
  BY DEF EventShape, ManualEvent, NoEvent
<1>7. EventShape([e EXCEPT !.live = FALSE])
  BY DEF EventShape, Events, NoEvent
<1>8. e.st = "waiting" => EventShape([e EXCEPT !.due = TRUE])
  BY DEF EventShape, Events
<1>9. ASSUME NEW w \in Workers, e.token = w PROVE EventShape(FinishedEvent(e, w))
  <2>1. e.st = "waiting"
    BY <1>9, ConstantFacts DEF EventShape
  <2>2. EventShape(NoEvent)
    BY DEF EventShape, NoEvent
  <2>3. FinishedEvent(e, w) = NoEvent
          \/ FinishedEvent(e, w) = [e EXCEPT !.token = None, !.live = FALSE, !.due = Parks(w),
                                             !.st = IF Parks(w) THEN "manual" ELSE @]
    BY <2>1 DEF FinishedEvent
  <2>4. Parks(w) \in BOOLEAN
    BY DEF Parks
  <2>5. EventShape([e EXCEPT !.token = None, !.live = FALSE, !.due = Parks(w),
                             !.st = IF Parks(w) THEN "manual" ELSE @])
    BY <2>1, <2>4 DEF EventShape, Events
  <2> QED BY <2>2, <2>3, <2>5
<1> QED BY <1>1, <1>2, <1>3, <1>4, <1>5, <1>6, <1>7, <1>8, <1>9

(* Every action keeps the types.                                           *)
LEMMA NextTypeOK == TypeOK /\ Next => TypeOK'
<1> SUFFICES ASSUME TypeOK, Next PROVE TypeOK'
  OBVIOUS
<1> USE ConstantFacts
<1>1. ASSUME NEW p \in Payments,
             CreateTransaction(p) \/ CancelOld(p) \/ RecoverCanceled(p)
               \/ LeaseExpires(p) \/ ExpireFulfillments(p)
      PROVE  TypeOK'
  <2>1. tx[p] \in Rows
    BY DEF TypeOK
  <2>2. [tx[p] EXCEPT !.status = "PENDING"] \in Rows /\ [tx[p] EXCEPT !.lease = "EXPIRED"] \in Rows
    BY <2>1 DEF Rows, Statuses
  <2>3. /\ Canceled(tx[p], "LOCAL_TIMEOUT") \in Rows /\ Canceled(tx[p], "PROVIDER") \in Rows
        /\ Fenced(tx[p]) \in Rows
    BY <2>1 DEF Rows, Canceled, Fenced, Statuses, Fulfillments
  <2> QED BY <1>1, <2>2, <2>3
          DEF TypeOK, CreateTransaction, CancelOld, RecoverCanceled, LeaseExpires, ExpireFulfillments
<1>2. ASSUME NEW p \in Payments, NEW k \in EventKinds,
             DeliverWebhook(p, k) \/ DeliverConflicting(p, k) \/ EventLeaseExpires(p, k)
               \/ BackoffElapses(p, k) \/ ExpireOrphan(p, k)
      PROVE  TypeOK'
  <2> DEFINE e == inbox[p][k]
  <2>1. e \in Events /\ EventShape(e)
    BY DEF TypeOK
  <2>2. /\ Store(e) \in Events /\ EventShape(Store(e))
        /\ [ManualEvent EXCEPT !.attempt = e.attempt] \in Events
        /\ EventShape([ManualEvent EXCEPT !.attempt = e.attempt])
        /\ [e EXCEPT !.live = FALSE] \in Events /\ EventShape([e EXCEPT !.live = FALSE])
        /\ [e EXCEPT !.due = TRUE] \in Events
        /\ e.st = "waiting" => EventShape([e EXCEPT !.due = TRUE])
    BY <2>1, EventWritesType
  <2>3. CASE DeliverWebhook(p, k)
    <3>1. inbox' = [inbox EXCEPT ![p][k] = Store(e)]
      BY <2>3 DEF DeliverWebhook
    <3>3. InboxOK(inbox')
      BY <2>2, <3>1, InboxWriteType
    <3> QED BY <2>3, <3>3 DEF TypeOK, InboxOK, DeliverWebhook
  <2>4. CASE DeliverConflicting(p, k)
    <3>1. inbox' = [inbox EXCEPT ![p][k] = [ManualEvent EXCEPT !.attempt = e.attempt]]
      BY <2>4 DEF DeliverConflicting
    <3>3. InboxOK(inbox')
      BY <2>2, <3>1, InboxWriteType
    <3>4. /\ acked' = acked \cup {<<p, k>>}
          /\ UNCHANGED <<tx, worker, effect, faults>>
      BY <2>4 DEF DeliverConflicting
    <3>5. acked' \subseteq Payments \X EventKinds
      BY <3>4 DEF TypeOK
    <3> HIDE DEF e
    <3> QED BY <3>3, <3>4, <3>5 DEF TypeOK, InboxOK
  <2>5. CASE EventLeaseExpires(p, k)
    <3>1. inbox' = [inbox EXCEPT ![p][k] = [e EXCEPT !.live = FALSE]]
      BY <2>5 DEF EventLeaseExpires
    <3>2. faults' \in 0 .. MaxFaults
      BY <2>5 DEF TypeOK, EventLeaseExpires
    <3>3. InboxOK(inbox')
      BY <2>2, <3>1, InboxWriteType
    <3> QED BY <2>5, <3>2, <3>3 DEF TypeOK, InboxOK, EventLeaseExpires
  <2>6. CASE BackoffElapses(p, k)
    <3>1. inbox' = [inbox EXCEPT ![p][k] = [e EXCEPT !.due = TRUE]]
      BY <2>6 DEF BackoffElapses
    <3>2. e.st = "waiting"
      BY <2>6 DEF BackoffElapses
    <3>3. InboxOK(inbox')
      BY <2>2, <3>1, <3>2, InboxWriteType
    <3> QED BY <2>6, <3>3 DEF TypeOK, InboxOK, BackoffElapses
  <2>7. CASE ExpireOrphan(p, k)
    <3>1. inbox' = [inbox EXCEPT ![p][k] = [ManualEvent EXCEPT !.attempt = e.attempt]]
      BY <2>7 DEF ExpireOrphan
    <3>3. InboxOK(inbox')
      BY <2>2, <3>1, InboxWriteType
    <3> QED BY <2>7, <3>3 DEF TypeOK, InboxOK, ExpireOrphan
  <2> QED BY <1>2, <2>3, <2>4, <2>5, <2>6, <2>7
<1>3. ASSUME NEW w \in Workers, NEW p \in Payments, NEW k \in EventKinds,
             StartTask(w, p, k) \/ StartReplay(w, p, k)
      PROVE  TypeOK'
  <2> DEFINE e == inbox[p][k]
  <2>0. ClaimEvent(w, p, k)
    BY <1>3 DEF StartTask, StartReplay
  <2> DEFINE claimed == [e EXCEPT !.token = w, !.live = TRUE, !.attempt = NextAttempt(e)]
  <2>1. e \in Events /\ EventShape(e)
    BY DEF TypeOK
  <2>2. NextAttempt(e) \in 0 .. PanelMaxAttempts /\ NextAttempt(e) > 0
    BY <2>1 DEF NextAttempt, Events
  <2>3. claimed \in Events
    BY <2>1, <2>2 DEF Events, Tokens
  <2>5. EventShape(claimed)
    <3>1. e.st = "waiting"
      BY <2>0 DEF ClaimEvent, EventClaimable
    <3> QED BY <2>1, <2>2, <3>1 DEF EventShape, Events
  <2>6. inbox' = [inbox EXCEPT ![p][k] = claimed]
    BY <2>0 DEF ClaimEvent
  <2>7. InboxOK(inbox')
    <3> HIDE DEF claimed
    <3> QED BY <2>3, <2>5, <2>6, InboxWriteType
  <2>4. [pc |-> "apply", p |-> p, k |-> k, inboxed |-> TRUE, attempt |-> NextAttempt(e)] \in Jobs
    BY <2>2 DEF Jobs, Steps
  <2> QED BY <2>0, <2>4, <2>7 DEF TypeOK, InboxOK, ClaimEvent
<1>4. ASSUME NEW w \in Workers, NEW p \in Payments, NEW k \in EventKinds,
             StartOutsideInbox(w, p, k)
      PROVE  TypeOK'
  <2>1. [pc |-> "apply", p |-> p, k |-> k, inboxed |-> FALSE, attempt |-> 0] \in Jobs
    BY DEF Jobs, Steps
  <2> QED BY <1>4, <2>1 DEF TypeOK, StartOutsideInbox
<1>5. ASSUME NEW w \in Workers, WorkerStep(w)
      PROVE  TypeOK'
  <2> DEFINE p == worker[w].p  r == tx[p]  k == worker[w].k  e == inbox[p][k]
  <2>1. Steps = {"idle", "apply", "refundFence", "reread", "expire", "deliver", "persist", "reward",
                 "complete", "recheck", "fence", "release", "ok", "rejected", "deferred",
                 "failed", "unfenced"}
    BY DEF Steps, OwnerSteps, Outcomes
  <2>2. p \in Payments => r \in Rows
    BY DEF TypeOK
  <2>3. p \in Payments => /\ Claimed(r, w) \in Rows /\ Canceled(r, "PROVIDER") \in Rows
                          /\ Refunded(r) \in Rows /\ RefundFenced(r) \in Rows
                          /\ Succeeded(r) \in Rows /\ Released(r) \in Rows /\ Fenced(r) \in Rows
    BY <2>2, RowWritesType
  <2>4. CASE \/ ApplyCompleted(w) \/ ApplyCanceled(w) \/ ApplyRefunded(w) \/ FenceRefund(w)
             \/ ExpireFulfillment(w) \/ CompleteFulfillment(w) \/ RecheckFulfillment(w)
             \/ FenceFailure(w) \/ ReleaseUnapplied(w)
    <3>1. tx' \in [Payments -> Rows]
      BY <2>3, <2>4 DEF TypeOK, ApplyCompleted, ApplyCanceled, ApplyRefunded, FenceRefund,
         ExpireFulfillment, CompleteFulfillment, RecheckFulfillment, FenceFailure, ReleaseUnapplied
    <3>2. worker' \in [Workers -> Jobs]
      BY <2>1, <2>4, GotoType, SettleType, NotifyType
         DEF ApplyCompleted, ApplyCanceled, ApplyRefunded, FenceRefund,
         ExpireFulfillment, CompleteFulfillment, RecheckFulfillment, FenceFailure, ReleaseUnapplied
    <3> QED BY <2>4, <3>1, <3>2 DEF TypeOK, ApplyCompleted, ApplyCanceled, ApplyRefunded,
            FenceRefund, ExpireFulfillment, CompleteFulfillment, RecheckFulfillment, FenceFailure,
            ReleaseUnapplied
  <2>5. CASE StoreEarly(w)
    <3>1. p \in Payments /\ k \in EventKinds => e \in Events /\ EventShape(e)
      BY InboxReadType
    <3>2. inbox' = [inbox EXCEPT ![p][k] = Store(e)]
      BY <2>5 DEF StoreEarly
    <3>3. InboxOK(inbox')
      <4>1. CASE p \in Payments /\ k \in EventKinds
        BY <3>1, <3>2, <4>1, EventWritesType, InboxWriteType
      <4>2. CASE p \in Payments /\ k \notin EventKinds
        BY <3>2, <4>2 DEF TypeOK, InboxOK
      <4>3. CASE p \notin Payments
        BY <3>2, <4>3 DEF TypeOK, InboxOK
      <4> QED BY <4>1, <4>2, <4>3
    <3>4. worker' \in [Workers -> Jobs]
      BY <2>1, <2>5, GotoType DEF StoreEarly
    <3> QED BY <2>5, <3>3, <3>4 DEF TypeOK, InboxOK, StoreEarly
  <2>6. CASE RejectInvalid(w) \/ DatabaseError(w) \/ Reread(w) \/ DeliverTest(w)
               \/ DeliverRefused(w) \/ PanelUnreachable(w)
    <3>1. worker' \in [Workers -> Jobs]
      BY <2>1, <2>6, GotoType, SettleType, NotifyType DEF RejectInvalid, DatabaseError, Reread,
         RereadCompleted, RereadCanceled, RereadRefunded, DeliverTest, DeliverRefused,
         PanelUnreachable
    <3> QED BY <2>6, <3>1 DEF TypeOK, RejectInvalid, DatabaseError, Reread, DeliverTest,
            DeliverRefused, PanelUnreachable
  <2>7. CASE DeliverOnPanel(w) \/ PersistSubscription(w) \/ AssignReferralRewards(w)
    <3>1. worker' \in [Workers -> Jobs]
      BY <2>1, <2>7, GotoType DEF DeliverOnPanel, PersistSubscription, AssignReferralRewards
    <3>2. effect' \in [Payments -> Effects]
      <4>1. \/ effect' = effect
            \/ effect' = [effect EXCEPT ![p].panel = @ + 1]
            \/ effect' = [effect EXCEPT ![p].local = @ + 1]
            \/ effect' = [effect EXCEPT ![p].reward = @ + FullEffect(p).reward]
        BY <2>7 DEF DeliverOnPanel, PersistSubscription, AssignReferralRewards
      <4>2. /\ [effect EXCEPT ![p].panel = @ + 1] \in [Payments -> Effects]
            /\ [effect EXCEPT ![p].local = @ + 1] \in [Payments -> Effects]
            /\ [effect EXCEPT ![p].reward = @ + FullEffect(p).reward] \in [Payments -> Effects]
        BY EffectWriteType
      <4>3. effect \in [Payments -> Effects]
        BY DEF TypeOK
      <4> QED BY <4>1, <4>2, <4>3
    <3> QED BY <2>7, <3>1, <3>2 DEF TypeOK, DeliverOnPanel, PersistSubscription,
            AssignReferralRewards
  <2>8. CASE FinishEvent(w)
    <3>1. p \in Payments /\ k \in EventKinds => e \in Events /\ EventShape(e)
      BY InboxReadType
    <3>2. \/ inbox' = inbox
          \/ inbox' = [inbox EXCEPT ![p][k] = FinishedEvent(e, w)] /\ e.token = w
      BY <2>8 DEF FinishEvent
    <3>3. InboxOK(inbox')
      <4>1. CASE p \in Payments /\ k \in EventKinds
        <5>1. FinishedEvent(e, w) \in Events /\ (e.token = w => EventShape(FinishedEvent(e, w)))
          BY <3>1, <4>1, EventWritesType
        <5>2. e.token = w => InboxOK([inbox EXCEPT ![p][k] = FinishedEvent(e, w)])
          BY <4>1, <5>1, InboxWriteType
        <5> QED BY <3>2, <5>2 DEF TypeOK, InboxOK
      <4>2. CASE p \in Payments /\ k \notin EventKinds
        BY <3>2, <4>2 DEF TypeOK, InboxOK
      <4>3. CASE p \notin Payments
        BY <3>2, <4>3 DEF TypeOK, InboxOK
      <4> QED BY <4>1, <4>2, <4>3
    <3> QED BY <2>8, <3>3, InitialValuesType DEF TypeOK, InboxOK, FinishEvent
  <2> QED BY <1>5, <2>4, <2>5, <2>6, <2>7, <2>8 DEF WorkerStep
<1>6. ASSUME NEW w \in Workers, Crash(w)
      PROVE  TypeOK'
  BY <1>6, InitialValuesType DEF TypeOK, Crash
<1> QED BY <1>1, <1>2, <1>3, <1>4, <1>5, <1>6 DEF Next, StartDirect, RetryFailedTransaction

(* Type correctness of the whole protocol.                                 *)
THEOREM TypeCorrect == Spec => []TypeOK
<1>1. TypeOK /\ [Next]_vars => TypeOK'
  BY NextTypeOK DEF TypeOK, vars
<1> QED BY InitTypeOK, <1>1, PTL DEF Spec

-----------------------------------------------------------------------------
(***************************************************************************)
(* The fence.  The four safety invariants follow from one inductive        *)
(* invariant: what a row of the table may look like beside what was done   *)
(* on the panel (RowInv), and what an execution may rely on at each of its *)
(* steps, however the others moved meanwhile (WorkInv).                    *)
(***************************************************************************)
RowShape(r) ==
  /\ r.status = "ABSENT" => r = NewRow
  /\ r.status # "ABSENT" => RowAllowed(r)
  /\ r.token # None => r.status \in {"COMPLETED", "REFUNDED"}

RowInv(p) ==
  /\ RowShape(tx[p])
  /\ tx[p].ful = "NOT_STARTED" => effect[p] = NoEffect
  /\ effect[p].panel <= 1 /\ effect[p].local <= 1 /\ effect[p].reward <= 1
  /\ tx[p].ful = "SUCCEEDED" => p \in TestPayments \/ effect[p] = FullEffect(p)

WorkInv(w) ==
  /\ worker[w].pc # "idle" => worker[w].p \in Payments /\ worker[w].k \in EventKinds
  /\ worker[w].pc # "unfenced"
  /\ worker[w].pc \in OwnerSteps =>
       worker[w].k = "COMPLETED" /\ InFlight(tx[worker[w].p]) /\ tx[worker[w].p].token = w
  /\ worker[w].pc = "expire" =>
       worker[w].k = "COMPLETED" /\ tx[worker[w].p].ful # "NOT_STARTED"
  /\ worker[w].pc = "ok" => Reflected(worker[w].p, worker[w].k)
  /\ worker[w].pc = "deliver" => effect[worker[w].p] = NoEffect
  /\ worker[w].pc = "persist" => effect[worker[w].p] = Effect(1, 0, 0)
  /\ worker[w].pc = "reward" => effect[worker[w].p] = Effect(1, 1, 0)
  /\ worker[w].pc = "complete" =>
       worker[w].p \in TestPayments \/ effect[worker[w].p] = FullEffect(worker[w].p)

FenceInv == (\A p \in Payments : RowInv(p)) /\ (\A w \in Workers : WorkInv(w))

(* What a write of row r to s by execution w leaves to everybody else:     *)
(* started stays started, another's fence stays its own, and what a        *)
(* handled callback established stays established.                         *)
Preserves(r, s, w) ==
  /\ r.ful # "NOT_STARTED" => s.ful # "NOT_STARTED"
  /\ \A v \in Workers : v # w /\ InFlight(r) /\ r.token = v => InFlight(s) /\ s.token = v
  /\ r.status = "REFUNDED" => s.status = "REFUNDED"
  /\ r.status = "CANCELED" /\ r.reason = "PROVIDER" =>
       s.status = "REFUNDED" \/ (s.status = "CANCELED" /\ s.reason = "PROVIDER")

(* The guarded UPDATEs that any execution or sweep may run.                *)
LEMMA CommonWrites ==
  ASSUME NEW r \in Rows, RowShape(r), NEW w
  PROVE  /\ r.status = "ABSENT" \/ CancelMatches(r) =>
              /\ RowShape(Canceled(r, "PROVIDER")) /\ Preserves(r, Canceled(r, "PROVIDER"), w)
              /\ Canceled(r, "PROVIDER").ful = r.ful
         /\ r.status = "PENDING" =>
              /\ RowShape(Canceled(r, "LOCAL_TIMEOUT"))
              /\ Preserves(r, Canceled(r, "LOCAL_TIMEOUT"), w)
              /\ Canceled(r, "LOCAL_TIMEOUT").ful = r.ful
         /\ RefundMatches(r) =>
              RowShape(Refunded(r)) /\ Preserves(r, Refunded(r), w) /\ Refunded(r).ful = r.ful
         /\ RefundFenceMatches(r) =>
              /\ RowShape(RefundFenced(r)) /\ Preserves(r, RefundFenced(r), w)
              /\ RefundFenced(r).ful = r.ful
         /\ ExpireMatches(r) =>
              RowShape(Fenced(r)) /\ Preserves(r, Fenced(r), w) /\ Fenced(r).ful = "MANUAL_REQUIRED"
<1> USE DEF Rows, RowShape, RowAllowed, FulfillmentAllowed, Preserves, InFlight
<1>1. r.status = "ABSENT" \/ CancelMatches(r) =>
        /\ RowShape(Canceled(r, "PROVIDER")) /\ Preserves(r, Canceled(r, "PROVIDER"), w)
        /\ Canceled(r, "PROVIDER").ful = r.ful
  BY DEF CancelMatches, Canceled, NewRow
<1>2. r.status = "PENDING" =>
        /\ RowShape(Canceled(r, "LOCAL_TIMEOUT")) /\ Preserves(r, Canceled(r, "LOCAL_TIMEOUT"), w)
        /\ Canceled(r, "LOCAL_TIMEOUT").ful = r.ful
  BY DEF Canceled
<1>3. RefundMatches(r) =>
        RowShape(Refunded(r)) /\ Preserves(r, Refunded(r), w) /\ Refunded(r).ful = r.ful
  BY DEF RefundMatches, Refunded
<1>4. RefundFenceMatches(r) =>
        RowShape(RefundFenced(r)) /\ Preserves(r, RefundFenced(r), w) /\ RefundFenced(r).ful = r.ful
  BY DEF RefundFenceMatches, RefundFenced
<1>5. ExpireMatches(r) =>
        RowShape(Fenced(r)) /\ Preserves(r, Fenced(r), w) /\ Fenced(r).ful = "MANUAL_REQUIRED"
  BY DEF ExpireMatches, Fenced
<1> QED BY <1>1, <1>2, <1>3, <1>4, <1>5

(* The guarded UPDATEs of the execution that owns, or claims, the fence.   *)
LEMMA OwnerWrites ==
  ASSUME NEW r \in Rows, RowShape(r), NEW w \in Workers
  PROVE  /\ ClaimMatches(r) => RowShape(Claimed(r, w)) /\ Preserves(r, Claimed(r, w), w)
         /\ OwnsLiveFence(r, w) => RowShape(Succeeded(r)) /\ Preserves(r, Succeeded(r), w)
         /\ OwnsLiveFence(r, w) => ~RowAllowed(Released(r))
         /\ FenceMatches(r, w) => RowShape(Fenced(r)) /\ Preserves(r, Fenced(r), w)
         /\ InFlight(r) /\ r.token = w => FenceMatches(r, w)
<1> USE ConstantFacts DEF Rows, RowShape, RowAllowed, FulfillmentAllowed, Preserves, InFlight
<1>1. ClaimMatches(r) => RowShape(Claimed(r, w)) /\ Preserves(r, Claimed(r, w), w)
  BY DEF ClaimMatches, Claimed
<1>2. OwnsLiveFence(r, w) => RowShape(Succeeded(r)) /\ Preserves(r, Succeeded(r), w)
  BY DEF OwnsLiveFence, Succeeded
<1>3. OwnsLiveFence(r, w) => ~RowAllowed(Released(r))
  BY DEF OwnsLiveFence, Released
<1>4. FenceMatches(r, w) => RowShape(Fenced(r)) /\ Preserves(r, Fenced(r), w)
  BY DEF FenceMatches, Fenced
<1>5. InFlight(r) /\ r.token = w => FenceMatches(r, w)
  BY DEF FenceMatches
<1> QED BY <1>1, <1>2, <1>3, <1>4, <1>5

(* An execution keeps what it relies on while another one, or a sweep,     *)
(* writes one row and records effects it owns.                             *)
LEMMA OthersKeepWorkInv ==
  ASSUME TypeOK, FenceInv, NEW w, NEW p \in Payments,
         Preserves(tx[p], tx'[p], w),
         \A q \in Payments \ {p} : tx'[q] = tx[q] /\ effect'[q] = effect[q],
         effect'[p] = effect[p] \/ (w \in Workers /\ InFlight(tx[p]) /\ tx[p].token = w),
         NEW v \in Workers, v # w, worker'[v] = worker[v]
  PROVE  WorkInv(v)'
<1> DEFINE q == worker[v].p
<1>0. WorkInv(v)
  BY DEF FenceInv
<1>1. CASE worker[v].pc = "idle"
  BY <1>1 DEF WorkInv, OwnerSteps
<1>2. CASE worker[v].pc # "idle" /\ q # p
  BY <1>0, <1>2 DEF WorkInv, OwnerSteps, Reflected, InFlight
<1>3. CASE worker[v].pc # "idle" /\ q = p
  <2>1. worker[v].pc \in OwnerSteps => effect'[p] = effect[p]
    BY <1>0, <1>3 DEF WorkInv
  <2> QED BY <1>0, <1>3, <2>1 DEF WorkInv, OwnerSteps, Reflected, Preserves
<1> QED BY <1>1, <1>2, <1>3

LEMMA InitFenceInv == Init => FenceInv
<1> SUFFICES ASSUME Init PROVE FenceInv
  OBVIOUS
<1>1. ASSUME NEW p \in Payments PROVE RowInv(p)
  <2>1. tx[p] = NewRow \/ tx[p] = LegacyRow
    BY DEF Init
  <2>2. effect[p] = NoEffect
    BY DEF Init
  <2>3. RowShape(NewRow) /\ NewRow.ful = "NOT_STARTED"
    BY DEF RowShape, RowAllowed, FulfillmentAllowed, NewRow
  <2>4. LegacyRow.status = "FAILED" /\ LegacyRow.ful = "MANUAL_REQUIRED"
          /\ LegacyRow.token = None /\ LegacyRow.lease = "NULL" /\ LegacyRow.reason = "NULL"
    BY DEF LegacyRow, NewRow
  <2>5. RowShape(LegacyRow)
    BY <2>4 DEF RowShape, RowAllowed, FulfillmentAllowed
  <2> QED BY <2>1, <2>2, <2>3, <2>4, <2>5 DEF RowInv, NoEffect, Effect
<1>2. ASSUME NEW w \in Workers PROVE WorkInv(w)
  BY DEF Init, WorkInv, Idle, OwnerSteps
<1> QED BY <1>1, <1>2 DEF FenceInv

(* A step that writes neither a row nor an effect can only disturb what    *)
(* the execution that takes it relies on.                                  *)
LEMMA QuietStep ==
  ASSUME TypeOK, FenceInv, UNCHANGED <<tx, effect>>, NEW w,
         \A v \in Workers : v # w => worker'[v] = worker[v],
         w \in Workers => WorkInv(w)'
  PROVE  FenceInv'
<1>1. ASSUME NEW p \in Payments PROVE RowInv(p)'
  BY DEF FenceInv, RowInv, RowShape
<1>2. ASSUME NEW v \in Workers, v # w PROVE WorkInv(v)'
  <2>1. worker'[v] = worker[v]
    BY <1>2
  <2> QED BY <2>1 DEF FenceInv, WorkInv, Reflected
<1> QED BY <1>1, <1>2 DEF FenceInv

(* A step that writes one row: what remains to be shown about it.          *)
LEMMA RowStep ==
  ASSUME TypeOK, FenceInv, NEW p \in Payments, NEW w, effect' = effect,
         \A v \in Workers : v # w => worker'[v] = worker[v],
         \A q \in Payments \ {p} : tx'[q] = tx[q],
         RowShape(tx'[p]), Preserves(tx[p], tx'[p], w),
         tx'[p].ful = "NOT_STARTED" => tx[p].ful = "NOT_STARTED",
         tx'[p].ful = "SUCCEEDED" =>
           tx[p].ful = "SUCCEEDED" \/ p \in TestPayments \/ effect[p] = FullEffect(p),
         w \in Workers => WorkInv(w)'
  PROVE  FenceInv'
<1>1. ASSUME NEW q \in Payments PROVE RowInv(q)'
  BY DEF FenceInv, RowInv, RowShape, FullEffect
<1>2. ASSUME NEW v \in Workers, v # w PROVE WorkInv(v)'
  BY <1>2, OthersKeepWorkInv
<1> QED BY <1>1, <1>2 DEF FenceInv

(* The provider, the clock and the sweeps.                                 *)
LEMMA EnvironmentKeepsFence ==
  ASSUME TypeOK, FenceInv, NEW p \in Payments,
         CreateTransaction(p) \/ CancelOld(p) \/ RecoverCanceled(p)
               \/ LeaseExpires(p) \/ ExpireFulfillments(p)
  PROVE  FenceInv'
<1> DEFINE r == tx[p]
<1>1. r \in Rows /\ RowShape(r)
  BY DEF TypeOK, FenceInv, RowInv
<1>2. None \notin Workers
  BY ConstantsAssumption
<1>3. PICK s : /\ tx' = [tx EXCEPT ![p] = s]
               /\ RowShape(s) /\ Preserves(r, s, None)
               /\ s.ful = r.ful \/ s.ful = "MANUAL_REQUIRED"
  <2>1. CASE CreateTransaction(p)
    <3>1. RowShape([r EXCEPT !.status = "PENDING"])
            /\ Preserves(r, [r EXCEPT !.status = "PENDING"], None)
            /\ [r EXCEPT !.status = "PENDING"].ful = r.ful
      BY <1>1, <2>1 DEF CreateTransaction, Rows, RowShape, RowAllowed, FulfillmentAllowed, Preserves, NewRow, InFlight
    <3> QED BY <2>1, <3>1 DEF CreateTransaction
  <2>2. CASE CancelOld(p)
    BY <1>1, <2>2, CommonWrites DEF CancelOld
  <2>5. CASE RecoverCanceled(p)
    BY <1>1, <2>5, CommonWrites DEF RecoverCanceled
  <2>3. CASE LeaseExpires(p)
    <3>1. RowShape([r EXCEPT !.lease = "EXPIRED"])
            /\ Preserves(r, [r EXCEPT !.lease = "EXPIRED"], None)
            /\ [r EXCEPT !.lease = "EXPIRED"].ful = r.ful
      BY <1>1, <2>3 DEF LeaseExpires, Rows, RowShape, RowAllowed, FulfillmentAllowed, Preserves, NewRow, InFlight
    <3> QED BY <2>3, <3>1 DEF LeaseExpires
  <2>4. CASE ExpireFulfillments(p)
    BY <1>1, <2>4, CommonWrites DEF ExpireFulfillments
  <2> QED BY <2>1, <2>2, <2>3, <2>4, <2>5
<1>4. tx'[p] = s /\ \A q \in Payments \ {p} : tx'[q] = tx[q]
  BY <1>3 DEF TypeOK
<1>5. worker' = worker /\ effect' = effect
  BY DEF CreateTransaction, CancelOld, RecoverCanceled, LeaseExpires, ExpireFulfillments
<1> QED BY <1>2, <1>3, <1>4, <1>5, RowStep

(* Deliveries, the inbox clock, the start of an execution and its crash.   *)
LEMMA StartsKeepFence ==
  ASSUME TypeOK, FenceInv, NEW w \in Workers,
         \/ \E p \in Payments, k \in EventKinds :
              ClaimEvent(w, p, k) \/ StartOutsideInbox(w, p, k)
         \/ Crash(w)
  PROVE  FenceInv'
<1>0. worker \in [Workers -> Jobs]
  BY DEF TypeOK
<1>1. ASSUME NEW p \in Payments, NEW k \in EventKinds, NEW j,
             worker' = [worker EXCEPT ![w] = j], j.pc = "apply", j.p = p, j.k = k,
             UNCHANGED <<tx, effect>>
      PROVE  FenceInv'
  <2>1. worker'[w] = j /\ \A v \in Workers : v # w => worker'[v] = worker[v]
    BY <1>0, <1>1
  <2>2. WorkInv(w)'
    BY <1>1, <2>1 DEF WorkInv, OwnerSteps
  <2> QED BY <1>1, <2>1, <2>2, QuietStep
<1>2. ASSUME NEW p \in Payments, NEW k \in EventKinds, ClaimEvent(w, p, k) PROVE FenceInv'
  BY <1>1, <1>2 DEF ClaimEvent
<1>3. ASSUME NEW p \in Payments, NEW k \in EventKinds, StartOutsideInbox(w, p, k)
      PROVE  FenceInv'
  BY <1>1, <1>3 DEF StartOutsideInbox
<1>4. ASSUME Crash(w) PROVE FenceInv'
  <2>1. worker'[w].pc = "idle" /\ \A v \in Workers : v # w => worker'[v] = worker[v]
    BY <1>0, <1>4 DEF Crash, Idle
  <2>2. WorkInv(w)'
    BY <2>1 DEF WorkInv, OwnerSteps
  <2>3. UNCHANGED <<tx, effect>>
    BY <1>4 DEF Crash
  <2> QED BY <2>1, <2>2, <2>3, QuietStep
<1> QED BY <1>2, <1>3, <1>4

(* A step that records an effect of the fence's owner.                     *)
LEMMA EffectStep ==
  ASSUME TypeOK, FenceInv, NEW p \in Payments, NEW w \in Workers, tx' = tx,
         \A v \in Workers : v # w => worker'[v] = worker[v],
         \A q \in Payments \ {p} : effect'[q] = effect[q],
         InFlight(tx[p]), tx[p].token = w,
         effect'[p].panel <= 1, effect'[p].local <= 1, effect'[p].reward <= 1,
         WorkInv(w)'
  PROVE  FenceInv'
<1>1. RowInv(p)'
  BY DEF FenceInv, RowInv, RowShape, InFlight
<1>2. ASSUME NEW q \in Payments, q # p PROVE RowInv(q)'
  BY <1>2 DEF FenceInv, RowInv, RowShape, FullEffect
<1>3. ASSUME NEW v \in Workers, v # w PROVE WorkInv(v)'
  <2>1. Preserves(tx[p], tx'[p], w)
    BY DEF Preserves
  <2> QED BY <1>3, <2>1, OthersKeepWorkInv
<1> QED BY <1>1, <1>2, <1>3 DEF FenceInv

(* What Goto leaves behind.                                                *)
LEMMA GotoReads ==
  ASSUME TypeOK, NEW w \in Workers, NEW s, Goto(w, s)
  PROVE  /\ worker'[w].pc = s
         /\ worker'[w].p = worker[w].p
         /\ worker'[w].k = worker[w].k
         /\ \A v \in Workers : v # w => worker'[v] = worker[v]
<1>1. worker[w] \in Jobs /\ DOMAIN worker = Workers
  BY DEF TypeOK
<1> QED BY <1>1 DEF Goto, Jobs

(* An execution that gives up, or goes on to look at the row again, relies *)
(* on nothing.                                                             *)
LEMMA GotoNothing ==
  ASSUME TypeOK, FenceInv, NEW w \in Workers, worker[w].pc # "idle",
         NEW s \in {"failed", "rejected", "deferred", "reread", "refundFence"}, Goto(w, s)
  PROVE  WorkInv(w)'
<1>1. worker'[w].pc = s /\ worker'[w].p = worker[w].p /\ worker'[w].k = worker[w].k
  BY GotoReads
<1>2. worker[w].p \in Payments /\ worker[w].k \in EventKinds
  BY DEF FenceInv, WorkInv
<1> QED BY <1>1, <1>2 DEF WorkInv, OwnerSteps

(* An execution that reports the callback as handled needs its effect in   *)
(* the row.                                                                *)
LEMMA NotifyNothing ==
  ASSUME TypeOK, FenceInv, NEW w \in Workers, worker[w].pc # "idle",
         NEW p \in Payments, NEW k \in EventKinds, worker[w].p = p, worker[w].k = k,
         Notify(w) \/ Settle(w), Reflected(p, k)'
  PROVE  WorkInv(w)' /\ \A v \in Workers : v # w => worker'[v] = worker[v]
<1>1. CASE Goto(w, "failed") \/ Goto(w, "rejected")
  BY <1>1, GotoNothing, GotoReads
<1>2. CASE Goto(w, "ok")
  <2>1. worker'[w].pc = "ok" /\ worker'[w].p = p /\ worker'[w].k = k
    BY <1>2, GotoReads
  <2>2. Reflected(worker[w].p, worker[w].k)'
    BY <2>1 DEF Reflected
  <2>3. WorkInv(w)'
    BY <2>1, <2>2 DEF WorkInv, OwnerSteps
  <2> QED BY <1>2, <2>3, GotoReads
<1> QED BY <1>1, <1>2 DEF Notify, Settle

(* Every step of ProcessPayment keeps the fence.                           *)
LEMMA WorkerKeepsFence ==
  ASSUME TypeOK, FenceInv, NEW w \in Workers, WorkerStep(w)
  PROVE  FenceInv'
<1> USE DEF OwnerSteps
<1>1. worker[w].pc # "idle" /\ WorkInv(w)
  BY DEF FenceInv, WorkerStep, StoreEarly, RejectInvalid, DatabaseError, Applying, ApplyCompleted,
     ApplyCanceled, ApplyRefunded, FenceRefund, Reread, ExpireFulfillment, DeliverTest,
     DeliverOnPanel, DeliverRefused, PanelUnreachable, PersistSubscription, AssignReferralRewards,
     CompleteFulfillment, RecheckFulfillment, FenceFailure, ReleaseUnapplied, FinishEvent, Outcomes
<1>2. PICK p \in Payments, k \in EventKinds : worker[w].p = p /\ worker[w].k = k
  BY <1>1 DEF WorkInv
<1> DEFINE r == tx[p]
<1>3. r \in Rows /\ RowShape(r) /\ RowInv(p)
  BY DEF TypeOK, FenceInv, RowInv
<1>4. ASSUME NEW s, tx' = [tx EXCEPT ![p] = s], effect' = effect,
             RowShape(s), Preserves(r, s, w),
             s.ful = "NOT_STARTED" => r.ful = "NOT_STARTED",
             s.ful = "SUCCEEDED" => r.ful = "SUCCEEDED" \/ p \in TestPayments \/ effect[p] = FullEffect(p),
             WorkInv(w)', \A v \in Workers : v # w => worker'[v] = worker[v]
      PROVE  FenceInv'
  <2>1. tx'[p] = s /\ \A q \in Payments \ {p} : tx'[q] = tx[q]
    BY <1>4 DEF TypeOK
  <2> QED BY <1>4, <2>1, RowStep
\* As <1>4, for a write after which the callback is handled.
<1>5. ASSUME NEW s, tx' = [tx EXCEPT ![p] = s], effect' = effect,
             RowShape(s), Preserves(r, s, w),
             s.ful = "NOT_STARTED" => r.ful = "NOT_STARTED",
             s.ful = "SUCCEEDED" => r.ful = "SUCCEEDED" \/ p \in TestPayments \/ effect[p] = FullEffect(p),
             Notify(w) \/ Settle(w),
             \/ s.status = "REFUNDED"
             \/ k = "COMPLETED" /\ s.ful # "NOT_STARTED"
             \/ k = "CANCELED" /\ s.status = "CANCELED" /\ s.reason = "PROVIDER"
      PROVE  FenceInv'
  <2>1. tx'[p] = s
    BY <1>5 DEF TypeOK
  <2>2. Reflected(p, k)'
    BY <1>5, <2>1 DEF Reflected
  <2> QED BY <1>1, <1>2, <1>4, <1>5, <2>2, NotifyNothing
\* As <1>5, when no row is written.
<1>6. ASSUME UNCHANGED <<tx, effect>>, Notify(w) \/ Settle(w), Reflected(p, k)
      PROVE  FenceInv'
  <2>1. Reflected(p, k)'
    BY <1>6 DEF Reflected
  <2> QED BY <1>1, <1>2, <1>6, <2>1, NotifyNothing, QuietStep
<1>7. ASSUME UNCHANGED <<tx, effect>>,
             NEW s \in {"failed", "rejected", "deferred", "reread", "refundFence"}, Goto(w, s)
      PROVE  FenceInv'
  BY <1>1, <1>7, GotoNothing, GotoReads, QuietStep
\* The owner goes on to another of its steps.
<1>8. ASSUME UNCHANGED <<tx, effect>>, worker[w].pc \in OwnerSteps,
             NEW s \in {"complete", "recheck", "fence", "release"}, Goto(w, s),
             s = "complete" => p \in TestPayments
      PROVE  FenceInv'
  <2>1. /\ worker'[w].pc = s /\ worker'[w].p = p /\ worker'[w].k = k
        /\ \A v \in Workers : v # w => worker'[v] = worker[v]
    BY <1>2, <1>8, GotoReads
  <2>2. WorkInv(w)'
    BY <1>1, <1>2, <1>8, <2>1 DEF WorkInv
  <2> QED BY <1>8, <2>1, <2>2, QuietStep
<1>9. CASE StoreEarly(w) \/ RejectInvalid(w) \/ DatabaseError(w)
  BY <1>7, <1>9 DEF StoreEarly, RejectInvalid, DatabaseError
<1>10. CASE ApplyCompleted(w)
  <2>1. k = "COMPLETED" /\ effect' = effect
    BY <1>2, <1>10 DEF ApplyCompleted, Applying
  <2>2. CASE ClaimMatches(r)
    <3>1. tx' = [tx EXCEPT ![p] = Claimed(r, w)] /\ Goto(w, "deliver")
      BY <1>2, <1>10, <2>2 DEF ApplyCompleted
    <3>2. /\ RowShape(Claimed(r, w)) /\ Preserves(r, Claimed(r, w), w)
          /\ Claimed(r, w).ful = "PROCESSING" /\ Claimed(r, w).token = w
      BY <1>3, <2>2, OwnerWrites DEF Claimed, Rows
    <3>3. tx'[p] = Claimed(r, w) /\ effect[p] = NoEffect
      BY <1>3, <2>2, <3>1 DEF TypeOK, ClaimMatches, RowInv
    <3>4. /\ worker'[w].pc = "deliver" /\ worker'[w].p = p /\ worker'[w].k = k
          /\ \A v \in Workers : v # w => worker'[v] = worker[v]
      BY <1>2, <3>1, GotoReads
    <3>5. WorkInv(w)'
      BY <2>1, <3>2, <3>3, <3>4 DEF WorkInv, InFlight
    <3> QED BY <1>4, <2>1, <3>1, <3>2, <3>4, <3>5
  <2>3. CASE ~ClaimMatches(r)
    BY <1>2, <1>7, <1>10, <2>3 DEF ApplyCompleted
  <2> QED BY <2>2, <2>3
<1>11. CASE ApplyCanceled(w)
  <2>1. k = "CANCELED" /\ effect' = effect
    BY <1>2, <1>11 DEF ApplyCanceled, Applying
  <2>2. CASE CancelMatches(r)
    <3>1. tx' = [tx EXCEPT ![p] = Canceled(r, "PROVIDER")] /\ Settle(w)
      BY <1>2, <1>11, <2>2 DEF ApplyCanceled
    <3>2. /\ RowShape(Canceled(r, "PROVIDER")) /\ Preserves(r, Canceled(r, "PROVIDER"), w)
          /\ Canceled(r, "PROVIDER").ful = r.ful
          /\ Canceled(r, "PROVIDER").status = "CANCELED"
          /\ Canceled(r, "PROVIDER").reason = "PROVIDER"
      BY <1>3, <2>2, CommonWrites DEF Canceled, Rows
    <3> QED BY <1>5, <2>1, <3>1, <3>2
  <2>3. CASE ~CancelMatches(r)
    BY <1>2, <1>7, <1>11, <2>3 DEF ApplyCanceled
  <2> QED BY <2>2, <2>3
<1>12. CASE ApplyRefunded(w)
  <2>1. CASE RefundMatches(r)
    <3>1. tx' = [tx EXCEPT ![p] = Refunded(r)] /\ Notify(w) /\ effect' = effect
      BY <1>2, <1>12, <2>1 DEF ApplyRefunded
    <3>2. /\ RowShape(Refunded(r)) /\ Preserves(r, Refunded(r), w)
          /\ Refunded(r).ful = r.ful /\ Refunded(r).status = "REFUNDED"
      BY <1>3, <2>1, CommonWrites DEF Refunded, Rows
    <3> QED BY <1>5, <3>1, <3>2
  <2>2. CASE ~RefundMatches(r)
    BY <1>2, <1>7, <1>12, <2>2 DEF ApplyRefunded
  <2> QED BY <2>1, <2>2
<1>13. CASE FenceRefund(w)
  <2>1. CASE RefundFenceMatches(r)
    <3>1. tx' = [tx EXCEPT ![p] = RefundFenced(r)] /\ Notify(w) /\ effect' = effect
      BY <1>2, <1>13, <2>1 DEF FenceRefund
    <3>2. /\ RowShape(RefundFenced(r)) /\ Preserves(r, RefundFenced(r), w)
          /\ RefundFenced(r).ful = r.ful /\ RefundFenced(r).status = "REFUNDED"
      BY <1>3, <2>1, CommonWrites DEF RefundFenced, Rows
    <3> QED BY <1>5, <3>1, <3>2
  <2>2. CASE ~RefundFenceMatches(r)
    BY <1>2, <1>7, <1>13, <2>2 DEF FenceRefund
  <2> QED BY <2>1, <2>2
<1>14. CASE Reread(w)
  <2>1. UNCHANGED <<tx, effect>>
    BY <1>14 DEF Reread
  <2>2. CASE k = "COMPLETED" /\ r.ful = "PROCESSING" /\ Goto(w, "expire")
    <3>1. /\ worker'[w].pc = "expire" /\ worker'[w].p = p /\ worker'[w].k = k
          /\ \A v \in Workers : v # w => worker'[v] = worker[v]
      BY <1>2, <2>2, GotoReads
    <3>2. WorkInv(w)'
      BY <2>1, <2>2, <3>1 DEF WorkInv
    <3> QED BY <2>1, <3>1, <3>2, QuietStep
  <2>3. CASE Goto(w, "rejected")
    BY <1>7, <2>1, <2>3
  <2>4. CASE (Settle(w) \/ Notify(w)) /\ Reflected(p, k)
    BY <1>6, <2>1, <2>4
  <2>5. k = "COMPLETED" /\ RereadCompleted(w, r) => <2>2!1 \/ Goto(w, "rejected") \/ <2>4!1
    BY <1>3 DEF RereadCompleted, Rows, Fulfillments, Reflected
  <2>6. k = "CANCELED" /\ RereadCanceled(w, r) => Goto(w, "rejected") \/ <2>4!1
    BY DEF RereadCanceled, Reflected
  <2>7. k = "REFUNDED" /\ RereadRefunded(w, r) => Goto(w, "rejected") \/ <2>4!1
    BY DEF RereadRefunded, Reflected
  <2> QED BY <1>2, <1>14, <2>2, <2>3, <2>4, <2>5, <2>6, <2>7 DEF Reread
<1>15. CASE ExpireFulfillment(w)
  <2>1. k = "COMPLETED" /\ r.ful # "NOT_STARTED" /\ effect' = effect
    BY <1>1, <1>2, <1>15 DEF ExpireFulfillment, WorkInv
  <2>2. CASE ExpireMatches(r)
    <3>1. tx' = [tx EXCEPT ![p] = Fenced(r)] /\ Notify(w)
      BY <1>2, <1>15, <2>2 DEF ExpireFulfillment
    <3>2. RowShape(Fenced(r)) /\ Preserves(r, Fenced(r), w) /\ Fenced(r).ful = "MANUAL_REQUIRED"
      BY <1>3, <2>2, CommonWrites
    <3> QED BY <1>5, <2>1, <3>1, <3>2
  <2>3. CASE ~ExpireMatches(r)
    BY <1>2, <1>6, <1>15, <2>1, <2>3 DEF ExpireFulfillment, Reflected
  <2> QED BY <2>2, <2>3
<1>16. CASE DeliverTest(w) \/ DeliverRefused(w) \/ PanelUnreachable(w)
  BY <1>2, <1>8, <1>16 DEF DeliverTest, DeliverRefused, PanelUnreachable
<1>17. CASE DeliverOnPanel(w) \/ PersistSubscription(w) \/ AssignReferralRewards(w)
  <2>1. tx' = tx /\ InFlight(r) /\ r.token = w /\ k = "COMPLETED"
    BY <1>1, <1>2, <1>17 DEF DeliverOnPanel, PersistSubscription, AssignReferralRewards, WorkInv
  <2>2. PICK s \in {"persist", "reward", "complete", "fence"} : Goto(w, s)
    BY <1>17 DEF DeliverOnPanel, PersistSubscription, AssignReferralRewards
  <2>3. /\ worker'[w].pc = s /\ worker'[w].p = p /\ worker'[w].k = k
        /\ \A v \in Workers : v # w => worker'[v] = worker[v]
    BY <1>2, <2>2, GotoReads
  <2>4. effect \in [Payments -> Effects]
    BY DEF TypeOK
  <2>5. /\ \A q \in Payments \ {p} : effect'[q] = effect[q]
        /\ effect'[p].panel <= 1 /\ effect'[p].local <= 1 /\ effect'[p].reward <= 1
        /\ s = "persist" => effect'[p] = Effect(1, 0, 0)
        /\ s = "reward" => effect'[p] = Effect(1, 1, 0)
        /\ s = "complete" => effect'[p] = FullEffect(p)
        /\ s \in {"persist", "reward", "complete", "fence"}
    <3>1. CASE effect' = effect /\ s = "fence"
      BY <1>3, <3>1 DEF RowInv
    <3>2. CASE DeliverOnPanel(w)
      <4>1. effect[p] = NoEffect /\ s \in {"persist", "fence"}
        BY <1>1, <1>2, <2>3, <3>2, GotoReads DEF DeliverOnPanel, WorkInv
      <4>2. effect' = [effect EXCEPT ![p].panel = @ + 1]
        BY <1>2, <3>2 DEF DeliverOnPanel
      <4>3. effect'[p] = Effect(1, 0, 0)
        BY <2>4, <4>1, <4>2 DEF NoEffect, Effect
      <4> QED BY <2>4, <4>1, <4>2, <4>3 DEF Effect
    <3>3. CASE PersistSubscription(w)
      <4>1. effect[p] = Effect(1, 0, 0)
        BY <1>1, <1>2, <3>3 DEF PersistSubscription, WorkInv
      <4>2. CASE effect' = [effect EXCEPT ![p].local = @ + 1] /\ s = "reward"
        <5>1. effect'[p] = Effect(1, 1, 0)
          BY <2>4, <4>1, <4>2 DEF Effect
        <5> QED BY <2>4, <4>2, <5>1 DEF Effect
      <4> QED BY <1>2, <2>3, <3>1, <3>3, <4>2, GotoReads DEF PersistSubscription
    <3>4. CASE AssignReferralRewards(w)
      <4>1. effect[p] = Effect(1, 1, 0)
        BY <1>1, <1>2, <3>4 DEF AssignReferralRewards, WorkInv
      <4>2. CASE /\ effect' = [effect EXCEPT ![p].reward = @ + FullEffect(p).reward]
                 /\ s \in {"complete", "fence"}
        <5>1. effect'[p] = FullEffect(p)
          BY <2>4, <4>1, <4>2 DEF Effect, FullEffect
        <5> QED BY <2>4, <4>2, <5>1 DEF Effect, FullEffect
      <4> QED BY <1>2, <2>3, <3>1, <3>4, <4>2, GotoReads DEF AssignReferralRewards
    <3> QED BY <1>17, <3>2, <3>3, <3>4
  <2>6. WorkInv(w)'
    BY <2>1, <2>2, <2>3, <2>5 DEF WorkInv
  <2> QED BY <2>1, <2>3, <2>5, <2>6, EffectStep
<1>18. CASE CompleteFulfillment(w)
  <2>1. k = "COMPLETED" /\ effect' = effect /\ (p \in TestPayments \/ effect[p] = FullEffect(p))
    BY <1>1, <1>2, <1>18 DEF CompleteFulfillment, WorkInv
  <2>2. CASE OwnsLiveFence(r, w)
    <3>1. tx' = [tx EXCEPT ![p] = Succeeded(r)] /\ Settle(w)
      BY <1>2, <1>18, <2>2 DEF CompleteFulfillment
    <3>2. RowShape(Succeeded(r)) /\ Preserves(r, Succeeded(r), w) /\ Succeeded(r).ful = "SUCCEEDED"
      BY <1>3, <2>2, OwnerWrites DEF Succeeded, Rows
    <3> QED BY <1>5, <2>1, <3>1, <3>2
  <2>3. CASE ~OwnsLiveFence(r, w)
    BY <1>2, <1>8, <1>18, <2>3 DEF CompleteFulfillment
  <2> QED BY <2>2, <2>3
\* The owner still finds its token, so each of its last steps can fence.
<1>19. ASSUME worker[w].pc \in {"recheck", "fence", "release"}
       PROVE  /\ FenceMatches(r, w) /\ k = "COMPLETED"
              /\ RowShape(Fenced(r)) /\ Preserves(r, Fenced(r), w)
              /\ Fenced(r).ful = "MANUAL_REQUIRED"
  <2>1. InFlight(r) /\ r.token = w /\ k = "COMPLETED"
    BY <1>1, <1>2, <1>19 DEF WorkInv
  <2> QED BY <1>3, <2>1, OwnerWrites DEF Fenced, Rows
<1>20. CASE RecheckFulfillment(w)
  <2>1. tx' = [tx EXCEPT ![p] = Fenced(r)] /\ Notify(w) /\ effect' = effect
    BY <1>2, <1>19, <1>20 DEF RecheckFulfillment
  <2> QED BY <1>5, <1>19, <1>20, <2>1 DEF RecheckFulfillment
\* A fence written by a worker that then reports a failure.
<1>21. ASSUME worker[w].pc \in {"recheck", "fence", "release"},
              tx' = [tx EXCEPT ![p] = Fenced(r)], effect' = effect,
              NEW s \in {"failed", "rejected"}, Goto(w, s)
       PROVE  FenceInv'
  <2>1. WorkInv(w)' /\ \A v \in Workers : v # w => worker'[v] = worker[v]
    BY <1>1, <1>21, GotoNothing, GotoReads
  <2> QED BY <1>4, <1>19, <1>21, <2>1
<1>22. CASE FenceFailure(w)
  BY <1>2, <1>19, <1>21, <1>22 DEF FenceFailure
<1>23. CASE ReleaseUnapplied(w)
  <2>1. OwnsLiveFence(r, w) => ~RowAllowed(Released(r))
    BY <1>3, OwnerWrites
  <2>2. CASE OwnsLiveFence(r, w)
    <3>1. UNCHANGED <<tx, effect>> /\ Goto(w, "failed")
      BY <1>2, <1>23, <2>1, <2>2 DEF ReleaseUnapplied
    <3> QED BY <1>7, <3>1
  <2>3. CASE ~OwnsLiveFence(r, w)
    BY <1>2, <1>19, <1>21, <1>23, <2>3 DEF ReleaseUnapplied
  <2> QED BY <2>2, <2>3
<1>24. CASE FinishEvent(w)
  <2>1. worker' = [worker EXCEPT ![w] = Idle] /\ UNCHANGED <<tx, effect>>
    BY <1>24 DEF FinishEvent
  <2>2. worker'[w].pc = "idle" /\ \A v \in Workers : v # w => worker'[v] = worker[v]
    BY <2>1 DEF TypeOK, Idle
  <2>3. WorkInv(w)'
    BY <2>2 DEF WorkInv
  <2> QED BY <2>1, <2>2, <2>3, QuietStep
<1> QED BY <1>9, <1>10, <1>11, <1>12, <1>13, <1>14, <1>15, <1>16, <1>17, <1>18, <1>20, <1>22,
           <1>23, <1>24 DEF WorkerStep

(* Every step of the protocol keeps the fence.                             *)
LEMMA NextKeepsFence == TypeOK /\ FenceInv /\ [Next]_vars => FenceInv'
<1> SUFFICES ASSUME TypeOK, FenceInv, [Next]_vars PROVE FenceInv'
  OBVIOUS
<1>1. None \notin Workers
  BY ConstantsAssumption
<1>2. ASSUME UNCHANGED <<tx, effect, worker>> PROVE FenceInv'
  BY <1>1, <1>2, QuietStep
<1>3. ASSUME NEW p \in Payments, NEW k \in EventKinds,
             DeliverWebhook(p, k) \/ DeliverConflicting(p, k) \/ EventLeaseExpires(p, k)
               \/ BackoffElapses(p, k) \/ ExpireOrphan(p, k)
      PROVE  FenceInv'
  BY <1>2, <1>3 DEF DeliverWebhook, DeliverConflicting, EventLeaseExpires, BackoffElapses, ExpireOrphan
<1>4. ASSUME NEW w \in Workers, NEW p \in Payments, NEW k \in EventKinds,
             StartTask(w, p, k) \/ StartReplay(w, p, k) \/ StartDirect(w, p, k)
      PROVE  FenceInv'
  BY <1>4, StartsKeepFence DEF StartTask, StartReplay, StartDirect
<1>5. ASSUME NEW w \in Workers, NEW p \in Payments, RetryFailedTransaction(w, p)
      PROVE  FenceInv'
  BY <1>5, StartsKeepFence, ConstantFacts DEF RetryFailedTransaction
<1>6. ASSUME Next PROVE FenceInv'
  BY <1>3, <1>4, <1>5, <1>6, EnvironmentKeepsFence, WorkerKeepsFence, StartsKeepFence DEF Next
<1> QED BY <1>2, <1>6 DEF vars

THEOREM FenceInductive == Spec => [](TypeOK /\ FenceInv)
<1>1. Init => TypeOK /\ FenceInv
  BY InitTypeOK, InitFenceInv
<1>2. TypeOK /\ FenceInv /\ [Next]_vars => (TypeOK /\ FenceInv)'
  BY NextTypeOK, NextKeepsFence DEF TypeOK, vars
<1> QED BY <1>1, <1>2, PTL DEF Spec

(* For any number of payments, workers and faults, a payment is applied,   *)
(* persisted and rewarded at most once each.                               *)
THEOREM AppliedOnce == Spec => []AppliedAtMostOnce
<1>1. TypeOK /\ FenceInv => AppliedAtMostOnce
  BY DEF FenceInv, RowInv, AppliedAtMostOnce
<1> QED BY <1>1, FenceInductive, PTL

(* A payment recorded as SUCCEEDED was applied, persisted and rewarded.    *)
THEOREM SuccessProved == Spec => []SucceededIsProof
<1>1. TypeOK /\ FenceInv => SucceededIsProof
  BY DEF FenceInv, RowInv, SucceededIsProof
<1> QED BY <1>1, FenceInductive, PTL

(* The execution that claimed a payment can always record its outcome.     *)
THEOREM FenceKept == Spec => []FenceIsNeverLost
<1>1. TypeOK /\ FenceInv => FenceIsNeverLost
  BY DEF FenceInv, WorkInv, FenceIsNeverLost
<1> QED BY <1>1, FenceInductive, PTL

(* No interleaving writes a row the table's CHECK constraint rejects.      *)
THEOREM CheckConstraintKept == Spec => []CheckConstraintHolds
<1>1. TypeOK /\ FenceInv => CheckConstraintHolds
  BY DEF FenceInv, RowInv, RowShape, CheckConstraintHolds
<1> QED BY <1>1, FenceInductive, PTL

(* A FAILED payment stays as it is: the operator's retry finds a row that  *)
(* no claim matches, so it delivers nothing, and neither does a callback.  *)
THEOREM FailedIsNeverClaimed ==
  Spec => [][\A p \in Payments : tx[p].status = "FAILED" =>
               /\ tx'[p] = tx[p]
               /\ \A w \in Workers :
                    worker[w].p = p /\ ApplyCompleted(w) => worker'[w].pc = "reread"]_vars
<1>1. ASSUME TypeOK, FenceInv, Next, NEW p \in Payments, tx[p].status = "FAILED"
      PROVE  /\ tx'[p] = tx[p]
             /\ \A w \in Workers :
                  worker[w].p = p /\ ApplyCompleted(w) => worker'[w].pc = "reread"
  <2>1. tx[p].ful = "MANUAL_REQUIRED" /\ tx[p].lease = "NULL"
    BY <1>1 DEF FenceInv, RowInv, RowShape, RowAllowed, FulfillmentAllowed, NewRow
  <2>2. tx \in [Payments -> Rows] /\ worker \in [Workers -> Jobs]
    BY <1>1 DEF TypeOK
  <2>3. /\ ~ClaimMatches(tx[p]) /\ ~CancelMatches(tx[p]) /\ ~RefundMatches(tx[p])
        /\ ~RefundFenceMatches(tx[p]) /\ ~ExpireMatches(tx[p])
        /\ \A w \in Workers : ~OwnsLiveFence(tx[p], w) /\ ~FenceMatches(tx[p], w)
    BY <1>1, <2>1 DEF ClaimMatches, CancelMatches, RefundMatches, RefundFenceMatches,
       ExpireMatches, OwnsLiveFence, FenceMatches
  <2>4. ASSUME NEW w \in Workers, worker[w].p = p, ApplyCompleted(w)
        PROVE  worker'[w].pc = "reread"
    BY <2>2, <2>3, <2>4 DEF ApplyCompleted, Goto, Jobs
  <2>5. tx'[p] = tx[p]
    <3>1. ASSUME NEW q \in Payments,
                 CreateTransaction(q) \/ CancelOld(q) \/ RecoverCanceled(q)
                   \/ LeaseExpires(q) \/ ExpireFulfillments(q)
          PROVE  tx'[p] = tx[p]
      BY <1>1, <2>1, <2>2, <2>3, <3>1 DEF CreateTransaction, CancelOld, RecoverCanceled,
         LeaseExpires, ExpireFulfillments
    <3>2. ASSUME NEW q \in Payments, NEW k \in EventKinds,
                 DeliverWebhook(q, k) \/ DeliverConflicting(q, k) \/ EventLeaseExpires(q, k)
                   \/ BackoffElapses(q, k) \/ ExpireOrphan(q, k)
          PROVE  tx'[p] = tx[p]
      BY <3>2 DEF DeliverWebhook, DeliverConflicting, EventLeaseExpires, BackoffElapses, ExpireOrphan
    <3>3. ASSUME NEW w \in Workers, WorkerStep(w)
          PROVE  tx'[p] = tx[p]
      <4>1. CASE \/ ApplyCompleted(w) \/ ApplyCanceled(w) \/ ApplyRefunded(w) \/ FenceRefund(w)
                 \/ ExpireFulfillment(w) \/ CompleteFulfillment(w) \/ RecheckFulfillment(w)
                 \/ FenceFailure(w) \/ ReleaseUnapplied(w)
        BY <2>2, <2>3, <4>1 DEF ApplyCompleted, ApplyCanceled, ApplyRefunded, FenceRefund,
           ExpireFulfillment, CompleteFulfillment, RecheckFulfillment, FenceFailure, ReleaseUnapplied
      <4>2. CASE \/ StoreEarly(w) \/ RejectInvalid(w) \/ DatabaseError(w) \/ Reread(w)
                 \/ DeliverTest(w) \/ DeliverOnPanel(w) \/ DeliverRefused(w) \/ PanelUnreachable(w)
                 \/ PersistSubscription(w) \/ AssignReferralRewards(w) \/ FinishEvent(w)
        BY <4>2 DEF StoreEarly, RejectInvalid, DatabaseError, Reread, DeliverTest, DeliverOnPanel,
           DeliverRefused, PanelUnreachable, PersistSubscription, AssignReferralRewards, FinishEvent
      <4> QED BY <3>3, <4>1, <4>2 DEF WorkerStep
    <3>4. ASSUME NEW w \in Workers,
                 \/ Crash(w)
                 \/ \E q \in Payments :
                      \/ RetryFailedTransaction(w, q)
                      \/ \E k \in EventKinds :
                           StartTask(w, q, k) \/ StartReplay(w, q, k) \/ StartDirect(w, q, k)
          PROVE  tx'[p] = tx[p]
      BY <3>4 DEF Crash, RetryFailedTransaction, StartTask, StartReplay, StartDirect,
         StartOutsideInbox, ClaimEvent
    <3> QED BY <1>1, <3>1, <3>2, <3>3, <3>4 DEF Next
  <2> QED BY <2>4, <2>5
<1>2. TypeOK /\ FenceInv /\ [Next]_vars =>
        [\A p \in Payments : tx[p].status = "FAILED" =>
           /\ tx'[p] = tx[p]
           /\ \A w \in Workers :
                worker[w].p = p /\ ApplyCompleted(w) => worker'[w].pc = "reread"]_vars
  BY <1>1
<1> QED BY <1>2, FenceInductive, PTL DEF Spec

-----------------------------------------------------------------------------
(***************************************************************************)
(* Acknowledged callbacks.  An event leaves the inbox only when its        *)
(* execution reports "ok", which FenceInv ties to the row; what the row    *)
(* then says of the callback is stable.                                    *)
(***************************************************************************)
(* The row a step writes keeps what handled callbacks established.         *)
LEMMA WritesPreserve ==
  ASSUME TypeOK, FenceInv, Next
  PROVE  \/ tx' = tx
         \/ \E p \in Payments : \E s, w : tx' = [tx EXCEPT ![p] = s] /\ Preserves(tx[p], s, w)
<1>1. ASSUME NEW p \in Payments PROVE tx[p] \in Rows /\ RowShape(tx[p])
  BY DEF TypeOK, FenceInv, RowInv
<1>2. ASSUME NEW p \in Payments,
             CreateTransaction(p) \/ CancelOld(p) \/ RecoverCanceled(p)
               \/ LeaseExpires(p) \/ ExpireFulfillments(p)
      PROVE  \E s, w : tx' = [tx EXCEPT ![p] = s] /\ Preserves(tx[p], s, w)
  <2> DEFINE r == tx[p]
  <2>1. CASE CreateTransaction(p)
    <3>1. Preserves(r, [r EXCEPT !.status = "PENDING"], None)
      BY <1>1, <2>1 DEF CreateTransaction, Rows, RowShape, Preserves, NewRow, InFlight
    <3> QED BY <2>1, <3>1 DEF CreateTransaction
  <2>2. CASE CancelOld(p)
    BY <1>1, <2>2, CommonWrites DEF CancelOld
  <2>5. CASE RecoverCanceled(p)
    BY <1>1, <2>5, CommonWrites DEF RecoverCanceled
  <2>3. CASE LeaseExpires(p)
    <3>1. Preserves(r, [r EXCEPT !.lease = "EXPIRED"], None)
      BY <1>1 DEF Rows, Preserves, InFlight
    <3> QED BY <2>3, <3>1 DEF LeaseExpires
  <2>4. CASE ExpireFulfillments(p)
    BY <1>1, <2>4, CommonWrites DEF ExpireFulfillments
  <2> QED BY <1>2, <2>1, <2>2, <2>3, <2>4, <2>5
<1>3. ASSUME NEW w \in Workers, WorkerStep(w), tx' # tx
      PROVE  \E p \in Payments : \E s, v : tx' = [tx EXCEPT ![p] = s] /\ Preserves(tx[p], s, v)
  <2> DEFINE p == worker[w].p  r == tx[p]
  <2>1. \/ ApplyCompleted(w) \/ ApplyCanceled(w) \/ ApplyRefunded(w) \/ FenceRefund(w)
        \/ ExpireFulfillment(w) \/ CompleteFulfillment(w) \/ RecheckFulfillment(w)
        \/ FenceFailure(w) \/ ReleaseUnapplied(w)
    BY <1>3 DEF WorkerStep, StoreEarly, RejectInvalid, DatabaseError, Reread, DeliverTest,
       DeliverOnPanel, DeliverRefused, PanelUnreachable, PersistSubscription,
       AssignReferralRewards, FinishEvent
  <2>2. p \in Payments
    BY <2>1 DEF FenceInv, WorkInv, ApplyCompleted, ApplyCanceled, ApplyRefunded, FenceRefund, Applying,
       ExpireFulfillment, CompleteFulfillment, RecheckFulfillment, FenceFailure, ReleaseUnapplied
  <2>3. \/ ClaimMatches(r) /\ tx' = [tx EXCEPT ![p] = Claimed(r, w)]
        \/ CancelMatches(r) /\ tx' = [tx EXCEPT ![p] = Canceled(r, "PROVIDER")]
        \/ RefundMatches(r) /\ tx' = [tx EXCEPT ![p] = Refunded(r)]
        \/ RefundFenceMatches(r) /\ tx' = [tx EXCEPT ![p] = RefundFenced(r)]
        \/ OwnsLiveFence(r, w) /\ tx' = [tx EXCEPT ![p] = Succeeded(r)]
        \/ (ExpireMatches(r) \/ FenceMatches(r, w)) /\ tx' = [tx EXCEPT ![p] = Fenced(r)]
        \/ OwnsLiveFence(r, w) /\ RowAllowed(Released(r))
    BY <1>3, <2>1 DEF ApplyCompleted, ApplyCanceled, ApplyRefunded, FenceRefund,
       ExpireFulfillment, CompleteFulfillment, RecheckFulfillment, FenceFailure, ReleaseUnapplied
  <2> DEFINE Writes(s) == tx' = [tx EXCEPT ![p] = s] /\ Preserves(r, s, w)
  <2>4. \/ Writes(Claimed(r, w)) \/ Writes(Canceled(r, "PROVIDER")) \/ Writes(Refunded(r))
        \/ Writes(RefundFenced(r)) \/ Writes(Succeeded(r)) \/ Writes(Fenced(r))
    BY <1>1, <2>2, <2>3, CommonWrites, OwnerWrites
  <2>5. PICK s : Writes(s)
    BY <2>4
  <2> QED BY <2>2, <2>5
<1>4. ASSUME NEW p \in Payments, NEW k \in EventKinds,
             DeliverWebhook(p, k) \/ DeliverConflicting(p, k) \/ EventLeaseExpires(p, k)
               \/ BackoffElapses(p, k) \/ ExpireOrphan(p, k)
      PROVE  tx' = tx
  BY <1>4 DEF DeliverWebhook, DeliverConflicting, EventLeaseExpires, BackoffElapses, ExpireOrphan
<1>5. ASSUME NEW w \in Workers, NEW p \in Payments, NEW k \in EventKinds,
             ClaimEvent(w, p, k) \/ StartOutsideInbox(w, p, k)
      PROVE  tx' = tx
  BY <1>5 DEF ClaimEvent, StartOutsideInbox
<1>6. ASSUME NEW w \in Workers, Crash(w) PROVE tx' = tx
  BY <1>6 DEF Crash
<1> QED BY <1>2, <1>3, <1>4, <1>5, <1>6, ConstantFacts
        DEF Next, StartTask, StartReplay, StartDirect, RetryFailedTransaction

LEMMA ReflectedStable ==
  ASSUME TypeOK, FenceInv, Next, NEW p \in Payments, NEW k, Reflected(p, k)
  PROVE  Reflected(p, k)'
<1>1. CASE tx' = tx
  BY <1>1 DEF Reflected
<1>2. ASSUME NEW q \in Payments, NEW s, NEW w,
             tx' = [tx EXCEPT ![q] = s], Preserves(tx[q], s, w)
      PROVE  Reflected(p, k)'
  <2>1. tx'[q] = s /\ (p # q => tx'[p] = tx[p])
    BY <1>2 DEF TypeOK
  <2> QED BY <1>2, <2>1 DEF Reflected, Preserves
<1> QED BY <1>1, <1>2, WritesPreserve

(* An event that is in the inbox stays there until its callback has taken  *)
(* effect.                                                                 *)
LEMMA InboxSteps ==
  ASSUME TypeOK, FenceInv, Next, NEW p \in Payments, NEW k \in EventKinds,
         inbox[p][k].st # "none"
  PROVE  inbox'[p][k].st # "none" \/ Reflected(p, k)
<1>1. ASSUME NEW q \in Payments, NEW l \in EventKinds, NEW f,
             inbox' = [inbox EXCEPT ![q][l] = f],
             f.st = "none" => inbox[q][l].st = "none" \/ Reflected(q, l)
      PROVE  inbox'[p][k].st # "none" \/ Reflected(p, k)
  <2>1. CASE q = p /\ l = k
    BY <1>1, <2>1 DEF TypeOK
  <2>2. CASE q # p \/ l # k
    BY <1>1, <2>2 DEF TypeOK
  <2> QED BY <2>1, <2>2
<1>2. ASSUME NEW q \in Payments, NEW l \in EventKinds
      PROVE  LET e == inbox[q][l] IN
             /\ Store(e).st # "none"
             /\ [ManualEvent EXCEPT !.attempt = e.attempt].st = "manual"
             /\ [e EXCEPT !.live = FALSE].st = e.st
             /\ [e EXCEPT !.due = TRUE].st = e.st
             /\ \A w : [e EXCEPT !.token = w, !.live = TRUE, !.attempt = NextAttempt(e)].st = e.st
  BY InboxReadType DEF Events, Store, StoredEvent, ManualEvent, NoEvent
<1>3. ASSUME NEW q \in Payments, NEW l \in EventKinds,
             \/ DeliverWebhook(q, l) \/ DeliverConflicting(q, l) \/ EventLeaseExpires(q, l)
             \/ BackoffElapses(q, l) \/ ExpireOrphan(q, l)
             \/ \E w \in Workers : ClaimEvent(w, q, l)
             \/ \E w \in Workers : StoreEarly(w) /\ worker[w].p = q /\ worker[w].k = l
      PROVE  inbox'[p][k].st # "none" \/ Reflected(p, k)
  <2> DEFINE e == inbox[q][l]
  <2>1. \/ inbox' = [inbox EXCEPT ![q][l] = Store(e)]
        \/ inbox' = [inbox EXCEPT ![q][l] = [ManualEvent EXCEPT !.attempt = e.attempt]]
        \/ inbox' = [inbox EXCEPT ![q][l] = [e EXCEPT !.live = FALSE]]
        \/ inbox' = [inbox EXCEPT ![q][l] = [e EXCEPT !.due = TRUE]]
        \/ \E w \in Workers :
             inbox' = [inbox EXCEPT ![q][l] = [e EXCEPT !.token = w, !.live = TRUE,
                                                        !.attempt = NextAttempt(e)]]
    BY <1>3 DEF DeliverWebhook, DeliverConflicting, EventLeaseExpires, BackoffElapses,
       ExpireOrphan, ClaimEvent, StoreEarly
  <2>2. ASSUME NEW f, inbox' = [inbox EXCEPT ![q][l] = f], f.st = e.st
        PROVE  inbox'[p][k].st # "none" \/ Reflected(p, k)
    BY <1>1, <2>2
  <2>3. ASSUME NEW f, inbox' = [inbox EXCEPT ![q][l] = f], f.st # "none"
        PROVE  inbox'[p][k].st # "none" \/ Reflected(p, k)
    BY <1>1, <2>3
  <2>4. CASE inbox' = [inbox EXCEPT ![q][l] = Store(e)]
    BY <1>2, <2>3, <2>4
  <2>5. CASE inbox' = [inbox EXCEPT ![q][l] = [ManualEvent EXCEPT !.attempt = e.attempt]]
    BY <1>2, <2>3, <2>5
  <2>6. CASE inbox' = [inbox EXCEPT ![q][l] = [e EXCEPT !.live = FALSE]]
    BY <1>2, <2>2, <2>6
  <2>7. CASE inbox' = [inbox EXCEPT ![q][l] = [e EXCEPT !.due = TRUE]]
    BY <1>2, <2>2, <2>7
  <2>8. ASSUME NEW w \in Workers,
               inbox' = [inbox EXCEPT ![q][l] = [e EXCEPT !.token = w, !.live = TRUE,
                                                          !.attempt = NextAttempt(e)]]
        PROVE  inbox'[p][k].st # "none" \/ Reflected(p, k)
    <3>1. [e EXCEPT !.token = w, !.live = TRUE, !.attempt = NextAttempt(e)].st = e.st
      BY <1>2
    <3> QED BY <2>2, <2>8, <3>1
  <2> QED BY <2>1, <2>4, <2>5, <2>6, <2>7, <2>8
<1>4. ASSUME NEW w \in Workers, FinishEvent(w)
      PROVE  inbox'[p][k].st # "none" \/ Reflected(p, k)
  <2>1. PICK q \in Payments, l \in EventKinds : worker[w].p = q /\ worker[w].k = l
    BY <1>4 DEF FinishEvent, FenceInv, WorkInv, Outcomes
  <2> DEFINE e == inbox[q][l]
  <2>2. CASE inbox' = [inbox EXCEPT ![q][l] = FinishedEvent(e, w)]
    <3>1. FinishedEvent(e, w).st = "none" => e.st = "none" \/ worker[w].pc = "ok"
      BY InboxReadType DEF FinishedEvent, Events
    <3>2. worker[w].pc = "ok" => Reflected(q, l)
      BY <2>1 DEF FenceInv, WorkInv
    <3> QED BY <1>1, <2>2, <3>1, <3>2
  <2>3. CASE inbox' = inbox
    BY <2>3
  <2> QED BY <1>4, <2>1, <2>2, <2>3 DEF FinishEvent
<1>5. ASSUME NEW w \in Workers, WorkerStep(w)
      PROVE  inbox'[p][k].st # "none" \/ Reflected(p, k)
  <2>1. CASE StoreEarly(w)
    BY <1>3, <2>1 DEF StoreEarly, FenceInv, WorkInv
  <2>2. CASE FinishEvent(w)
    BY <1>4, <2>2
  <2>3. CASE ~StoreEarly(w) /\ ~FinishEvent(w)
    <3>1. inbox' = inbox
      BY <1>5, <2>3 DEF WorkerStep, RejectInvalid, DatabaseError, ApplyCompleted, ApplyCanceled,
         ApplyRefunded, FenceRefund, Reread, ExpireFulfillment, DeliverTest, DeliverOnPanel,
         DeliverRefused, PanelUnreachable, PersistSubscription, AssignReferralRewards,
         CompleteFulfillment, RecheckFulfillment, FenceFailure, ReleaseUnapplied
    <3> QED BY <3>1
  <2> QED BY <2>1, <2>2, <2>3
<1>6. ASSUME NEW q \in Payments,
             CreateTransaction(q) \/ CancelOld(q) \/ RecoverCanceled(q)
               \/ LeaseExpires(q) \/ ExpireFulfillments(q)
      PROVE  inbox' = inbox
  BY <1>6 DEF CreateTransaction, CancelOld, RecoverCanceled, LeaseExpires, ExpireFulfillments
<1>7. ASSUME NEW w \in Workers, NEW q \in Payments, NEW l \in EventKinds,
             StartOutsideInbox(w, q, l) \/ Crash(w)
      PROVE  inbox' = inbox
  BY <1>7 DEF StartOutsideInbox, Crash
<1> QED BY <1>3, <1>5, <1>6, <1>7, ConstantFacts
        DEF Next, StartTask, StartReplay, StartDirect, RetryFailedTransaction

(* A callback that is acknowledged in a step was stored by that step.      *)
LEMMA AckSteps ==
  ASSUME TypeOK, FenceInv, Next, NEW p \in Payments, NEW k \in EventKinds,
         <<p, k>> \in acked', <<p, k>> \notin acked
  PROVE  inbox'[p][k].st # "none"
<1>1. DeliverWebhook(p, k) \/ DeliverConflicting(p, k)
  <2>1. ASSUME NEW w \in Workers, WorkerStep(w) \/ Crash(w) PROVE acked' = acked
    BY <2>1 DEF Crash, WorkerStep, StoreEarly, RejectInvalid, DatabaseError, ApplyCompleted,
       ApplyCanceled, ApplyRefunded, FenceRefund, Reread, ExpireFulfillment, DeliverTest,
       DeliverOnPanel, DeliverRefused, PanelUnreachable, PersistSubscription,
       AssignReferralRewards, CompleteFulfillment, RecheckFulfillment, FenceFailure,
       ReleaseUnapplied, FinishEvent
  <2>2. ASSUME NEW q \in Payments,
               CreateTransaction(q) \/ CancelOld(q) \/ RecoverCanceled(q)
               \/ LeaseExpires(q) \/ ExpireFulfillments(q)
        PROVE  acked' = acked
    BY <2>2 DEF CreateTransaction, CancelOld, RecoverCanceled, LeaseExpires, ExpireFulfillments
  <2>3. ASSUME NEW q \in Payments, NEW l \in EventKinds,
               EventLeaseExpires(q, l) \/ BackoffElapses(q, l) \/ ExpireOrphan(q, l)
        PROVE  acked' = acked
    BY <2>3 DEF EventLeaseExpires, BackoffElapses, ExpireOrphan
  <2>4. ASSUME NEW w \in Workers, NEW q \in Payments, NEW l \in EventKinds,
               ClaimEvent(w, q, l) \/ StartOutsideInbox(w, q, l)
        PROVE  acked' = acked
    BY <2>4 DEF ClaimEvent, StartOutsideInbox
  <2>5. PICK q \in Payments, l \in EventKinds : DeliverWebhook(q, l) \/ DeliverConflicting(q, l)
    BY <2>1, <2>2, <2>3, <2>4, ConstantFacts
       DEF Next, StartTask, StartReplay, StartDirect, RetryFailedTransaction
  <2>6. acked' = acked \cup {<<q, l>>}
    BY <2>5 DEF DeliverWebhook, DeliverConflicting
  <2> QED BY <2>5, <2>6
<1>2. /\ Store(inbox[p][k]).st # "none"
      /\ [ManualEvent EXCEPT !.attempt = inbox[p][k].attempt].st = "manual"
  BY InboxReadType DEF Events, Store, StoredEvent, ManualEvent, NoEvent
<1>3. CASE DeliverWebhook(p, k)
  <2>1. inbox' = [inbox EXCEPT ![p][k] = Store(inbox[p][k])]
    BY <1>3 DEF DeliverWebhook
  <2> QED BY <1>2, <2>1 DEF TypeOK
<1>4. CASE DeliverConflicting(p, k)
  <2>1. inbox' = [inbox EXCEPT ![p][k] = [ManualEvent EXCEPT !.attempt = inbox[p][k].attempt]]
    BY <1>4 DEF DeliverConflicting
  <2> QED BY <1>2, <2>1 DEF TypeOK
<1> QED BY <1>1, <1>3, <1>4

(* Whatever crashes, races and replays happen, a callback the provider was *)
(* told is stored is in the inbox, parked, or its effect is in the row.    *)
THEOREM AcknowledgedKept == Spec => []NothingAcknowledgedIsLost
<1>1. Init => NothingAcknowledgedIsLost
  BY DEF Init, NothingAcknowledgedIsLost
<1>2. TypeOK /\ FenceInv /\ NothingAcknowledgedIsLost /\ [Next]_vars
        => NothingAcknowledgedIsLost'
  <2> SUFFICES ASSUME TypeOK, FenceInv, NothingAcknowledgedIsLost, [Next]_vars,
                      NEW p \in Payments, NEW k \in EventKinds, <<p, k>> \in acked'
               PROVE  inbox'[p][k].st # "none" \/ Reflected(p, k)'
    BY DEF NothingAcknowledgedIsLost
  <2>1. CASE UNCHANGED vars
    BY <2>1 DEF vars, NothingAcknowledgedIsLost, Reflected
  <2>2. CASE Next /\ <<p, k>> \notin acked
    BY <2>2, AckSteps
  <2>3. CASE Next /\ <<p, k>> \in acked
    BY <2>3, InboxSteps, ReflectedStable DEF NothingAcknowledgedIsLost
  <2> QED BY <2>1, <2>2, <2>3
<1> QED BY <1>1, <1>2, FenceInductive, PTL DEF Spec

-----------------------------------------------------------------------------
(***************************************************************************)
(* The refinement: what each guarded UPDATE means for the money and the    *)
(* delivery of PaymentPromise.                                             *)
(***************************************************************************)
LEMMA AbstractWrites ==
  ASSUME NEW r \in Rows, RowShape(r), NEW w \in Workers
  PROVE  /\ r.status = "ABSENT" =>
              /\ Money(r) = "none" /\ Money([r EXCEPT !.status = "PENDING"]) = "due"
              /\ Delivery([r EXCEPT !.status = "PENDING"]) = Delivery(r)
         /\ r.status = "PENDING" =>
              /\ Money(Canceled(r, "LOCAL_TIMEOUT")) = Money(r)
              /\ Delivery(Canceled(r, "LOCAL_TIMEOUT")) = Delivery(r)
         /\ Money([r EXCEPT !.lease = "EXPIRED"]) = Money(r)
              /\ Delivery([r EXCEPT !.lease = "EXPIRED"]) = Delivery(r)
         /\ ClaimMatches(r) =>
              /\ Money(r) = "due" /\ Money(Claimed(r, w)) = "received"
              /\ Delivery(Claimed(r, w)) = "doing"
         /\ r.status = "ABSENT" \/ CancelMatches(r) =>
              /\ Money(r) \in {"none", "due", "void"} /\ Money(Canceled(r, "PROVIDER")) = "void"
              /\ Delivery(Canceled(r, "PROVIDER")) = Delivery(r)
         /\ RefundMatches(r) =>
              /\ Money(r) \in {"due", "void", "received"} /\ Money(Refunded(r)) = "returned"
              /\ Delivery(Refunded(r)) = Delivery(r)
         /\ RefundFenceMatches(r) =>
              /\ Money(r) = "received" /\ Money(RefundFenced(r)) = "returned"
              /\ Delivery(RefundFenced(r)) = Delivery(r)
         /\ OwnsLiveFence(r, w) =>
              /\ Money(r) = "received" /\ Money(Succeeded(r)) = "received"
              /\ Delivery(r) = "doing" /\ Delivery(Succeeded(r)) = "done"
         /\ ExpireMatches(r) \/ FenceMatches(r, w) =>
              /\ Money(Fenced(r)) = Money(r)
              /\ Delivery(r) \in {"doing", "review"} /\ Delivery(Fenced(r)) = "review"
         /\ InFlight(r) /\ r.token = w =>
              Money(r) \in {"received", "returned"} /\ Delivery(r) \in {"doing", "review"}
<1> USE ConstantFacts DEF Rows, RowShape, RowAllowed, FulfillmentAllowed, Money, Delivery
<1>1. r.status = "ABSENT" =>
        /\ Money(r) = "none" /\ Money([r EXCEPT !.status = "PENDING"]) = "due"
        /\ Delivery([r EXCEPT !.status = "PENDING"]) = Delivery(r)
  BY DEF NewRow
<1>2. r.status = "PENDING" =>
        /\ Money(Canceled(r, "LOCAL_TIMEOUT")) = Money(r)
        /\ Delivery(Canceled(r, "LOCAL_TIMEOUT")) = Delivery(r)
  BY DEF Canceled
<1>3. /\ Money([r EXCEPT !.lease = "EXPIRED"]) = Money(r)
      /\ Delivery([r EXCEPT !.lease = "EXPIRED"]) = Delivery(r)
  OBVIOUS
<1>4. ClaimMatches(r) =>
        /\ Money(r) = "due" /\ Money(Claimed(r, w)) = "received"
        /\ Delivery(Claimed(r, w)) = "doing"
  BY DEF ClaimMatches, Claimed
<1>5. r.status = "ABSENT" \/ CancelMatches(r) =>
        /\ Money(r) \in {"none", "due", "void"} /\ Money(Canceled(r, "PROVIDER")) = "void"
        /\ Delivery(Canceled(r, "PROVIDER")) = Delivery(r)
  BY DEF CancelMatches, Canceled, NewRow
<1>6. RefundMatches(r) =>
        /\ Money(r) \in {"due", "void", "received"} /\ Money(Refunded(r)) = "returned"
        /\ Delivery(Refunded(r)) = Delivery(r)
  BY DEF RefundMatches, Refunded
<1>7. RefundFenceMatches(r) =>
        /\ Money(r) = "received" /\ Money(RefundFenced(r)) = "returned"
        /\ Delivery(RefundFenced(r)) = Delivery(r)
  BY DEF RefundFenceMatches, RefundFenced
<1>8. OwnsLiveFence(r, w) =>
        /\ Money(r) = "received" /\ Money(Succeeded(r)) = "received"
        /\ Delivery(r) = "doing" /\ Delivery(Succeeded(r)) = "done"
  BY DEF OwnsLiveFence, Succeeded
<1>9. ExpireMatches(r) \/ FenceMatches(r, w) =>
        /\ Money(Fenced(r)) = Money(r)
        /\ Delivery(r) \in {"doing", "review"} /\ Delivery(Fenced(r)) = "review"
  BY DEF ExpireMatches, FenceMatches, Fenced, InFlight
<1>10. InFlight(r) /\ r.token = w =>
         Money(r) \in {"received", "returned"} /\ Delivery(r) \in {"doing", "review"}
  BY DEF InFlight
<1> QED BY <1>1, <1>2, <1>3, <1>4, <1>5, <1>6, <1>7, <1>8, <1>9, <1>10

LEMMA InitRefines == Init => Promise!Init
<1> SUFFICES ASSUME Init PROVE Promise!Init
  OBVIOUS
<1>1. Money(NewRow) = "none" /\ Delivery(NewRow) = "no"
  BY DEF NewRow, Money, Delivery
<1>2. LegacyRow.status = "FAILED" /\ LegacyRow.ful = "MANUAL_REQUIRED"
  BY DEF LegacyRow, NewRow
<1>3. Money(LegacyRow) = "legacy" /\ Delivery(LegacyRow) = "review"
  BY <1>2 DEF Money, Delivery
<1>4. \A p \in Payments : effect[p].panel = 0
  BY DEF Init, NoEffect, Effect
<1> QED BY <1>1, <1>3, <1>4 DEF Init, Promise!Init

(* Every step is a step of the promise or leaves it alone.                 *)
LEMMA NextRefines ==
  ASSUME TypeOK, FenceInv, [Next]_vars
  PROVE  [Promise!Next]_(Promise!pvars)
<1> DEFINE money == [p \in Payments |-> Money(tx[p])]
           delivery == [p \in Payments |-> Delivery(tx[p])]
           applied == [p \in Payments |-> effect[p].panel]
<1>0. \A p \in Payments : tx[p] \in Rows /\ RowShape(tx[p])
  BY DEF TypeOK, FenceInv, RowInv
\* Steps that touch neither a row nor the panel.
<1>1. ASSUME tx' = tx, \A p \in Payments : effect'[p].panel = effect[p].panel
      PROVE  UNCHANGED Promise!pvars
  BY <1>1 DEF Promise!pvars
\* Steps that write one row.
<1>2. ASSUME NEW p \in Payments, NEW s, tx' = [tx EXCEPT ![p] = s], effect' = effect
      PROVE  /\ money' = [money EXCEPT ![p] = Money(s)]
             /\ delivery' = [delivery EXCEPT ![p] = Delivery(s)]
             /\ applied' = applied
  <2>1. tx'[p] = s /\ \A q \in Payments : q # p => tx'[q] = tx[q]
    BY <1>2 DEF TypeOK
  <2>2. money' = [q \in Payments |-> IF q = p THEN Money(s) ELSE Money(tx[q])]
    <3>1. \A q \in Payments : Money(tx[q])' = IF q = p THEN Money(s) ELSE Money(tx[q])
      <4>1. \A a, b : a = b => Money(a) = Money(b)
        OBVIOUS
      <4>2. \A q \in Payments : Money(tx[q])' = Money(tx'[q])
        BY DEF Money
      <4> QED BY <2>1, <4>1, <4>2
    <3> QED BY <3>1
  <2>3. delivery' = [q \in Payments |-> IF q = p THEN Delivery(s) ELSE Delivery(tx[q])]
    <3>1. \A q \in Payments : Delivery(tx[q])' = IF q = p THEN Delivery(s) ELSE Delivery(tx[q])
      <4>1. \A a, b : a = b => Delivery(a) = Delivery(b)
        OBVIOUS
      <4>2. \A q \in Payments : Delivery(tx[q])' = Delivery(tx'[q])
        BY DEF Delivery
      <4> QED BY <2>1, <4>1, <4>2
    <3> QED BY <3>1
  <2> QED BY <1>2, <2>2, <2>3
\* Which writes are steps of the promise.
<1>3. ASSUME NEW p \in Payments, NEW s, tx' = [tx EXCEPT ![p] = s], effect' = effect,
             LET m == Money(tx[p])  d == Delivery(tx[p]) IN
             \/ Money(s) = m /\ Delivery(s) = d
             \/ m = "none" /\ Money(s) = "due" /\ Delivery(s) = d
             \/ m \in {"none", "due"} /\ Money(s) = "void" /\ Delivery(s) = d
             \/ m = "due" /\ Money(s) = "received" /\ Delivery(s) = "doing"
             \/ Money(s) = m /\ d = "doing" /\ Delivery(s) = "review"
             \/ /\ m = "received" /\ Money(s) = m /\ d = "doing" /\ Delivery(s) = "done"
                /\ effect[p].panel = 1 \/ p \in TestPayments
             \/ m \in {"due", "void", "received"} /\ Money(s) = "returned" /\ Delivery(s) = d
      PROVE  [Promise!Next]_(Promise!pvars)
  <2>1. /\ money' = [money EXCEPT ![p] = Money(s)]
        /\ delivery' = [delivery EXCEPT ![p] = Delivery(s)]
        /\ applied' = applied
    BY <1>2, <1>3
  <2>2. /\ money[p] = Money(tx[p]) /\ delivery[p] = Delivery(tx[p])
        /\ applied[p] = effect[p].panel
        /\ Money(s) = money[p] => money' = money
        /\ Delivery(s) = delivery[p] => delivery' = delivery
    BY <2>1
  <2> HIDE DEF money, delivery, applied
  <2>3. \/ UNCHANGED <<money, delivery, applied>>
        \/ /\ money[p] = "none" /\ money' = [money EXCEPT ![p] = "due"]
           /\ UNCHANGED <<delivery, applied>>
        \/ /\ money[p] \in {"none", "due"} /\ money' = [money EXCEPT ![p] = "void"]
           /\ UNCHANGED <<delivery, applied>>
        \/ /\ money[p] = "due" /\ money' = [money EXCEPT ![p] = "received"]
           /\ delivery' = [delivery EXCEPT ![p] = "doing"] /\ UNCHANGED applied
        \/ /\ delivery[p] = "doing" /\ delivery' = [delivery EXCEPT ![p] = "review"]
           /\ UNCHANGED <<money, applied>>
        \/ /\ money[p] = "received" /\ delivery[p] = "doing"
           /\ applied[p] = 1 \/ p \in TestPayments
           /\ delivery' = [delivery EXCEPT ![p] = "done"] /\ UNCHANGED <<money, applied>>
        \/ /\ money[p] \in {"due", "void", "received"}
           /\ money' = [money EXCEPT ![p] = "returned"] /\ UNCHANGED <<delivery, applied>>
    BY <1>3, <2>1, <2>2
  <2> USE DEF money, delivery, applied
  <2> QED BY <2>3 DEF Promise!Next, Promise!pvars, Promise!Open, Promise!Void, Promise!Receive,
                      Promise!HandOver, Promise!Prove, Promise!Return
<1>4. ASSUME NEW p \in Payments,
             CreateTransaction(p) \/ CancelOld(p) \/ RecoverCanceled(p)
               \/ LeaseExpires(p) \/ ExpireFulfillments(p)
      PROVE  [Promise!Next]_(Promise!pvars)
  <2> DEFINE r == tx[p]
  <2>1. r \in Rows /\ RowShape(r)
    BY <1>0
  <2>2. CASE CreateTransaction(p)
    <3>1. /\ tx' = [tx EXCEPT ![p] = [r EXCEPT !.status = "PENDING"]]
          /\ r.status = "ABSENT" /\ effect' = effect
      BY <2>2 DEF CreateTransaction
    <3>2. /\ Money(r) = "none" /\ Money([r EXCEPT !.status = "PENDING"]) = "due"
          /\ Delivery([r EXCEPT !.status = "PENDING"]) = Delivery(r)
      BY <2>1, <3>1 DEF RowShape, NewRow, Money, Delivery
    <3> QED BY <1>3, <3>1, <3>2
  <2>3. CASE CancelOld(p)
    <3>1. /\ tx' = [tx EXCEPT ![p] = Canceled(r, "LOCAL_TIMEOUT")]
          /\ r.status = "PENDING" /\ effect' = effect
      BY <2>3 DEF CancelOld
    <3>2. /\ Money(Canceled(r, "LOCAL_TIMEOUT")) = Money(r)
          /\ Delivery(Canceled(r, "LOCAL_TIMEOUT")) = Delivery(r)
      BY <2>1, <3>1 DEF Rows, Canceled, Money, Delivery
    <3> QED BY <1>3, <3>1, <3>2
  <2>4. CASE LeaseExpires(p)
    <3>1. tx' = [tx EXCEPT ![p] = [r EXCEPT !.lease = "EXPIRED"]] /\ effect' = effect
      BY <2>4 DEF LeaseExpires
    <3>2. /\ Money([r EXCEPT !.lease = "EXPIRED"]) = Money(r)
          /\ Delivery([r EXCEPT !.lease = "EXPIRED"]) = Delivery(r)
      BY <2>1 DEF Rows, Money, Delivery
    <3> QED BY <1>3, <3>1, <3>2
  <2>5. CASE ExpireFulfillments(p)
    <3>1. tx' = [tx EXCEPT ![p] = Fenced(r)] /\ ExpireMatches(r) /\ effect' = effect
      BY <2>5 DEF ExpireFulfillments
    <3>2. /\ Money(Fenced(r)) = Money(r) /\ Delivery(r) = "doing" /\ Delivery(Fenced(r)) = "review"
      BY <2>1, <3>1 DEF Rows, ExpireMatches, Fenced, Money, Delivery
    <3> QED BY <1>3, <3>1, <3>2
  <2>6. CASE RecoverCanceled(p)
    <3>1. /\ tx' = [tx EXCEPT ![p] = Canceled(r, "PROVIDER")] /\ effect' = effect
          /\ r.status = "ABSENT" \/ CancelMatches(r)
      BY <2>6 DEF RecoverCanceled
    <3>2. /\ Money(r) \in {"none", "due", "void"} /\ Money(Canceled(r, "PROVIDER")) = "void"
          /\ Delivery(Canceled(r, "PROVIDER")) = Delivery(r)
      BY <2>1, <3>1 DEF Rows, RowShape, RowAllowed, FulfillmentAllowed, NewRow, CancelMatches, Canceled, Money, Delivery
    <3> QED BY <1>3, <3>1, <3>2
  <2> QED BY <1>4, <2>2, <2>3, <2>4, <2>5, <2>6
<1>5. ASSUME NEW w \in Workers, WorkerStep(w)
      PROVE  [Promise!Next]_(Promise!pvars)
  <2>1. CASE \/ ApplyCompleted(w) \/ ApplyCanceled(w) \/ ApplyRefunded(w) \/ FenceRefund(w)
             \/ ExpireFulfillment(w) \/ CompleteFulfillment(w) \/ RecheckFulfillment(w)
             \/ FenceFailure(w) \/ ReleaseUnapplied(w)
    <3>1. effect' = effect /\ worker[w].pc # "idle" /\ WorkInv(w)
      BY <2>1 DEF FenceInv, Applying, ApplyCompleted, ApplyCanceled, ApplyRefunded, FenceRefund,
         ExpireFulfillment, CompleteFulfillment, RecheckFulfillment, FenceFailure, ReleaseUnapplied
    <3>2. PICK p \in Payments : worker[w].p = p
      BY <3>1 DEF WorkInv
    <3> DEFINE r == tx[p]
    <3>3. \/ tx' = tx
          \/ ClaimMatches(r) /\ tx' = [tx EXCEPT ![p] = Claimed(r, w)]
          \/ CancelMatches(r) /\ tx' = [tx EXCEPT ![p] = Canceled(r, "PROVIDER")]
          \/ RefundMatches(r) /\ tx' = [tx EXCEPT ![p] = Refunded(r)]
          \/ RefundFenceMatches(r) /\ tx' = [tx EXCEPT ![p] = RefundFenced(r)]
          \/ /\ OwnsLiveFence(r, w) /\ tx' = [tx EXCEPT ![p] = Succeeded(r)]
             /\ worker[w].pc = "complete"
          \/ (ExpireMatches(r) \/ FenceMatches(r, w)) /\ tx' = [tx EXCEPT ![p] = Fenced(r)]
          \/ OwnsLiveFence(r, w) /\ RowAllowed(Released(r))
      BY <2>1, <3>2 DEF ApplyCompleted, ApplyCanceled, ApplyRefunded, FenceRefund,
         ExpireFulfillment, CompleteFulfillment, RecheckFulfillment, FenceFailure, ReleaseUnapplied
    <3>4. r \in Rows /\ RowShape(r)
      BY <1>0
    <3>5. CASE tx' = tx
      BY <1>1, <3>1, <3>5
    <3>6. CASE ClaimMatches(r) /\ tx' = [tx EXCEPT ![p] = Claimed(r, w)]
      <4>1. Money(r) = "due" /\ Money(Claimed(r, w)) = "received" /\ Delivery(Claimed(r, w)) = "doing"
        BY <3>4, <3>6, AbstractWrites
      <4> QED BY <1>3, <3>1, <3>6, <4>1
    <3>7. CASE CancelMatches(r) /\ tx' = [tx EXCEPT ![p] = Canceled(r, "PROVIDER")]
      <4>1. /\ Money(r) \in {"none", "due", "void"} /\ Money(Canceled(r, "PROVIDER")) = "void"
            /\ Delivery(Canceled(r, "PROVIDER")) = Delivery(r)
        BY <3>4, <3>7, AbstractWrites
      <4> QED BY <1>3, <3>1, <3>7, <4>1
    <3>8. CASE RefundMatches(r) /\ tx' = [tx EXCEPT ![p] = Refunded(r)]
      <4>1. /\ Money(r) \in {"due", "void", "received"} /\ Money(Refunded(r)) = "returned"
            /\ Delivery(Refunded(r)) = Delivery(r)
        BY <3>4, <3>8, AbstractWrites
      <4> QED BY <1>3, <3>1, <3>8, <4>1
    <3>9. CASE RefundFenceMatches(r) /\ tx' = [tx EXCEPT ![p] = RefundFenced(r)]
      <4>1. /\ Money(r) = "received" /\ Money(RefundFenced(r)) = "returned"
            /\ Delivery(RefundFenced(r)) = Delivery(r)
        BY <3>4, <3>9, AbstractWrites
      <4> QED BY <1>3, <3>1, <3>9, <4>1
    <3>10. CASE /\ OwnsLiveFence(r, w) /\ tx' = [tx EXCEPT ![p] = Succeeded(r)]
                /\ worker[w].pc = "complete"
      <4>1. p \in TestPayments \/ effect[p].panel = 1
        BY <3>1, <3>2, <3>10 DEF WorkInv, FullEffect, Effect
      <4>2. /\ Money(r) = "received" /\ Money(Succeeded(r)) = "received"
            /\ Delivery(r) = "doing" /\ Delivery(Succeeded(r)) = "done"
        BY <3>4, <3>10, AbstractWrites
      <4> QED BY <1>3, <3>1, <3>10, <4>1, <4>2
    <3>11. CASE (ExpireMatches(r) \/ FenceMatches(r, w)) /\ tx' = [tx EXCEPT ![p] = Fenced(r)]
      <4>1. /\ Money(Fenced(r)) = Money(r)
             /\ Delivery(r) \in {"doing", "review"} /\ Delivery(Fenced(r)) = "review"
        BY <3>4, <3>11, AbstractWrites
      <4> QED BY <1>3, <3>1, <3>11, <4>1
    <3>12. CASE OwnsLiveFence(r, w) /\ RowAllowed(Released(r))
      BY <3>4, <3>12, OwnerWrites
    <3> QED BY <3>3, <3>5, <3>6, <3>7, <3>8, <3>9, <3>10, <3>11, <3>12
  <2>2. CASE DeliverOnPanel(w)
    <3>1. PICK p \in Payments : worker[w].p = p
      BY <2>2 DEF DeliverOnPanel, FenceInv, WorkInv
    <3>2. /\ tx' = tx /\ effect' = [effect EXCEPT ![p].panel = @ + 1]
          /\ effect[p] = NoEffect /\ InFlight(tx[p]) /\ tx[p].token = w
      BY <2>2, <3>1 DEF DeliverOnPanel, FenceInv, WorkInv, OwnerSteps
    <3>3. Money(tx[p]) \in {"received", "returned"} /\ Delivery(tx[p]) \in {"doing", "review"}
      BY <1>0, <3>2, AbstractWrites
    <3>4. applied[p] = 0
      BY <3>2 DEF NoEffect, Effect
    <3>5. applied' = [applied EXCEPT ![p] = 1]
      <4>1. \A q \in Payments : effect'[q].panel = IF q = p THEN 1 ELSE effect[q].panel
        BY <3>2 DEF TypeOK, NoEffect, Effect, Effects
      <4> QED BY <4>1
    <3> QED BY <3>2, <3>3, <3>4, <3>5 DEF Promise!Next, Promise!Apply
  <2>3. CASE PersistSubscription(w) \/ AssignReferralRewards(w)
    <3>1. tx' = tx
      BY <2>3 DEF PersistSubscription, AssignReferralRewards
    <3>2. \A p \in Payments : effect'[p].panel = effect[p].panel
      <4>1. effect \in [Payments -> Effects]
        BY DEF TypeOK
      <4> QED BY <2>3, <4>1 DEF Effects, PersistSubscription, AssignReferralRewards
    <3> QED BY <1>1, <3>1, <3>2
  <2>4. CASE \/ StoreEarly(w) \/ RejectInvalid(w) \/ DatabaseError(w) \/ Reread(w)
             \/ DeliverTest(w) \/ DeliverRefused(w) \/ PanelUnreachable(w) \/ FinishEvent(w)
    BY <1>1, <2>4 DEF StoreEarly, RejectInvalid, DatabaseError, Reread, DeliverTest,
       DeliverRefused, PanelUnreachable, FinishEvent
  <2> QED BY <1>5, <2>1, <2>2, <2>3, <2>4 DEF WorkerStep
<1>6. ASSUME NEW p \in Payments, NEW k \in EventKinds,
             DeliverWebhook(p, k) \/ DeliverConflicting(p, k) \/ EventLeaseExpires(p, k)
               \/ BackoffElapses(p, k) \/ ExpireOrphan(p, k)
      PROVE  [Promise!Next]_(Promise!pvars)
  BY <1>1, <1>6 DEF DeliverWebhook, DeliverConflicting, EventLeaseExpires, BackoffElapses, ExpireOrphan
<1>7. ASSUME NEW w \in Workers, NEW p \in Payments, NEW k,
             ClaimEvent(w, p, k) \/ StartOutsideInbox(w, p, k)
      PROVE  [Promise!Next]_(Promise!pvars)
  BY <1>1, <1>7 DEF ClaimEvent, StartOutsideInbox
<1>8. ASSUME NEW w \in Workers, Crash(w)
      PROVE  [Promise!Next]_(Promise!pvars)
  BY <1>1, <1>8 DEF Crash
<1>9. CASE UNCHANGED vars
  BY <1>1, <1>9 DEF vars
<1> QED BY <1>4, <1>5, <1>6, <1>7, <1>8, <1>9
        DEF Next, StartTask, StartReplay, StartDirect, RetryFailedTransaction

(* The protocol implements PaymentPromise: each payment is due, received,  *)
(* void or returned and delivered at most once, whatever the workers do.   *)
THEOREM KeepsPromise == Spec => ImplementsPromise
<1>1. Init => Promise!Init
  BY InitRefines
<1>2. TypeOK /\ FenceInv /\ [Next]_vars => [Promise!Next]_(Promise!pvars)
  BY NextRefines
<1> QED BY <1>1, <1>2, FenceInductive, PTL DEF Spec, ImplementsPromise, Promise!Spec
=============================================================================
