-------------------------- MODULE PaymentOperation --------------------------
(***************************************************************************)
(* Idempotent payment creation: the `payment_operations' row of one        *)
(* Idempotency-Key, the HTTP requests that lead it across the provider     *)
(* boundary, and the reconciliation that recovers it when its outcome is   *)
(* unknown.                                                                *)
(*                                                                         *)
(* An execution is a POST /purchase or /extend request, or a POST          *)
(* /reconcile request.  A step of an execution is one database transaction *)
(* or one call to the provider.  The delivery of the purchase itself is    *)
(* the business of PaymentFulfillment; here the transactions row moves as  *)
(* PaymentPromise allows, and only the creation of the row, its            *)
(* cancellation by reconciliation and the notice of success are actions of *)
(* this module.                                                            *)
(***************************************************************************)
EXTENDS Naturals

CONSTANTS
  Keys,           \* <<user, operation, idempotency key>> identities
  Execs,          \* concurrent HTTP requests
  Bodies,         \* request bodies (their hashes)
  FreeKeys,       \* keys whose purchase costs nothing: recovery mode LOCAL
  ReplayKeys,     \* keys paid at YooKassa: recovery mode YOOKASSA_REPLAY
  MaxAttempts,    \* MAX_RECONCILIATION_ATTEMPTS
  MaxIds,         \* bound on the rows created for one key
  None            \* the SQL NULL of a token or hash, and the idle execution's key

ASSUME OperationAssumption ==
  /\ FreeKeys \subseteq Keys
  /\ ReplayKeys \subseteq Keys
  /\ FreeKeys \cap ReplayKeys = {}
  /\ MaxAttempts \in Nat \ {0}
  /\ MaxIds \in Nat
  /\ None \notin Keys \cup Execs \cup Bodies

VARIABLES
  op,         \* op[i]: the payment_operations row of key i
  exec,       \* exec[w]: what request w is doing
  invoice,    \* invoice[i]: the payment of key i at the provider
  charges,    \* charges[i]: payments the provider created for key i
  money,      \* money[i], delivery[i], applied[i]: the transactions row of
  delivery,   \*   the purchase, as PaymentPromise sees it
  applied,
  notified,   \* keys whose success was handed to PaymentFulfillment
  answered    \* <<i, b>>: a request of body b was answered 200 with a payment

purchase == <<money, delivery, applied>>
vars == <<op, exec, invoice, charges, money, delivery, applied, notified, answered>>

Promise == INSTANCE PaymentPromise WITH
  Payments <- Keys, LegacyPayments <- {}, Exempt <- {}

-----------------------------------------------------------------------------
(* Rows and executions.                                                    *)

Statuses == {"ABSENT", "CLAIMED", "PROCESSING", "SUCCEEDED", "UNKNOWN", "MANUAL_REQUIRED"}
Leases == {"NULL", "LIVE", "EXPIRED"}
\* provider_result_snapshot by its status; `pending' covers providers without one.
Results == {"NULL", "LOCAL", "pending", "succeeded", "canceled"}

\* `response' is set exactly when the status is SUCCEEDED.
Rows == [status  : Statuses,
         id      : 0 .. MaxIds,
         body    : Bodies \cup {None},
         lease   : Leases,
         linked  : {"no", "yes"},
         result  : Results,
         replay  : {"NULL", "OPEN", "OVER"},
         token   : Execs \cup {None},
         tlease  : Leases,
         due     : {"no", "yes"},
         attempt : 0 .. MaxAttempts]

LeaderSteps == {"validate", "call", "checkpoint", "create", "purchase", "complete", "fail"}
ReconcileSteps == {"linked", "local", "localtx", "replay", "recheck", "verify", "finish",
                   "retry", "manual"}

Requests == [pc   : {"idle"} \cup LeaderSteps \cup ReconcileSteps,
             key  : Keys \cup {None},
             id   : 0 .. MaxIds,
             body : Bodies \cup {None},
             seen : Results]

\* `key' is the row whose provider_key the provider still remembers, 0 if none.
Invoices == [status : {"NULL", "pending", "succeeded", "canceled"}, key : 0 .. MaxIds]

NoRow == [status |-> "ABSENT", id |-> 0, body |-> None, lease |-> "NULL", linked |-> "no",
          result |-> "NULL", replay |-> "NULL", token |-> None, tlease |-> "NULL",
          due |-> "yes", attempt |-> 0]
NewRow(id, b) == [NoRow EXCEPT !.status = "CLAIMED", !.id = id, !.body = b, !.lease = "LIVE"]
Idle == [pc |-> "idle", key |-> None, id |-> 0, body |-> None, seen |-> "NULL"]

Init ==
  /\ op = [i \in Keys |-> NoRow]
  /\ exec = [w \in Execs |-> Idle]
  /\ invoice = [i \in Keys |-> [status |-> "NULL", key |-> 0]]
  /\ charges = [i \in Keys |-> 0]
  /\ Promise!Init
  /\ notified = {}
  /\ answered = {}

Put(i, row) == op' = [op EXCEPT ![i] = row]
Goto(w, step) == exec' = [exec EXCEPT ![w].pc = step]
GotoSeeing(w, step, result) == exec' = [exec EXCEPT ![w].pc = step, ![w].seen = result]
End(w) == exec' = [exec EXCEPT ![w] = Idle]
Running(w, step) == exec[w].pc = step

-----------------------------------------------------------------------------
(* The request that leads an operation: start, CreatePayment, complete.    *)

\* PaymentIdempotencyService.start: a new key, or a CLAIMED one whose leader
\* let its lease run out.  Nothing stops that leader from carrying on.
Lead(w, i, b) ==
  exec' = [exec EXCEPT ![w] = [pc |-> "validate", key |-> i, id |-> op'[i].id, body |-> b,
                               seen |-> "NULL"]]

ClaimOperation(w, i, b) ==
  /\ Running(w, "idle")
  /\ op[i].status = "ABSENT"
  /\ op[i].id < MaxIds
  /\ Put(i, NewRow(op[i].id + 1, b))
  /\ Lead(w, i, b)
  /\ UNCHANGED <<invoice, charges, purchase, notified, answered>>

Claimable(row) == row.status = "CLAIMED" /\ row.lease = "EXPIRED"

ReclaimOperation(w, i, b) ==
  /\ Running(w, "idle")
  /\ op[i].body = b
  /\ Claimable(op[i])
  /\ Put(i, [op[i] EXCEPT !.lease = "LIVE"])
  /\ Lead(w, i, b)
  /\ UNCHANGED <<invoice, charges, purchase, notified, answered>>

Overdue(row) == row.status = "PROCESSING" /\ row.lease = "EXPIRED"
Unknown(row) == [row EXCEPT !.status = "UNKNOWN", !.lease = "NULL"]

\* A repeated request finds the leader's processing lease over, and answers 409.
ExpireProcessing(i) ==
  /\ Overdue(op[i])
  /\ Put(i, Unknown(op[i]))
  /\ UNCHANGED <<exec, invoice, charges, purchase, notified, answered>>

\* A repeated request of a settled operation gets the stored response.  Another
\* body under the same key is answered 409.
ReplayResponse(i, b) ==
  /\ op[i].status = "SUCCEEDED"
  /\ op[i].body = b
  /\ answered' = answered \cup {<<i, b>>}
  /\ UNCHANGED <<op, exec, invoice, charges, purchase, notified>>

\* The row an execution claimed may be deleted, and the key claimed anew.
SameRow(w) == op[exec[w].key].id = exec[w].id

\* The request is refused before any side effect: abandon deletes its claim.
\* Fault: whatever state the row is in.
DeletableAlways(w) == SameRow(w)
Deletable(w) == SameRow(w) /\ op[exec[w].key].status = "CLAIMED"

Gone(row) == [NoRow EXCEPT !.id = row.id]

Abandon(w) ==
  LET i == exec[w].key IN
  /\ Running(w, "validate")
  /\ IF Deletable(w) THEN Put(i, Gone(op[i])) ELSE UNCHANGED op
  /\ End(w)
  /\ UNCHANGED <<invoice, charges, purchase, notified, answered>>

\* side_effect_started is set, but the gateway or its request cannot be built.
PrepareFails(w) ==
  /\ Running(w, "validate")
  /\ Goto(w, "fail")
  /\ UNCHANGED <<op, invoice, charges, purchase, notified, answered>>

\* Fault: a leader of a claim that was taken over may start processing too.
StartableAgain(w) == SameRow(w) /\ op[exec[w].key].status \in {"CLAIMED", "PROCESSING"}
Startable(w) == SameRow(w) /\ op[exec[w].key].status = "CLAIMED"

MarkProcessing(w) ==
  LET i == exec[w].key IN
  /\ Running(w, "validate")
  /\ IF Startable(w)
       THEN /\ Put(i, [op[i] EXCEPT !.status = "PROCESSING", !.lease = "LIVE",
                                    !.replay = IF i \in ReplayKeys THEN "OPEN" ELSE "NULL"])
            /\ IF i \in FreeKeys THEN GotoSeeing(w, "checkpoint", "LOCAL") ELSE Goto(w, "call")
       ELSE UNCHANGED op /\ Goto(w, "fail")
  /\ UNCHANGED <<invoice, charges, purchase, notified, answered>>

\* YooKassa answers a repeated provider_key with the payment it created first.
Charge(i, id) ==
  IF i \in ReplayKeys /\ invoice[i].key = id
    THEN UNCHANGED <<invoice, charges>>
    ELSE /\ \E s \in IF i \in ReplayKeys THEN {"pending", "succeeded", "canceled"}
                                         ELSE {"pending"} :
              invoice' = [invoice EXCEPT ![i] = [status |-> s, key |-> id]]
         /\ charges' = [charges EXCEPT ![i] = @ + 1]

\* Only YooKassa reports a status with its payment.
Reported(i, status) == IF i \in ReplayKeys THEN status ELSE "pending"

\* The call may fail before or after the provider acted on it.
CallProvider(w) ==
  LET i == exec[w].key IN
  /\ Running(w, "call")
  /\ \/ /\ Charge(i, exec[w].id)
        /\ GotoSeeing(w, "checkpoint", Reported(i, invoice'[i].status)) \/ Goto(w, "fail")
     \/ UNCHANGED <<invoice, charges>> /\ Goto(w, "fail")
  /\ UNCHANGED <<op, purchase, notified, answered>>

Processing(w) == SameRow(w) /\ op[exec[w].key].status = "PROCESSING"

Checkpoint(w) ==
  LET i == exec[w].key  r == op[exec[w].key]  seen == exec[w].seen IN
  /\ Running(w, "checkpoint")
  /\ IF Processing(w) /\ r.result \in {"NULL", seen}
       THEN /\ Put(i, [r EXCEPT !.result = seen])
            /\ Goto(w, IF seen \in {"succeeded", "canceled"} THEN "fail" ELSE "create")
       ELSE UNCHANGED op /\ Goto(w, "fail")
  /\ UNCHANGED <<invoice, charges, purchase, notified, answered>>

Succeeded(row) == [row EXCEPT !.status = "SUCCEEDED", !.linked = "yes", !.lease = "NULL",
                              !.token = None, !.tlease = "NULL"]
Answer(w) == answered' = answered \cup {<<exec[w].key, exec[w].body>>}

\* One database transaction: insert the row, link it and, if it costs
\* something, store the response.  It fails as a whole.
CreateTransaction(w) ==
  LET i == exec[w].key IN
  /\ Running(w, "create")
  /\ IF money[i] = "none" /\ Processing(w)
       THEN /\ Promise!Open(i)
            /\ IF i \in FreeKeys
                 THEN /\ Put(i, [op[i] EXCEPT !.linked = "yes"])
                      /\ Goto(w, "purchase")
                      /\ UNCHANGED answered
                 ELSE Put(i, Succeeded(op[i])) /\ End(w) /\ Answer(w)
       ELSE UNCHANGED <<op, purchase, answered>> /\ Goto(w, "fail")
  /\ UNCHANGED <<invoice, charges, notified>>

\* A free purchase is processed within the request; ProcessPayment also returns
\* when another execution is already at it.
Purchase(w) ==
  /\ Running(w, "purchase")
  /\ notified' = notified \cup {exec[w].key}
  /\ Goto(w, "complete") \/ Goto(w, "fail")
  /\ UNCHANGED <<op, invoice, charges, purchase, answered>>

\* Fault: the response is stored although the delivery has not been proved.
CompletableUnproved(w) == Processing(w) /\ op[exec[w].key].linked = "yes"
\* The other disjunct of `complete', SUCCEEDED with this very response, matches
\* no row: a recovered response has another shape.
Completable(w) ==
  Processing(w) /\ op[exec[w].key].linked = "yes" /\ delivery[exec[w].key] = "done"

CompleteFree(w) ==
  LET i == exec[w].key IN
  /\ Running(w, "complete")
  /\ IF Completable(w)
       THEN Put(i, Succeeded(op[i])) /\ End(w) /\ Answer(w)
       ELSE UNCHANGED <<op, answered>> /\ Goto(w, "fail")
  /\ UNCHANGED <<invoice, charges, purchase, notified>>

\* mark_unknown has no owner: the failing request may not be the one processing.
Fail(w) ==
  LET i == exec[w].key IN
  /\ Running(w, "fail")
  /\ IF Processing(w) THEN Put(i, Unknown(op[i])) ELSE UNCHANGED op
  /\ End(w)
  /\ UNCHANGED <<invoice, charges, purchase, notified, answered>>

-----------------------------------------------------------------------------
(* Reconciliation.                                                         *)

DeleteExpiredClaim(i) ==
  /\ Claimable(op[i])
  /\ Put(i, Gone(op[i]))
  /\ UNCHANGED <<exec, invoice, charges, purchase, notified, answered>>

\* Fault: an operation whose leader died is left to it.
RecoverableUnknown(row) == row.status = "UNKNOWN"
\* An overdue operation becomes UNKNOWN in the transaction that claims it.
Recoverable(row) == row.status = "UNKNOWN" \/ Overdue(row)

\* Fault: a replay is attempted although the provider may have forgotten the key.
LastChanceGoneOnRetries(row) == row.token = None /\ row.attempt >= MaxAttempts
\* Fault: attempts are not counted.
LastChanceGoneOnReplay(row) == row.token = None /\ row.result = "NULL" /\ row.replay = "OVER"
LastChanceGone(row) ==
  /\ row.token = None
  /\ \/ row.result = "NULL" /\ row.replay = "OVER"
     \/ row.attempt >= MaxAttempts

Manual(row) == [row EXCEPT !.status = "MANUAL_REQUIRED", !.due = "yes"]

GiveUpReconciliation(i) ==
  /\ Recoverable(op[i])
  /\ LastChanceGone(op[i])
  /\ Put(i, Manual(Unknown(op[i])))
  /\ UNCHANGED <<exec, invoice, charges, purchase, notified, answered>>

RecoveryStep(i, row) ==
  CASE row.linked = "yes" -> "linked"
    [] row.linked = "no" /\ i \in FreeKeys /\ row.result = "NULL" -> "local"
    [] row.linked = "no" /\ i \in FreeKeys /\ row.result # "NULL" -> "localtx"
    [] row.linked = "no" /\ i \notin FreeKeys /\ row.result # "NULL" -> "verify"
    [] row.linked = "no" /\ i \in ReplayKeys /\ row.result = "NULL" -> "replay"
    [] OTHER -> "manual"

ClaimReconciliation(w, i) ==
  /\ Running(w, "idle")
  /\ Recoverable(op[i])
  /\ ~LastChanceGone(op[i])
  /\ op[i].token = None
  /\ op[i].due = "yes"
  /\ Put(i, [Unknown(op[i]) EXCEPT !.token = w, !.tlease = "LIVE", !.attempt = @ + 1])
  /\ exec' = [exec EXCEPT ![w] = [pc |-> RecoveryStep(i, op[i]), key |-> i, id |-> op[i].id,
                                  body |-> None, seen |-> op[i].result]]
  /\ UNCHANGED <<invoice, charges, purchase, notified, answered>>

\* Fault: an execution whose lease is over may still write the row.
HoldsExpired(w) == op[exec[w].key].token = w
Holds(w) == op[exec[w].key].token = w /\ op[exec[w].key].tlease = "LIVE"

Released(row) == [row EXCEPT !.token = None, !.tlease = "NULL", !.due = "no"]

\* An InvalidPaymentRecoverySnapshotError (a changed gateway, owner or
\* snapshot), and a temporary failure of a database or provider call.
ReconcileFails(w) ==
  /\ exec[w].pc \in ReconcileSteps \ {"retry", "manual"}
  /\ Goto(w, "manual") \/ Goto(w, "retry")
  /\ UNCHANGED <<op, invoice, charges, purchase, notified, answered>>

\* Fault: only the operation is completed.
QueueNothing(i) == notified' = notified
\* A success seen at the provider is handed to fulfillment unless it is known there.
QueueSuccess(i) ==
  notified' = IF money[i] \in {"none", "due"} THEN notified \cup {i} ELSE notified

Settle(w) ==
  Put(exec[w].key, Succeeded([op[exec[w].key] EXCEPT !.due = "yes"])) /\ End(w)

\* _complete_linked: wait for the proof of delivery, and have the purchase
\* delivered if nobody began.  Only a free purchase is linked before its
\* response is stored (LinkedEarlyIsFree), so the branch that needs no proof
\* is never taken.
CompleteLinked(w) ==
  LET i == exec[w].key IN
  /\ Running(w, "linked")
  /\ \/ /\ delivery[i] = "done"
        /\ IF Holds(w) THEN Settle(w) ELSE UNCHANGED op /\ Goto(w, "retry")
        /\ UNCHANGED notified
     \/ /\ delivery[i] = "review"
        /\ Goto(w, "manual")
        /\ UNCHANGED <<op, notified>>
     \/ /\ delivery[i] = "doing"
        /\ Goto(w, "retry")
        /\ UNCHANGED <<op, notified>>
     \/ /\ delivery[i] = "no"
        /\ notified' = IF op[i].token = w THEN notified \cup {i} ELSE notified
        /\ Goto(w, "retry")
        /\ UNCHANGED op
  /\ UNCHANGED <<invoice, charges, purchase, answered>>

CheckpointLocal(w) ==
  LET i == exec[w].key IN
  /\ Running(w, "local")
  /\ IF Holds(w)
       THEN Put(i, [op[i] EXCEPT !.result = "LOCAL"]) /\ Goto(w, "localtx")
       ELSE UNCHANGED op /\ Goto(w, "retry")
  /\ UNCHANGED <<invoice, charges, purchase, notified, answered>>

\* _create_local_transaction_for_fulfillment.
CreateLocalTransaction(w) ==
  LET i == exec[w].key IN
  /\ Running(w, "localtx")
  /\ IF Holds(w)
       THEN /\ IF money[i] = "none" THEN Promise!Open(i) ELSE UNCHANGED purchase
            /\ notified' = notified \cup {i}
            /\ Put(i, [Released(op[i]) EXCEPT !.linked = "yes"])
            /\ End(w)
       ELSE UNCHANGED <<op, purchase, notified>> /\ Goto(w, "retry")
  /\ UNCHANGED <<invoice, charges, answered>>

ReplayAtProvider(w) ==
  LET i == exec[w].key IN
  /\ Running(w, "replay")
  /\ Charge(i, exec[w].id)
  /\ GotoSeeing(w, "recheck", Reported(i, invoice'[i].status)) \/ Goto(w, "retry")
  /\ UNCHANGED <<op, purchase, notified, answered>>

CheckpointReplay(w) ==
  LET i == exec[w].key  r == op[exec[w].key]  seen == exec[w].seen IN
  /\ Running(w, "recheck")
  /\ IF Holds(w) /\ r.result \in {"NULL", seen}
       THEN Put(i, [r EXCEPT !.result = seen]) /\ Goto(w, "verify")
       ELSE UNCHANGED op /\ Goto(w, "retry")
  /\ UNCHANGED <<invoice, charges, purchase, notified, answered>>

\* YooKassa is asked for the current status; other results are taken as stored.
VerifyResult(w) ==
  LET i == exec[w].key IN
  /\ Running(w, "verify")
  /\ GotoSeeing(w, "finish", IF i \in ReplayKeys THEN invoice[i].status ELSE exec[w].seen)
  /\ UNCHANGED <<op, invoice, charges, purchase, notified, answered>>

\* _complete_with_result, in one database transaction.
CompleteWithResult(w) ==
  LET i == exec[w].key  seen == exec[w].seen  m == money[exec[w].key] IN
  /\ Running(w, "finish")
  /\ IF (seen = "canceled" /\ m \in {"received", "returned"}) \/ (seen = "succeeded" /\ m = "void")
       THEN UNCHANGED <<op, purchase, notified>> /\ Goto(w, "manual")
       ELSE IF Holds(w)
              THEN /\ Put(i, Succeeded([op[i] EXCEPT !.result = seen, !.due = "yes"])) /\ End(w)
                   /\ IF seen = "canceled" /\ m # "void" THEN Promise!Void(i)
                      ELSE IF m = "none" THEN Promise!Open(i) ELSE UNCHANGED purchase
                   /\ IF seen = "succeeded" THEN QueueSuccess(i) ELSE UNCHANGED notified
              ELSE UNCHANGED <<op, purchase, notified>> /\ Goto(w, "retry")
  /\ UNCHANGED <<invoice, charges, answered>>

\* The except branches: release with a backoff, or manual once attempts ran out.
RetryLater(w) ==
  LET i == exec[w].key IN
  /\ Running(w, "retry")
  /\ IF ~Holds(w) THEN UNCHANGED op
     ELSE Put(i, IF op[i].attempt >= MaxAttempts
                   THEN Manual([op[i] EXCEPT !.token = None, !.tlease = "NULL"])
                   ELSE Released(op[i]))
  /\ End(w)
  /\ UNCHANGED <<invoice, charges, purchase, notified, answered>>

HandToOperator(w) ==
  LET i == exec[w].key IN
  /\ Running(w, "manual")
  /\ IF Holds(w) THEN Put(i, Manual([op[i] EXCEPT !.token = None, !.tlease = "NULL"]))
                 ELSE UNCHANGED op
  /\ End(w)
  /\ UNCHANGED <<invoice, charges, purchase, notified, answered>>

\* sweep_payment_operation_alerts_task: the token stays, as an owner freeze.
ExpireReconciliation(i) ==
  /\ op[i].status = "UNKNOWN"
  /\ op[i].tlease = "EXPIRED"
  /\ Put(i, Manual(op[i]))
  /\ UNCHANGED <<exec, invoice, charges, purchase, notified, answered>>

-----------------------------------------------------------------------------
(* Crashes, the clock, the provider and fulfillment.                       *)

\* The process dies, or the statement that records the failure fails.
Crash(w) ==
  /\ ~Running(w, "idle")
  /\ End(w)
  /\ UNCHANGED <<op, invoice, charges, purchase, notified, answered>>

LeaseExpires(i) ==
  /\ op[i].lease = "LIVE"
  /\ Put(i, [op[i] EXCEPT !.lease = "EXPIRED"])
  /\ UNCHANGED <<exec, invoice, charges, purchase, notified, answered>>

ReconciliationLeaseExpires(i) ==
  /\ op[i].tlease = "LIVE"
  /\ Put(i, [op[i] EXCEPT !.tlease = "EXPIRED"])
  /\ UNCHANGED <<exec, invoice, charges, purchase, notified, answered>>

BackoffElapses(i) ==
  /\ op[i].due = "no"
  /\ Put(i, [op[i] EXCEPT !.due = "yes"])
  /\ UNCHANGED <<exec, invoice, charges, purchase, notified, answered>>

\* 23 hours after mark_processing.
ReplayWindowEnds(i) ==
  /\ op[i].replay = "OPEN"
  /\ Put(i, [op[i] EXCEPT !.replay = "OVER"])
  /\ UNCHANGED <<exec, invoice, charges, purchase, notified, answered>>

\* 24 hours after the call.  A call begun within the window ends within the hour.
ProviderForgets(i) ==
  /\ op[i].replay = "OVER"
  /\ invoice[i].key # 0
  /\ \A w \in Execs : exec[w].key = i => exec[w].pc \notin {"call", "replay"}
  /\ invoice' = [invoice EXCEPT ![i].key = 0]
  /\ UNCHANGED <<op, exec, charges, purchase, notified, answered>>

InvoiceEnds(i) ==
  /\ invoice[i].status = "pending"
  /\ \E s \in {"succeeded", "canceled"} : invoice' = [invoice EXCEPT ![i].status = s]
  /\ UNCHANGED <<op, exec, charges, purchase, notified, answered>>

\* PaymentFulfillment, which acts on callbacks of the provider and on notices.
Fulfill(i) ==
  /\ \/ (i \in notified \/ invoice[i].status = "succeeded") /\ Promise!Receive(i)
     \/ invoice[i].status = "canceled" /\ money[i] # "none" /\ Promise!Void(i)
     \/ invoice[i].status = "succeeded" /\ Promise!Return(i)
     \/ Promise!Apply(i) \/ Promise!Prove(i) \/ Promise!HandOver(i)
  /\ UNCHANGED <<op, exec, invoice, charges, notified, answered>>

-----------------------------------------------------------------------------
ExecStep(w) ==
  \/ Abandon(w) \/ PrepareFails(w) \/ MarkProcessing(w) \/ CallProvider(w) \/ Checkpoint(w)
  \/ CreateTransaction(w) \/ Purchase(w) \/ CompleteFree(w) \/ Fail(w)
  \/ ReconcileFails(w) \/ CompleteLinked(w)
  \/ CheckpointLocal(w) \/ CreateLocalTransaction(w)
  \/ ReplayAtProvider(w) \/ CheckpointReplay(w) \/ VerifyResult(w) \/ CompleteWithResult(w)
  \/ RetryLater(w) \/ HandToOperator(w)

Next ==
  \/ \E w \in Execs : ExecStep(w) \/ Crash(w)
  \/ \E i \in Keys :
       \/ \E w \in Execs, b \in Bodies : ClaimOperation(w, i, b) \/ ReclaimOperation(w, i, b)
       \/ \E b \in Bodies : ReplayResponse(i, b)
       \/ \E w \in Execs : ClaimReconciliation(w, i)
       \/ ExpireProcessing(i) \/ DeleteExpiredClaim(i) \/ GiveUpReconciliation(i)
       \/ ExpireReconciliation(i)
       \/ LeaseExpires(i) \/ ReconciliationLeaseExpires(i) \/ BackoffElapses(i)
       \/ ReplayWindowEnds(i) \/ ProviderForgets(i) \/ InvoiceEnds(i) \/ Fulfill(i)

Spec == Init /\ [][Next]_vars

(* Requests run until they end or crash, leases and backoffs run out, the  *)
(* sweep runs every minute.  Reconciliation has no schedule of its own:    *)
(* the client, told to retry, is assumed to keep asking (strongly fair, for *)
(* the model's few executions may all be busy with other keys).            *)
Fairness ==
  /\ \A w \in Execs : WF_vars(ExecStep(w))
  /\ \A i \in Keys :
       /\ WF_vars(LeaseExpires(i))
       /\ WF_vars(ReconciliationLeaseExpires(i))
       /\ WF_vars(BackoffElapses(i))
       /\ WF_vars(ExpireReconciliation(i))
       /\ WF_vars(GiveUpReconciliation(i))
       /\ SF_vars(\E w \in Execs : ClaimReconciliation(w, i))

FairSpec == Spec /\ Fairness

-----------------------------------------------------------------------------
(* Properties.                                                             *)

\* Type invariant: every column and program counter has a value the code gives it.
TypeOK ==
  /\ op \in [Keys -> Rows]
  /\ exec \in [Execs -> Requests]
  /\ \A w \in Execs : /\ exec[w].pc # "idle" => exec[w].key # None
                      /\ exec[w].pc \in LeaderSteps => exec[w].body # None
  /\ invoice \in [Keys -> Invoices]
  /\ charges \in [Keys -> Nat]
  /\ money \in [Keys -> {"none", "due", "received", "void", "returned"}]
  /\ delivery \in [Keys -> {"no", "doing", "review", "done"}]
  /\ notified \subseteq Keys
  /\ answered \subseteq Keys \X Bodies

\* However requests of one key, takeovers of expired claims, deletions and
\* replays interleave, the provider creates at most one payment for the key.
OnePaymentPerKey == \A i \in Keys : charges[i] <= 1

\* A client that was told 200 with a payment finds the same operation, with the
\* same body and an existing transaction, whenever it asks again.
AnsweredIsDurable ==
  \A a \in answered :
    /\ op[a[1]].status = "SUCCEEDED"
    /\ op[a[1]].body = a[2]
    /\ money[a[1]] # "none"

\* A stored response stands on evidence: a transaction exists, a paid operation
\* was charged at the provider, a free one has been delivered.
SucceededIsProof ==
  \A i \in Keys : op[i].status = "SUCCEEDED" =>
    /\ op[i].linked = "yes"
    /\ money[i] # "none"
    /\ IF i \in FreeKeys THEN delivery[i] = "done" ELSE charges[i] = 1

\* Reconciliation that learnt of a success leaves no paid transaction waiting
\* for a callback: it is handed to fulfillment or fulfillment already has it.
SuccessIsQueued ==
  \A i \in Keys :
    op[i].status = "SUCCEEDED" /\ op[i].result = "succeeded" =>
      i \in notified \/ money[i] # "due"

\* A transaction linked to an operation without a response is a free one.
LinkedEarlyIsFree ==
  \A i \in Keys : op[i].linked = "yes" /\ op[i].status # "SUCCEEDED" => i \in FreeKeys

Settled(i) == op[i].status \in {"SUCCEEDED", "MANUAL_REQUIRED"}

\* What operators rely on when they take over: no request, however late, moves
\* a settled row, rewrites what it recorded or clears the token that froze it.
SettledIsFinal ==
  [][\A i \in Keys : Settled(i) =>
       /\ op'[i].status = op[i].status
       /\ op'[i].id = op[i].id
       /\ op'[i].body = op[i].body
       /\ op'[i].linked = op[i].linked
       /\ op'[i].result = op[i].result
       /\ op'[i].token = op[i].token]_vars

\* PaymentReconciliationService._view: the state a GET of the operation shows.
View(i) ==
  LET free == i \in FreeKeys  row == op[i] IN
  CASE row.status = "ABSENT" -> "NOT_FOUND"
    [] row.status \in {"CLAIMED", "PROCESSING"} -> "IN_PROGRESS"
    [] row.status = "MANUAL_REQUIRED" -> "MANUAL_REQUIRED"
    [] row.status = "SUCCEEDED" ->
         IF ~free \/ delivery[i] = "done" THEN "SUCCEEDED"
         ELSE IF delivery[i] = "doing" THEN "IN_PROGRESS" ELSE "MANUAL_REQUIRED"
    [] row.status = "UNKNOWN" ->
         IF row.linked = "yes" /\ free /\ delivery[i] = "review" THEN "MANUAL_REQUIRED"
         ELSE IF row.linked = "yes" /\ free /\ delivery[i] \in {"no", "doing"}
                THEN "IN_PROGRESS" ELSE "UNKNOWN"

\* The states a client stops polling at, SUCCEEDED and MANUAL_REQUIRED, are
\* never taken back.
FinalViewsStay ==
  [][\A i \in Keys : View(i) \in {"SUCCEEDED", "MANUAL_REQUIRED"} => View(i)' = View(i)]_vars

Phase(i) ==
  CASE op[i].status = "ABSENT" -> "new"
    [] op[i].status = "SUCCEEDED" -> "settled"
    [] op[i].status = "MANUAL_REQUIRED" -> "review"
    [] OTHER -> "open"

Once == INSTANCE PaymentOnce WITH
  phase <- [i \in Keys |-> Phase(i)], Exempt <- FreeKeys

\* The operation implements the promise of an Idempotency-Key.
ImplementsOnce == Once!Spec

\* An operation that crossed the side-effect boundary does not stay ambiguous:
\* it ends with a stored response or with an operator.
EveryOperationSettles ==
  \A i \in Keys : op[i].status \in {"PROCESSING", "UNKNOWN"} ~> Settled(i)
=============================================================================
