----------------------- MODULE PaymentOperationProofs -----------------------
(***************************************************************************)
(* Theorems about PaymentOperation, for any number of keys, requests and   *)
(* bodies: types, one payment per key, what a stored or given answer       *)
(* proves, the finality of settled rows, and the promise of PaymentOnce.   *)
(***************************************************************************)
EXTENDS PaymentOperation, TLAPS

(***************************************************************************)
(* Types.                                                                  *)
(***************************************************************************)

\* One column at a time.
LEMMA ColumnTypes ==
  ASSUME NEW r \in Rows
  PROVE  /\ \A x \in 0 .. MaxIds : [r EXCEPT !.id = x] \in Rows
         /\ r.id \in 0 .. MaxIds
         /\ \A x \in Statuses : [r EXCEPT !.status = x] \in Rows
         /\ \A x \in Leases : [r EXCEPT !.lease = x] \in Rows /\ [r EXCEPT !.tlease = x] \in Rows
         /\ \A x \in Results : [r EXCEPT !.result = x] \in Rows
         /\ \A x \in {"no", "yes"} : [r EXCEPT !.linked = x] \in Rows /\ [r EXCEPT !.due = x] \in Rows
         /\ \A x \in {"NULL", "OPEN", "OVER"} : [r EXCEPT !.replay = x] \in Rows
         /\ \A x \in Execs \cup {None} : [r EXCEPT !.token = x] \in Rows
BY DEF Rows

\* The rows the code inserts.
LEMMA NewRowTypes ==
  /\ NoRow \in Rows
  /\ \A b \in Bodies, n \in 0 .. MaxIds : NewRow(n, b) \in Rows
<1>1. NoRow \in Rows
  BY OperationAssumption DEF Rows, Statuses, Leases, Results, NoRow
<1>2. ASSUME NEW b \in Bodies, NEW n \in 0 .. MaxIds PROVE NewRow(n, b) \in Rows
  BY <1>1 DEF NewRow, Rows, Statuses, Leases
<1> QED BY <1>1, <1>2

\* What the updates of a row return.
LEMMA RowTypes ==
  ASSUME NEW r \in Rows
  PROVE  /\ Unknown(r) \in Rows /\ Manual(r) \in Rows /\ Gone(r) \in Rows
         /\ Released(r) \in Rows /\ Succeeded(r) \in Rows
         /\ [r EXCEPT !.token = None, !.tlease = "NULL"] \in Rows
         /\ \A x \in Results : [r EXCEPT !.result = x, !.due = "yes"] \in Rows
         /\ \A x \in {"OPEN", "NULL"} :
              [r EXCEPT !.status = "PROCESSING", !.lease = "LIVE", !.replay = x] \in Rows
<1> USE ColumnTypes DEF Statuses, Leases, Results
<1>1. Unknown(r) \in Rows
  <2>1. [r EXCEPT !.status = "UNKNOWN"] \in Rows
    OBVIOUS
  <2> QED BY <2>1 DEF Unknown
<1>2. Manual(r) \in Rows
  <2>1. [r EXCEPT !.status = "MANUAL_REQUIRED"] \in Rows
    OBVIOUS
  <2> QED BY <2>1 DEF Manual
<1>3. Gone(r) \in Rows
  <2>1. NoRow \in Rows
    BY NewRowTypes
  <2> QED BY <2>1, ColumnTypes DEF Gone
<1>4. Released(r) \in Rows
  <2>1. [r EXCEPT !.token = None] \in Rows
    OBVIOUS
  <2>2. [r EXCEPT !.token = None, !.tlease = "NULL"] \in Rows
    BY <2>1
  <2> QED BY <2>2 DEF Released
<1>5. Succeeded(r) \in Rows
  <2>1. [r EXCEPT !.status = "SUCCEEDED"] \in Rows
    OBVIOUS
  <2>2. [r EXCEPT !.status = "SUCCEEDED", !.linked = "yes"] \in Rows
    BY <2>1
  <2>3. [r EXCEPT !.status = "SUCCEEDED", !.linked = "yes", !.lease = "NULL"] \in Rows
    BY <2>2
  <2>4. [r EXCEPT !.status = "SUCCEEDED", !.linked = "yes", !.lease = "NULL", !.token = None] \in Rows
    BY <2>3
  <2> QED BY <2>4 DEF Succeeded
<1>6. [r EXCEPT !.token = None, !.tlease = "NULL"] \in Rows
  <2>1. [r EXCEPT !.token = None] \in Rows
    OBVIOUS
  <2> QED BY <2>1
<1>7. ASSUME NEW x \in Results PROVE [r EXCEPT !.result = x, !.due = "yes"] \in Rows
  <2>1. [r EXCEPT !.result = x] \in Rows
    OBVIOUS
  <2> QED BY <2>1
<1>8. ASSUME NEW x \in {"OPEN", "NULL"}
      PROVE  [r EXCEPT !.status = "PROCESSING", !.lease = "LIVE", !.replay = x] \in Rows
  <2>1. [r EXCEPT !.status = "PROCESSING"] \in Rows
    OBVIOUS
  <2>2. [r EXCEPT !.status = "PROCESSING", !.lease = "LIVE"] \in Rows
    BY <2>1
  <2> QED BY <2>2
<1> QED BY <1>1, <1>2, <1>3, <1>4, <1>5, <1>6, <1>7, <1>8

\* What the reconciliation claim writes.
LEMMA ClaimTypes ==
  ASSUME NEW r \in Rows, NEW w \in Execs, ~LastChanceGone(r), r.token = None
  PROVE  [Unknown(r) EXCEPT !.token = w, !.tlease = "LIVE", !.attempt = @ + 1] \in Rows
<1>1. r.attempt + 1 \in 0 .. MaxAttempts
  BY OperationAssumption DEF Rows, LastChanceGone
<1>2. Unknown(r) \in Rows /\ Unknown(r).attempt = r.attempt
  BY DEF Rows, Statuses, Leases, Unknown
<1> QED BY <1>1, <1>2 DEF Rows, Leases

\* Where a claimed reconciliation goes.
LEMMA RecoverySteps ==
  ASSUME NEW i \in Keys, NEW r \in Rows
  PROVE  LET s == RecoveryStep(i, r) IN
         /\ s \in {"linked", "local", "localtx", "verify", "replay", "manual"}
         /\ s = "linked" => r.linked = "yes"
         /\ s \in {"local", "localtx"} => i \in FreeKeys
         /\ s \in {"verify", "replay"} => i \notin FreeKeys
         /\ s = "verify" => r.result # "NULL"
         /\ s = "replay" => i \in ReplayKeys /\ r.result = "NULL"
<1>1. r.linked \in {"yes", "no"}
  BY DEF Rows
<1>2. CASE r.linked = "yes"
  <2>1. RecoveryStep(i, r) = "linked"
    BY <1>2 DEF RecoveryStep
  <2> QED BY <1>2, <2>1
<1>3. CASE r.linked = "no"
  <2>1. CASE i \in FreeKeys
    BY <1>3, <2>1, OperationAssumption DEF RecoveryStep
  <2>2. CASE i \notin FreeKeys /\ r.result # "NULL"
    BY <1>3, <2>2 DEF RecoveryStep
  <2>3. CASE i \notin FreeKeys /\ r.result = "NULL"
    BY <1>3, <2>3 DEF RecoveryStep
  <2> QED BY <2>1, <2>2, <2>3
<1> QED BY <1>1, <1>2, <1>3

\* A request moves on, or ends.
ExecOK ==
  /\ exec \in [Execs -> Requests]
  /\ \A w \in Execs : /\ exec[w].pc # "idle" => exec[w].key # None
                      /\ exec[w].pc \in LeaderSteps => exec[w].body # None

LEMMA RequestTypes ==
  ASSUME TypeOK, NEW w \in Execs, ~Running(w, "idle")
  PROVE  /\ exec[w].key \in Keys
         /\ exec[w].id \in 0 .. MaxIds
         /\ End(w) => ExecOK'
         /\ \A s \in LeaderSteps : exec[w].pc \in LeaderSteps /\ Goto(w, s) => ExecOK'
         /\ \A s \in ReconcileSteps : Goto(w, s) => ExecOK'
         /\ \A s \in LeaderSteps, x \in Results :
              exec[w].pc \in LeaderSteps /\ GotoSeeing(w, s, x) => ExecOK'
         /\ \A s \in ReconcileSteps, x \in Results : GotoSeeing(w, s, x) => ExecOK'
         /\ exec[w].pc \in LeaderSteps => exec[w].body \in Bodies
<1> DEFINE q == exec[w]
<1>0. q.pc # "idle"
  BY DEF Running
<1>1. q \in Requests /\ q.pc # "idle" /\ q.key # None
  <2> HIDE DEF q
  <2>1. q \in Requests
    BY DEF TypeOK, q
  <2>2. \A v \in Execs : exec[v].pc # "idle" => exec[v].key # None
    BY DEF TypeOK
  <2>3. q.key # None
    BY <1>0, <2>2 DEF q
  <2> QED BY <1>0, <2>1, <2>3
<1>2. exec[w].key \in Keys /\ exec[w].id \in 0 .. MaxIds
  BY <1>1 DEF Requests
<1>3. End(w) => ExecOK'
  BY OperationAssumption DEF TypeOK, End, ExecOK, Idle, Requests, Results, LeaderSteps
<1>4. ASSUME NEW s \in LeaderSteps \cup ReconcileSteps, Goto(w, s),
             s \in LeaderSteps => exec[w].pc \in LeaderSteps
      PROVE  ExecOK'
  BY <1>1, <1>4 DEF TypeOK, Goto, ExecOK, Requests
<1>5. ASSUME NEW s \in LeaderSteps \cup ReconcileSteps, NEW x \in Results, GotoSeeing(w, s, x),
             s \in LeaderSteps => exec[w].pc \in LeaderSteps
      PROVE  ExecOK'
  BY <1>1, <1>5 DEF TypeOK, GotoSeeing, ExecOK, Requests
<1>6. LeaderSteps \cap ReconcileSteps = {}
  BY DEF LeaderSteps, ReconcileSteps
<1>7. exec[w].pc \in LeaderSteps => exec[w].body \in Bodies
  BY <1>1 DEF TypeOK, Requests
<1>8. \A s \in LeaderSteps : exec[w].pc \in LeaderSteps /\ Goto(w, s) => ExecOK'
  BY <1>4
<1>9. \A s \in ReconcileSteps : Goto(w, s) => ExecOK'
  BY <1>4, <1>6
<1>10. \A s \in LeaderSteps, x \in Results :
         exec[w].pc \in LeaderSteps /\ GotoSeeing(w, s, x) => ExecOK'
  BY <1>5
<1>11. \A s \in ReconcileSteps, x \in Results : GotoSeeing(w, s, x) => ExecOK'
  BY <1>5, <1>6
<1> QED BY <1>2, <1>3, <1>7, <1>8, <1>9, <1>10, <1>11

\* The purchase keeps its types.
LEMMA PurchaseTypes ==
  ASSUME TypeOK, NEW i \in Keys,
         \/ Promise!Open(i) \/ Promise!Void(i) \/ Promise!Receive(i) \/ Promise!Apply(i)
         \/ Promise!Prove(i) \/ Promise!HandOver(i) \/ Promise!Return(i) \/ UNCHANGED purchase
  PROVE  /\ money' \in [Keys -> {"none", "due", "received", "void", "returned"}]
         /\ delivery' \in [Keys -> {"no", "doing", "review", "done"}]
BY DEF TypeOK, purchase, Promise!Open, Promise!Void, Promise!Receive, Promise!Apply,
       Promise!Prove, Promise!HandOver, Promise!Return

\* One update of a row.
LEMMA PutTypes ==
  ASSUME TypeOK, NEW i \in Keys, NEW row \in Rows, Put(i, row)
  PROVE  op' \in [Keys -> Rows]
BY DEF TypeOK, Put

\* The columns that hold no row and no request.
RestOK ==
  /\ invoice \in [Keys -> Invoices]
  /\ charges \in [Keys -> Nat]
  /\ money \in [Keys -> {"none", "due", "received", "void", "returned"}]
  /\ delivery \in [Keys -> {"no", "doing", "review", "done"}]
  /\ notified \subseteq Keys
  /\ answered \subseteq Keys \X Bodies

\* A call to the provider.
LEMMA ChargeTypes ==
  ASSUME TypeOK, NEW i \in Keys, NEW n \in 0 .. MaxIds, Charge(i, n)
  PROVE  /\ invoice' \in [Keys -> Invoices]
         /\ charges' \in [Keys -> Nat]
         /\ Reported(i, invoice'[i].status) \in Results
         /\ invoice'[i].key = n \/ i \notin ReplayKeys
<1>1. CASE i \in ReplayKeys /\ invoice[i].key = n
  BY <1>1 DEF TypeOK, Charge, Invoices, Reported, Results
<1>2. CASE ~(i \in ReplayKeys /\ invoice[i].key = n)
  <2>1. PICK s \in {"pending", "succeeded", "canceled"} :
          invoice' = [invoice EXCEPT ![i] = [status |-> s, key |-> n]]
    BY <1>2 DEF Charge
  <2>2. charges' = [charges EXCEPT ![i] = @ + 1]
    BY <1>2 DEF Charge
  <2> QED BY <2>1, <2>2 DEF TypeOK, Invoices, Reported, Results
<1> QED BY <1>1, <1>2

\* An action that updates one row and nothing else.
LEMMA RowActionTypes ==
  ASSUME TypeOK, NEW i \in Keys,
         \/ ExpireProcessing(i) \/ DeleteExpiredClaim(i) \/ GiveUpReconciliation(i)
         \/ ExpireReconciliation(i) \/ LeaseExpires(i) \/ ReconciliationLeaseExpires(i)
         \/ BackoffElapses(i) \/ ReplayWindowEnds(i)
  PROVE  op' \in [Keys -> Rows] /\ UNCHANGED <<exec, invoice, charges, purchase, notified, answered>>
<1>1. op[i] \in Rows
  BY DEF TypeOK
<1>2. CASE ExpireProcessing(i)
  BY <1>1, <1>2, RowTypes, PutTypes DEF ExpireProcessing
<1>3. CASE DeleteExpiredClaim(i)
  BY <1>1, <1>3, RowTypes, PutTypes DEF DeleteExpiredClaim
<1>4. CASE GiveUpReconciliation(i)
  BY <1>1, <1>4, RowTypes, PutTypes DEF GiveUpReconciliation
<1>5. CASE ExpireReconciliation(i)
  BY <1>1, <1>5, RowTypes, PutTypes DEF ExpireReconciliation
<1>6. CASE LeaseExpires(i)
  BY <1>1, <1>6, ColumnTypes, PutTypes DEF LeaseExpires, Leases
<1>7. CASE ReconciliationLeaseExpires(i)
  BY <1>1, <1>7, ColumnTypes, PutTypes DEF ReconciliationLeaseExpires, Leases
<1>8. CASE BackoffElapses(i)
  BY <1>1, <1>8, ColumnTypes, PutTypes DEF BackoffElapses
<1>9. CASE ReplayWindowEnds(i)
  BY <1>1, <1>9, ColumnTypes, PutTypes DEF ReplayWindowEnds
<1> QED BY <1>2, <1>3, <1>4, <1>5, <1>6, <1>7, <1>8, <1>9

\* An action of the request that leads an operation.
LEMMA LeaderTypes ==
  ASSUME TypeOK, NEW w \in Execs,
         \/ Abandon(w) \/ PrepareFails(w) \/ MarkProcessing(w) \/ CallProvider(w) \/ Checkpoint(w)
         \/ CreateTransaction(w) \/ Purchase(w) \/ CompleteFree(w) \/ Fail(w)
  PROVE  op' \in [Keys -> Rows] /\ ExecOK' /\ RestOK'
<1> DEFINE i == exec[w].key
<1>1. ~Running(w, "idle") /\ exec[w].pc \in LeaderSteps
  BY DEF Running, LeaderSteps, Abandon, PrepareFails, MarkProcessing, CallProvider, Checkpoint,
         CreateTransaction, Purchase, CompleteFree, Fail
<1>2. i \in Keys /\ op[i] \in Rows /\ exec[w].id \in 0 .. MaxIds
  BY <1>1, RequestTypes DEF TypeOK
<1>3. exec[w] \in Requests /\ op \in [Keys -> Rows] /\ RestOK /\ ExecOK
  BY DEF TypeOK, RestOK, ExecOK
<1> USE RequestTypes, RowTypes, PutTypes
<1>a. CASE Abandon(w)
  BY <1>1, <1>2, <1>3, <1>a DEF Abandon, RestOK, purchase
<1>b. CASE PrepareFails(w)
  BY <1>1, <1>2, <1>3, <1>b DEF PrepareFails, RestOK, purchase, LeaderSteps
<1>c. CASE MarkProcessing(w)
  BY <1>1, <1>2, <1>3, <1>c DEF MarkProcessing, RestOK, purchase, LeaderSteps, Results
<1>d. CASE CallProvider(w)
  <2>1. invoice' \in [Keys -> Invoices] /\ charges' \in [Keys -> Nat]
    BY <1>2, <1>3, <1>d, ChargeTypes DEF CallProvider, RestOK
  <2>2. ExecOK'
    BY <1>1, <1>2, <1>d, ChargeTypes DEF CallProvider, LeaderSteps
  <2> QED BY <1>3, <1>d, <2>1, <2>2 DEF CallProvider, RestOK, purchase
<1>e. CASE Checkpoint(w)
  <2>1. exec[w].seen \in Results
    BY <1>3 DEF Requests
  <2>2. op' \in [Keys -> Rows]
    BY <1>2, <1>3, <1>e, <2>1, ColumnTypes DEF Checkpoint
  <2>3. ExecOK'
    BY <1>1, <1>e DEF Checkpoint, LeaderSteps
  <2> QED BY <1>3, <1>e, <2>2, <2>3 DEF Checkpoint, RestOK, purchase
<1>f. CASE CreateTransaction(w)
  <2>1. op' \in [Keys -> Rows]
    BY <1>2, <1>3, <1>f, ColumnTypes DEF CreateTransaction
  <2>2. ExecOK'
    BY <1>1, <1>f DEF CreateTransaction, LeaderSteps
  <2>3. money' \in [Keys -> {"none", "due", "received", "void", "returned"}]
        /\ delivery' \in [Keys -> {"no", "doing", "review", "done"}]
    BY <1>2, <1>f, PurchaseTypes DEF CreateTransaction
  <2>4. answered' \subseteq Keys \X Bodies
    <3>1. answered \subseteq Keys \X Bodies /\ <<exec[w].key, exec[w].body>> \in Keys \X Bodies
      BY <1>1, <1>2 DEF TypeOK
    <3>2. answered' = answered \/ Answer(w)
      BY <1>f DEF CreateTransaction
    <3> QED BY <3>1, <3>2 DEF Answer
  <2> QED BY <1>3, <1>f, <2>1, <2>2, <2>3, <2>4 DEF CreateTransaction, RestOK
<1>g. CASE Purchase(w)
  BY <1>1, <1>2, <1>3, <1>g DEF Purchase, RestOK, purchase, LeaderSteps
<1>h. CASE CompleteFree(w)
  <2>1. op' \in [Keys -> Rows]
    BY <1>2, <1>3, <1>h DEF CompleteFree
  <2>2. ExecOK'
    BY <1>1, <1>h DEF CompleteFree, LeaderSteps
  <2>3. answered' \subseteq Keys \X Bodies
    <3>1. answered \subseteq Keys \X Bodies /\ <<exec[w].key, exec[w].body>> \in Keys \X Bodies
      BY <1>1, <1>2 DEF TypeOK
    <3>2. answered' = answered \/ Answer(w)
      BY <1>h DEF CompleteFree
    <3> QED BY <3>1, <3>2 DEF Answer
  <2> QED BY <1>3, <1>h, <2>1, <2>2, <2>3 DEF CompleteFree, RestOK, purchase
<1>i. CASE Fail(w)
  BY <1>1, <1>2, <1>3, <1>i DEF Fail, RestOK, purchase
<1> QED BY <1>a, <1>b, <1>c, <1>d, <1>e, <1>f, <1>g, <1>h, <1>i

\* An action of a request that reconciles an operation.
LEMMA RecoveryTypes ==
  ASSUME TypeOK, NEW w \in Execs,
         \/ ReconcileFails(w) \/ CompleteLinked(w) \/ CheckpointLocal(w)
         \/ CreateLocalTransaction(w) \/ ReplayAtProvider(w) \/ CheckpointReplay(w)
         \/ VerifyResult(w) \/ CompleteWithResult(w) \/ RetryLater(w) \/ HandToOperator(w)
  PROVE  op' \in [Keys -> Rows] /\ ExecOK' /\ RestOK'
<1> DEFINE i == exec[w].key
<1>1. ~Running(w, "idle")
  BY DEF Running, ReconcileSteps, ReconcileFails, CompleteLinked, CheckpointLocal,
         CreateLocalTransaction, ReplayAtProvider, CheckpointReplay, VerifyResult,
         CompleteWithResult, RetryLater, HandToOperator
<1>2. i \in Keys /\ op[i] \in Rows /\ exec[w].id \in 0 .. MaxIds
  BY <1>1, RequestTypes DEF TypeOK
<1>3. exec[w] \in Requests /\ op \in [Keys -> Rows] /\ RestOK /\ ExecOK
  BY DEF TypeOK, RestOK, ExecOK
<1>4. exec[w].seen \in Results
  BY <1>3 DEF Requests
<1> USE RequestTypes, RowTypes, PutTypes DEF ReconcileSteps
<1>a. CASE ReconcileFails(w)
  BY <1>1, <1>2, <1>3, <1>a DEF ReconcileFails, RestOK, purchase
<1>b. CASE CompleteLinked(w)
  <2>1. Succeeded([op[i] EXCEPT !.due = "yes"]) \in Rows
    BY <1>2, ColumnTypes
  <2>2. op' \in [Keys -> Rows]
    BY <1>2, <1>3, <1>b, <2>1 DEF CompleteLinked, Settle
  <2>3. ExecOK'
    BY <1>1, <1>b DEF CompleteLinked, Settle
  <2> QED BY <1>2, <1>3, <1>b, <2>2, <2>3 DEF CompleteLinked, RestOK, purchase
<1>c. CASE CheckpointLocal(w)
  BY <1>1, <1>2, <1>3, <1>c, ColumnTypes DEF CheckpointLocal, RestOK, purchase, Results
<1>d. CASE CreateLocalTransaction(w)
  <2>1. op' \in [Keys -> Rows]
    BY <1>2, <1>3, <1>d, ColumnTypes DEF CreateLocalTransaction
  <2>2. ExecOK'
    BY <1>1, <1>d DEF CreateLocalTransaction
  <2>3. money' \in [Keys -> {"none", "due", "received", "void", "returned"}]
        /\ delivery' \in [Keys -> {"no", "doing", "review", "done"}]
    BY <1>2, <1>d, PurchaseTypes DEF CreateLocalTransaction
  <2> QED BY <1>2, <1>3, <1>d, <2>1, <2>2, <2>3 DEF CreateLocalTransaction, RestOK
<1>e. CASE ReplayAtProvider(w)
  <2>1. invoice' \in [Keys -> Invoices] /\ charges' \in [Keys -> Nat]
    BY <1>2, <1>3, <1>e, ChargeTypes DEF ReplayAtProvider, RestOK
  <2>2. ExecOK'
    BY <1>1, <1>2, <1>e, ChargeTypes DEF ReplayAtProvider
  <2> QED BY <1>3, <1>e, <2>1, <2>2 DEF ReplayAtProvider, RestOK, purchase
<1>f. CASE CheckpointReplay(w)
  BY <1>1, <1>2, <1>3, <1>4, <1>f, ColumnTypes DEF CheckpointReplay, RestOK, purchase
<1>g. CASE VerifyResult(w)
  <2>1. invoice[i].status \in Results
    BY <1>2, <1>3 DEF RestOK, Invoices, Results
  <2>2. ExecOK'
    BY <1>1, <1>4, <1>g, <2>1 DEF VerifyResult
  <2> QED BY <1>3, <1>g, <2>2 DEF VerifyResult, RestOK, purchase
<1>h. CASE CompleteWithResult(w)
  <2>1. Succeeded([op[i] EXCEPT !.result = exec[w].seen, !.due = "yes"]) \in Rows
    BY <1>2, <1>4
  <2>2. op' \in [Keys -> Rows]
    BY <1>2, <1>3, <1>h, <2>1 DEF CompleteWithResult
  <2>3. ExecOK'
    BY <1>1, <1>h DEF CompleteWithResult
  <2>4. money' \in [Keys -> {"none", "due", "received", "void", "returned"}]
        /\ delivery' \in [Keys -> {"no", "doing", "review", "done"}]
    BY <1>2, <1>h, PurchaseTypes DEF CompleteWithResult
  <2>5. notified' \subseteq Keys
    BY <1>2, <1>3, <1>h DEF CompleteWithResult, QueueSuccess, RestOK
  <2> QED BY <1>3, <1>h, <2>2, <2>3, <2>4, <2>5 DEF CompleteWithResult, RestOK
<1>i. CASE RetryLater(w)
  BY <1>1, <1>2, <1>3, <1>i DEF RetryLater, RestOK, purchase
<1>j. CASE HandToOperator(w)
  BY <1>1, <1>2, <1>3, <1>j DEF HandToOperator, RestOK, purchase
<1> QED BY <1>a, <1>b, <1>c, <1>d, <1>e, <1>f, <1>g, <1>h, <1>i, <1>j

\* A request that begins.
LEMMA EntryTypes ==
  ASSUME TypeOK, NEW w \in Execs, NEW i \in Keys,
         (\E b \in Bodies : ClaimOperation(w, i, b) \/ ReclaimOperation(w, i, b))
           \/ ClaimReconciliation(w, i)
  PROVE  op' \in [Keys -> Rows] /\ ExecOK' /\ RestOK'
<1>1. op[i] \in Rows /\ op \in [Keys -> Rows] /\ RestOK /\ ExecOK /\ None \notin Keys \cup Bodies
  BY OperationAssumption DEF TypeOK, RestOK, ExecOK
<1>2. ASSUME NEW b \in Bodies, ClaimOperation(w, i, b)
      PROVE  op' \in [Keys -> Rows] /\ ExecOK' /\ RestOK'
  <2>0. op[i].id \in 0 .. MaxIds /\ op[i].id < MaxIds
    BY <1>1, <1>2, ColumnTypes DEF ClaimOperation
  <2>1. op[i].id + 1 \in 0 .. MaxIds
    BY <2>0, OperationAssumption
  <2>2. NewRow(op[i].id + 1, b) \in Rows
    BY <2>1, NewRowTypes
  <2>3. op' \in [Keys -> Rows]
    BY <1>2, <2>2, PutTypes DEF ClaimOperation
  <2>4. op'[i].id \in 0 .. MaxIds
    BY <2>3, ColumnTypes
  <2>5. ExecOK'
    BY <1>1, <1>2, <2>4 DEF ClaimOperation, Lead, ExecOK, Requests, LeaderSteps, Results
  <2> QED BY <1>1, <1>2, <2>3, <2>5 DEF ClaimOperation, RestOK, purchase
<1>3. ASSUME NEW b \in Bodies, ReclaimOperation(w, i, b)
      PROVE  op' \in [Keys -> Rows] /\ ExecOK' /\ RestOK'
  <2>1. [op[i] EXCEPT !.lease = "LIVE"] \in Rows
    BY <1>1, ColumnTypes DEF Leases
  <2>2. op' \in [Keys -> Rows]
    BY <1>3, <2>1, PutTypes DEF ReclaimOperation
  <2>3. op'[i].id \in 0 .. MaxIds
    BY <2>2, ColumnTypes
  <2>4. ExecOK'
    BY <1>1, <1>3, <2>3 DEF ReclaimOperation, Lead, ExecOK, Requests, LeaderSteps, Results
  <2> QED BY <1>1, <1>3, <2>2, <2>4 DEF ReclaimOperation, RestOK, purchase
<1>4. CASE ClaimReconciliation(w, i)
  <2>1. op' \in [Keys -> Rows]
    BY <1>1, <1>4, ClaimTypes, PutTypes DEF ClaimReconciliation
  <2>2. RecoveryStep(i, op[i]) \in {"linked", "local", "localtx", "verify", "replay", "manual"}
    BY <1>1, RecoverySteps
  <2>3. op[i].id \in 0 .. MaxIds /\ op[i].result \in Results
    BY <1>1, ColumnTypes DEF Rows
  <2>4. ExecOK'
    BY <1>1, <1>4, <2>2, <2>3
       DEF ClaimReconciliation, ExecOK, Requests, LeaderSteps, ReconcileSteps
  <2> QED BY <1>1, <1>4, <2>1, <2>4 DEF ClaimReconciliation, RestOK, purchase
<1> QED BY <1>2, <1>3, <1>4

LEMMA TypeStep == TypeOK /\ [Next]_vars => TypeOK'
<1> SUFFICES ASSUME TypeOK, [Next]_vars PROVE TypeOK'
  OBVIOUS
<1>0. op \in [Keys -> Rows] /\ ExecOK /\ RestOK
  BY DEF TypeOK, ExecOK, RestOK
<1> SUFFICES op' \in [Keys -> Rows] /\ ExecOK' /\ RestOK'
  BY DEF TypeOK, ExecOK, RestOK
<1>1. CASE UNCHANGED vars
  BY <1>0, <1>1 DEF vars, ExecOK, RestOK
<1>2. ASSUME NEW w \in Execs, ExecStep(w) PROVE op' \in [Keys -> Rows] /\ ExecOK' /\ RestOK'
  BY <1>2, LeaderTypes, RecoveryTypes DEF ExecStep
<1>3. ASSUME NEW w \in Execs, Crash(w) PROVE op' \in [Keys -> Rows] /\ ExecOK' /\ RestOK'
  BY <1>0, <1>3, RequestTypes DEF Crash, RestOK, purchase
<1>4. ASSUME NEW i \in Keys, NEW b \in Bodies, ReplayResponse(i, b)
      PROVE  op' \in [Keys -> Rows] /\ ExecOK' /\ RestOK'
  BY <1>0, <1>4 DEF ReplayResponse, RestOK, ExecOK, purchase
<1>5. ASSUME NEW i \in Keys,
             \/ ExpireProcessing(i) \/ DeleteExpiredClaim(i) \/ GiveUpReconciliation(i)
             \/ ExpireReconciliation(i) \/ LeaseExpires(i) \/ ReconciliationLeaseExpires(i)
             \/ BackoffElapses(i) \/ ReplayWindowEnds(i)
      PROVE  op' \in [Keys -> Rows] /\ ExecOK' /\ RestOK'
  BY <1>0, <1>5, RowActionTypes DEF ExecOK, RestOK, purchase
<1>6. ASSUME NEW i \in Keys, ProviderForgets(i)
      PROVE  op' \in [Keys -> Rows] /\ ExecOK' /\ RestOK'
  <2>1. invoice' \in [Keys -> Invoices]
    BY <1>0, <1>6, OperationAssumption DEF ProviderForgets, RestOK, Invoices
  <2> QED BY <1>0, <1>6, <2>1 DEF ProviderForgets, ExecOK, RestOK, purchase
<1>7. ASSUME NEW i \in Keys, InvoiceEnds(i)
      PROVE  op' \in [Keys -> Rows] /\ ExecOK' /\ RestOK'
  <2>1. invoice' \in [Keys -> Invoices]
    BY <1>0, <1>7 DEF InvoiceEnds, RestOK, Invoices
  <2> QED BY <1>0, <1>7, <2>1 DEF InvoiceEnds, ExecOK, RestOK, purchase
<1>8. ASSUME NEW i \in Keys, Fulfill(i)
      PROVE  op' \in [Keys -> Rows] /\ ExecOK' /\ RestOK'
  <2>1. money' \in [Keys -> {"none", "due", "received", "void", "returned"}]
        /\ delivery' \in [Keys -> {"no", "doing", "review", "done"}]
    BY <1>8, PurchaseTypes DEF Fulfill
  <2> QED BY <1>0, <1>8, <2>1 DEF Fulfill, ExecOK, RestOK
<1>9. ASSUME NEW w \in Execs, NEW i \in Keys,
             (\E b \in Bodies : ClaimOperation(w, i, b) \/ ReclaimOperation(w, i, b))
               \/ ClaimReconciliation(w, i)
      PROVE  op' \in [Keys -> Rows] /\ ExecOK' /\ RestOK'
  BY <1>9, EntryTypes
<1> QED
  <2>1. CASE Next
    BY <1>2, <1>3, <1>4, <1>5, <1>6, <1>7, <1>8, <1>9, <2>1 DEF Next
  <2> QED BY <1>1, <2>1

\* Every reachable state is well typed.
THEOREM TypeCorrect == Spec => []TypeOK
<1>1. Init => TypeOK
  <2> SUFFICES ASSUME Init PROVE TypeOK
    OBVIOUS
  <2>1. op \in [Keys -> Rows]
    BY NewRowTypes DEF Init
  <2>2. ExecOK
    BY OperationAssumption DEF Init, ExecOK, Idle, Requests, Results, LeaderSteps
  <2>3. RestOK
    BY OperationAssumption DEF Init, RestOK, Invoices, Promise!Init
  <2> QED BY <2>1, <2>2, <2>3 DEF TypeOK, ExecOK, RestOK
<1> QED BY <1>1, TypeStep, PTL DEF Spec

(***************************************************************************)
(* The inductive invariant: what a row may look like beside the provider   *)
(* and the purchase (RowInv), what a request may rely on at each step      *)
(* however the others moved meanwhile (RequestInv), and that one request   *)
(* at most is past the side-effect boundary of a key (Alone).              *)
(***************************************************************************)
Past(r) == r.status \notin {"ABSENT", "CLAIMED"}

RowInv(i) ==
  LET r == op[i] IN
  /\ r.status # "ABSENT" => r.id > 0
  /\ ~Past(r) => r.token = None /\ r.linked = "no" /\ r.result = "NULL" /\ charges[i] = 0
  /\ r.token = None <=> r.tlease = "NULL"
  /\ r.token # None => r.status \in {"UNKNOWN", "MANUAL_REQUIRED"}
  /\ r.tlease = "LIVE" => r.status = "UNKNOWN"
  /\ r.linked = "yes" => money[i] # "none" /\ (r.status = "SUCCEEDED" \/ i \in FreeKeys)
  /\ IF i \in FreeKeys THEN r.result \in {"NULL", "LOCAL"} ELSE r.result # "NULL" => charges[i] = 1
  /\ r.status = "SUCCEEDED" =>
       /\ r.linked = "yes"
       /\ IF i \in FreeKeys THEN delivery[i] = "done" ELSE charges[i] = 1
       /\ r.result = "succeeded" => i \in notified \/ money[i] # "due"

ProviderInv(i) ==
  /\ charges[i] \in {0, 1}
  /\ i \in FreeKeys => charges[i] = 0
  /\ invoice[i].key # 0 => charges[i] = 1
  /\ i \in ReplayKeys /\ charges[i] = 1 => invoice[i].key = op[i].id \/ op[i].replay = "OVER"
  /\ delivery[i] = "done" => money[i] \notin {"none", "due"}

LateSteps == {"call", "checkpoint", "create", "purchase", "complete"}

RequestInv(w) ==
  LET q == exec[w]  i == exec[w].key  r == op[exec[w].key] IN
  /\ q.pc # "idle" => i \in Keys /\ q.id <= r.id
  /\ q.pc = "validate" /\ q.id = r.id /\ r.status # "ABSENT" => q.body = r.body
  /\ q.pc \in LateSteps \cup ReconcileSteps => q.id = r.id /\ Past(r)
  /\ q.pc \in LateSteps => q.body = r.body
  /\ q.pc = "call" => i \notin FreeKeys /\ (i \notin ReplayKeys => charges[i] = 0)
  /\ q.pc = "replay" => i \in ReplayKeys
  /\ q.pc \in {"call", "replay"} /\ i \in ReplayKeys /\ charges[i] = 1 => invoice[i].key = r.id
  /\ q.pc = "checkpoint" /\ i \in FreeKeys => q.seen = "LOCAL"
  /\ q.pc \in {"checkpoint", "create"} => i \in FreeKeys \/ charges[i] = 1
  /\ q.pc = "create" /\ r.status = "PROCESSING" => r.result # "succeeded"
  /\ q.pc \in {"recheck", "verify", "finish"} => i \notin FreeKeys /\ charges[i] = 1
  /\ q.pc \in {"purchase", "complete", "linked", "local", "localtx"} => i \in FreeKeys

Alone == \A v, w \in Execs :
  exec[v].pc \in LateSteps /\ exec[w].pc \in LateSteps /\ exec[v].key = exec[w].key => v = w

OperationInv ==
  /\ \A i \in Keys : RowInv(i) /\ ProviderInv(i)
  /\ \A w \in Execs : RequestInv(w)
  /\ Alone
  /\ AnsweredIsDurable

(***************************************************************************)
(* What each update of a row writes and what it keeps.                     *)
(***************************************************************************)
LEMMA UnknownRow ==
  ASSUME NEW r \in Rows
  PROVE  LET s == Unknown(r) IN
         /\ s.status = "UNKNOWN" /\ s.id = r.id /\ s.body = r.body /\ s.linked = r.linked
         /\ s.result = r.result /\ s.replay = r.replay /\ s.token = r.token /\ s.tlease = r.tlease
BY DEF Unknown, Rows

LEMMA ManualRow ==
  ASSUME NEW r \in Rows
  PROVE  LET s == Manual(r) IN
         /\ s.status = "MANUAL_REQUIRED" /\ s.id = r.id /\ s.body = r.body /\ s.linked = r.linked
         /\ s.result = r.result /\ s.replay = r.replay /\ s.token = r.token /\ s.tlease = r.tlease
BY DEF Manual, Rows

LEMMA GoneRow ==
  ASSUME NEW r \in Rows
  PROVE  LET s == Gone(r) IN
         /\ s.status = "ABSENT" /\ s.id = r.id /\ s.body = None /\ s.linked = "no"
         /\ s.result = "NULL" /\ s.replay = "NULL" /\ s.token = None /\ s.tlease = "NULL"
BY DEF Gone, NoRow

LEMMA NewRowRow ==
  ASSUME NEW n, NEW b
  PROVE  LET s == NewRow(n, b) IN
         /\ s.status = "CLAIMED" /\ s.id = n /\ s.body = b /\ s.linked = "no"
         /\ s.result = "NULL" /\ s.replay = "NULL" /\ s.token = None /\ s.tlease = "NULL"
BY DEF NewRow, NoRow

LEMMA SucceededRow ==
  ASSUME NEW r \in Rows
  PROVE  LET s == Succeeded(r) IN
         /\ s.status = "SUCCEEDED" /\ s.id = r.id /\ s.body = r.body /\ s.linked = "yes"
         /\ s.result = r.result /\ s.replay = r.replay /\ s.token = None /\ s.tlease = "NULL"
BY DEF Succeeded, Rows

LEMMA ReleasedRow ==
  ASSUME NEW r \in Rows
  PROVE  LET s == Released(r) IN
         /\ s.status = r.status /\ s.id = r.id /\ s.body = r.body /\ s.linked = r.linked
         /\ s.result = r.result /\ s.replay = r.replay /\ s.token = None /\ s.tlease = "NULL"
BY DEF Released, Rows
(***************************************************************************)
(* The frame: most actions move the row and the purchase of one key and    *)
(* at most one request.  Then the invariant is kept if that row moves in   *)
(* one of the directions the other requests of the key rely on (Moves) and *)
(* the parts of the invariant about that key and that request hold after.  *)
(***************************************************************************)
Moves(r, s) ==
  /\ r.id <= s.id
  /\ s.id = r.id /\ s.status # "ABSENT" => r.status # "ABSENT" /\ s.body = r.body
  /\ Past(r) => Past(s) /\ s.id = r.id
  /\ Past(r) /\ s.status = "PROCESSING" => r.status = "PROCESSING"
  /\ r.status \in {"SUCCEEDED", "MANUAL_REQUIRED"} =>
       /\ s.status = r.status
       /\ s.linked = r.linked
       /\ s.result = r.result
       /\ s.token = r.token

Late(w, i) == w \in Execs /\ exec[w].pc \in LateSteps /\ exec[w].key = i

\* w is the request that moves, None if none does.
Frame(w, i) ==
  /\ UNCHANGED <<invoice, charges>>
  /\ \A j \in Keys \ {i} : /\ op'[j] = op[j]
                           /\ money'[j] = money[j]
                           /\ delivery'[j] = delivery[j]
  /\ money[i] # "none" => money'[i] # "none"
  /\ notified \subseteq notified'
  /\ \A v \in Execs \ {w} : exec'[v] = exec[v]
  /\ w \in Execs /\ exec'[w].pc # "idle" => exec'[w].key = i

LEMMA FrameStep ==
  ASSUME TypeOK, TypeOK', OperationInv, NEW i \in Keys, NEW w \in Execs \cup {None},
         Frame(w, i), Moves(op[i], op'[i]), RowInv(i)', ProviderInv(i)',
         w \in Execs => RequestInv(w)',
         w \in Execs /\ exec'[w].pc \in LateSteps => Late(w, i) \/ ~Past(op[i]),
         Past(op[i]) /\ op'[i].status = "PROCESSING" => op'[i].result = op[i].result \/ Late(w, i),
         \A a \in answered' \ answered :
           a[1] = i /\ op'[i].status = "SUCCEEDED" /\ op'[i].body = a[2]
  PROVE  OperationInv'
<1>0. op[i] \in Rows /\ op'[i] \in Rows
  BY DEF TypeOK
<1>00. op[i].id \in Nat /\ op'[i].id \in Nat
  BY <1>0, OperationAssumption DEF Rows
<1>1. ASSUME NEW j \in Keys PROVE RowInv(j)' /\ ProviderInv(j)'
  <2>1. CASE j = i
    BY <2>1
  <2>2. CASE j # i
    <3>1. RowInv(j) /\ ProviderInv(j)
      BY DEF OperationInv
    <3>2. op'[j] = op[j] /\ money'[j] = money[j] /\ delivery'[j] = delivery[j]
          /\ charges'[j] = charges[j] /\ invoice'[j] = invoice[j] /\ (j \in notified => j \in notified')
      BY <2>2 DEF Frame
    <3> QED BY <3>1, <3>2 DEF RowInv, ProviderInv, Past
  <2> QED BY <2>1, <2>2
<1>2. ASSUME NEW v \in Execs PROVE RequestInv(v)'
  <2>1. CASE v = w
    BY <2>1
  <2>2. CASE v # w /\ exec[v].key # i
    <3>1. RequestInv(v)
      BY DEF OperationInv
    <3>2. exec'[v] = exec[v] /\ UNCHANGED <<invoice, charges>>
      BY <2>2 DEF Frame
    <3>3. CASE exec[v].pc = "idle"
      BY <3>1, <3>2, <3>3 DEF RequestInv, LateSteps, ReconcileSteps
    <3>4. CASE exec[v].pc # "idle"
      <4>1. exec[v].key \in Keys
        BY <3>1, <3>4 DEF RequestInv
      <4>2. op'[exec[v].key] = op[exec[v].key]
        BY <2>2, <4>1 DEF Frame
      <4> QED BY <3>1, <3>2, <4>2 DEF RequestInv
    <3> QED BY <3>3, <3>4
  <2>3. CASE v # w /\ exec[v].key = i
    <3>1. RequestInv(v)
      BY DEF OperationInv
    <3>2. exec'[v] = exec[v] /\ UNCHANGED <<invoice, charges>>
      BY <2>3 DEF Frame
    <3>3. exec[v].id \in Nat
      BY OperationAssumption DEF TypeOK, Requests
    <3>4. exec[v].pc # "idle" => exec[v].id <= op'[i].id
      BY <1>00, <2>3, <3>1, <3>3 DEF RequestInv, Moves
    <3>5. exec[v].pc = "validate" /\ exec[v].id = op'[i].id /\ op'[i].status # "ABSENT"
            => exec[v].body = op'[i].body
      <4> SUFFICES ASSUME exec[v].pc = "validate", exec[v].id = op'[i].id, op'[i].status # "ABSENT"
                   PROVE  exec[v].body = op'[i].body
        OBVIOUS
      <4>1. op[i].id = op'[i].id
        BY <1>00, <2>3, <3>1, <3>3 DEF RequestInv, Moves
      <4> QED BY <2>3, <3>1, <4>1 DEF RequestInv, Moves
    <3>6. exec[v].pc \in LateSteps \cup ReconcileSteps =>
            exec[v].id = op'[i].id /\ Past(op'[i]) /\ Past(op[i]) /\ op'[i].id = op[i].id
      BY <2>3, <3>1 DEF RequestInv, Moves
    <3>7. exec[v].pc \in LateSteps => exec[v].body = op'[i].body
      BY <2>3, <3>1, <3>6 DEF RequestInv, Moves, Past
    <3>8. exec[v].pc = "create" /\ op'[i].status = "PROCESSING" => op'[i].result # "succeeded"
      <4> SUFFICES ASSUME exec[v].pc = "create", op'[i].status = "PROCESSING"
                   PROVE  op'[i].result # "succeeded"
        OBVIOUS
      <4>1. exec[v].pc \in LateSteps /\ Past(op[i])
        BY <3>6 DEF LateSteps
      <4>2. ~Late(w, i)
        BY <2>3, <4>1 DEF Late, OperationInv, Alone
      <4>3. op'[i].result = op[i].result /\ op[i].status = "PROCESSING"
        BY <4>1, <4>2 DEF Moves
      <4> QED BY <2>3, <3>1, <4>3 DEF RequestInv
    <3>9. exec[v].pc \in {"call", "replay"} => op'[i].id = op[i].id
      BY <3>6 DEF LateSteps, ReconcileSteps
    <3> QED BY <2>3, <3>1, <3>2, <3>4, <3>5, <3>6, <3>7, <3>8, <3>9 DEF RequestInv
  <2> QED BY <2>1, <2>2, <2>3
<1>3. Alone'
  <2> SUFFICES ASSUME NEW u \in Execs, NEW v \in Execs, exec'[u].pc \in LateSteps,
                      exec'[v].pc \in LateSteps, exec'[u].key = exec'[v].key
               PROVE  u = v
    BY DEF Alone
  <2>1. CASE u # w /\ v # w
    BY <2>1 DEF Frame, OperationInv, Alone
  <2>2. ASSUME NEW x \in Execs, x # w, w \in Execs, exec'[x].pc \in LateSteps, exec'[x].key = i,
               exec'[w].pc \in LateSteps
        PROVE  FALSE
    <3>1. exec[x].pc \in LateSteps /\ exec[x].key = i
      BY <2>2 DEF Frame
    <3>2. Past(op[i])
      BY <3>1 DEF OperationInv, RequestInv
    <3>3. Late(w, i)
      BY <2>2, <3>2
    <3> QED BY <2>2, <3>1, <3>3 DEF OperationInv, Alone, Late
  <2>3. \A x \in Execs : x = w /\ exec'[x].pc \in LateSteps => exec'[x].key = i
    BY DEF Frame, LateSteps
  <2>4. CASE u = w /\ v # w
    BY <2>2, <2>3, <2>4
  <2>5. CASE v = w /\ u # w
    BY <2>2, <2>3, <2>5
  <2> QED BY <2>1, <2>4, <2>5
<1>4. AnsweredIsDurable'
  <2> SUFFICES ASSUME NEW a \in answered'
               PROVE  /\ op'[a[1]].status = "SUCCEEDED"
                      /\ op'[a[1]].body = a[2]
                      /\ money'[a[1]] # "none"
    BY DEF AnsweredIsDurable
  <2>1. CASE a \notin answered
    <3>1. a[1] = i /\ op'[i].status = "SUCCEEDED" /\ op'[i].body = a[2]
      BY <2>1
    <3>2. money'[i] # "none"
      BY <3>1 DEF RowInv
    <3> QED BY <3>1, <3>2
  <2>2. CASE a \in answered
    <3>1. a[1] \in Keys /\ op[a[1]].status = "SUCCEEDED" /\ op[a[1]].body = a[2] /\ money[a[1]] # "none"
      BY <2>2 DEF OperationInv, AnsweredIsDurable, TypeOK
    <3>2. CASE a[1] = i
      BY <3>1, <3>2 DEF Moves, Past, Frame
    <3>3. CASE a[1] # i
      BY <3>1, <3>3 DEF Frame
    <3> QED BY <3>2, <3>3
  <2> QED BY <2>1, <2>2
<1> QED BY <1>1, <1>2, <1>3, <1>4 DEF OperationInv
(***************************************************************************)
(* Quiet steps: the row of key i keeps its identity and what it recorded,  *)
(* while its status, leases and token move on without a claim.             *)
(***************************************************************************)
Quiet(r, s) ==
  /\ s.id = r.id /\ s.body = r.body /\ s.linked = r.linked /\ s.result = r.result
  /\ s.replay \in {r.replay, "OVER"}
  /\ \/ s.status = r.status
     \/ r.status \in {"PROCESSING", "UNKNOWN"} /\ s.status \in {"UNKNOWN", "MANUAL_REQUIRED"}
  /\ \/ s.token = r.token /\ (s.tlease = r.tlease \/ (r.tlease = "LIVE" /\ s.tlease = "EXPIRED"))
     \/ s.token = None /\ s.tlease = "NULL" /\ r.status = "UNKNOWN"
  /\ s.tlease = "LIVE" => s.status = "UNKNOWN"

LEMMA QuietStep ==
  ASSUME TypeOK, TypeOK', OperationInv, NEW i \in Keys, NEW w \in Execs \cup {None},
         Frame(w, i), Quiet(op[i], op'[i]), money'[i] = money[i], delivery'[i] = delivery[i],
         answered' = answered,
         w \in Execs => RequestInv(w)',
         w \in Execs /\ exec'[w].pc \in LateSteps => Late(w, i)
  PROVE  OperationInv'
<1>0. op[i] \in Rows /\ op'[i] \in Rows /\ RowInv(i) /\ ProviderInv(i)
  BY DEF TypeOK, OperationInv
<1>1. op[i].id \in Nat
  BY <1>0, OperationAssumption DEF Rows
<1>2. Moves(op[i], op'[i])
  <2>1. op[i].id <= op'[i].id
    BY <1>1 DEF Quiet
  <2>2. op[i].status \in {"SUCCEEDED", "MANUAL_REQUIRED"} => op'[i].token = op[i].token
    BY DEF Quiet
  <2> QED BY <2>1, <2>2 DEF Quiet, Moves, Past
<1>3. charges'[i] = charges[i] /\ invoice'[i] = invoice[i] /\ (i \in notified => i \in notified')
  BY DEF Frame
<1>4. RowInv(i)'
  <2>1. Past(op[i]) <=> Past(op'[i])
    BY DEF Quiet, Past
  <2>2. op'[i].status \in {"ABSENT", "SUCCEEDED"} <=> op[i].status \in {"ABSENT", "SUCCEEDED"}
    BY DEF Quiet
  <2>3. op'[i].status = "SUCCEEDED" <=> op[i].status = "SUCCEEDED"
    BY DEF Quiet
  <2>4. op'[i].token = None <=> op'[i].tlease = "NULL"
    BY <1>0 DEF Quiet, RowInv
  <2>5. op'[i].token # None => op'[i].status \in {"UNKNOWN", "MANUAL_REQUIRED"}
    BY <1>0 DEF Quiet, RowInv
  <2>6. ~Past(op[i]) => op'[i].token = None
    BY <1>0 DEF Quiet, RowInv
  <2>7. op'[i].linked = op[i].linked /\ op'[i].result = op[i].result /\ op'[i].id = op[i].id
        /\ (op'[i].tlease = "LIVE" => op'[i].status = "UNKNOWN")
    BY DEF Quiet
  <2>8. op'[i].status # "ABSENT" => op[i].status # "ABSENT"
    BY DEF Quiet
  <2> QED BY <1>0, <1>3, <2>1, <2>3, <2>4, <2>5, <2>6, <2>7, <2>8 DEF RowInv
<1>5. ProviderInv(i)'
  BY <1>0, <1>3 DEF Quiet, ProviderInv
<1>6. op'[i].result = op[i].result
  BY DEF Quiet
<1> QED BY <1>2, <1>4, <1>5, <1>6, FrameStep

\* A request that ends relies on nothing.
LEMMA Ends ==
  ASSUME NEW w \in Execs, TypeOK, End(w)
  PROVE  RequestInv(w)' /\ exec'[w].pc = "idle"
<1>1. exec'[w].pc = "idle"
  BY DEF TypeOK, End, Idle
<1> QED BY <1>1 DEF RequestInv, LateSteps, ReconcileSteps

\* A request that gives up relies on nothing but its key.
LEMMA GivesUp ==
  ASSUME TypeOK, OperationInv, NEW w \in Execs, ~Running(w, "idle"),
         op'[exec[w].key].id = op[exec[w].key].id,
         Past(op[exec[w].key]) => Past(op'[exec[w].key]),
         \/ Goto(w, "fail")
         \/ exec[w].pc \in ReconcileSteps /\ (Goto(w, "retry") \/ Goto(w, "manual"))
  PROVE  RequestInv(w)' /\ exec'[w].pc \notin LateSteps /\ exec'[w].key = exec[w].key
<1>1. exec'[w].key = exec[w].key /\ exec'[w].id = exec[w].id
      /\ exec'[w].pc \in {"fail", "retry", "manual"}
      /\ (exec'[w].pc # "fail" => exec[w].pc \in ReconcileSteps)
  BY DEF TypeOK, Requests, Goto
<1>2. RequestInv(w) /\ exec[w].pc # "idle"
  BY DEF OperationInv, Running
<1> QED BY <1>1, <1>2 DEF RequestInv, LateSteps, ReconcileSteps

\* A request that moves rows of its own key only.
LEMMA OwnFrame ==
  ASSUME TypeOK, OperationInv, NEW w \in Execs, ~Running(w, "idle"),
         UNCHANGED <<invoice, charges>>,
         \A j \in Keys \ {exec[w].key} : op'[j] = op[j] /\ money'[j] = money[j] /\ delivery'[j] = delivery[j],
         money[exec[w].key] # "none" => money'[exec[w].key] # "none",
         notified \subseteq notified',
         \A v \in Execs \ {w} : exec'[v] = exec[v],
         exec'[w].pc # "idle" => exec'[w].key = exec[w].key
  PROVE  exec[w].key \in Keys /\ Frame(w, exec[w].key)
BY DEF OperationInv, RequestInv, Frame, Running
\* Leases, backoffs and sweeps.
LEMMA RowActionInv ==
  ASSUME TypeOK, TypeOK', OperationInv, NEW i \in Keys,
         \/ ExpireProcessing(i) \/ GiveUpReconciliation(i) \/ ExpireReconciliation(i)
         \/ LeaseExpires(i) \/ ReconciliationLeaseExpires(i) \/ BackoffElapses(i)
         \/ ReplayWindowEnds(i)
  PROVE  OperationInv'
<1>0. op[i] \in Rows /\ op \in [Keys -> Rows] /\ RowInv(i) /\ None \notin Execs
  BY OperationAssumption DEF TypeOK, OperationInv
<1>1. \A row : Put(i, row) => op'[i] = row /\ \A j \in Keys \ {i} : op'[j] = op[j]
  BY <1>0 DEF Put
<1>2. UNCHANGED <<exec, invoice, charges, money, delivery, notified, answered>>
  BY RowActionTypes DEF purchase
<1>3. ASSUME NEW row, Put(i, row) PROVE Frame(None, i)
  BY <1>0, <1>1, <1>2, <1>3 DEF Frame
<1>4. ASSUME NEW row, Put(i, row), Quiet(op[i], row) PROVE OperationInv'
  BY <1>0, <1>1, <1>2, <1>3, <1>4, QuietStep
<1>5. CASE ExpireProcessing(i)
  <2>1. Put(i, Unknown(op[i])) /\ Overdue(op[i])
    BY <1>5 DEF ExpireProcessing
  <2>2. Quiet(op[i], Unknown(op[i]))
    BY <1>0, <2>1, UnknownRow DEF Quiet, Overdue, RowInv
  <2> QED BY <1>4, <2>1, <2>2
<1>6. CASE GiveUpReconciliation(i)
  <2>1. Put(i, Manual(Unknown(op[i]))) /\ op[i].status \in {"UNKNOWN", "PROCESSING"}
        /\ op[i].token = None
    BY <1>6 DEF GiveUpReconciliation, LastChanceGone, Recoverable, Overdue
  <2>2. Unknown(op[i]) \in Rows
    BY <1>0, RowTypes
  <2>3. Quiet(op[i], Manual(Unknown(op[i])))
    BY <1>0, <2>1, <2>2, UnknownRow, ManualRow DEF Quiet, RowInv
  <2> QED BY <1>4, <2>1, <2>3
<1>7. CASE ExpireReconciliation(i)
  <2>1. Put(i, Manual(op[i])) /\ op[i].status = "UNKNOWN" /\ op[i].tlease = "EXPIRED"
    BY <1>7 DEF ExpireReconciliation
  <2>2. Quiet(op[i], Manual(op[i]))
    BY <1>0, <2>1, ManualRow DEF Quiet, RowInv
  <2> QED BY <1>4, <2>1, <2>2
<1>8. CASE LeaseExpires(i)
  <2>1. Put(i, [op[i] EXCEPT !.lease = "EXPIRED"])
    BY <1>8 DEF LeaseExpires
  <2>2. Quiet(op[i], [op[i] EXCEPT !.lease = "EXPIRED"])
    BY <1>0 DEF Quiet, RowInv, Rows
  <2> QED BY <1>4, <2>1, <2>2
<1>9. CASE ReconciliationLeaseExpires(i)
  <2>1. Put(i, [op[i] EXCEPT !.tlease = "EXPIRED"]) /\ op[i].tlease = "LIVE"
    BY <1>9 DEF ReconciliationLeaseExpires
  <2>2. Quiet(op[i], [op[i] EXCEPT !.tlease = "EXPIRED"])
    BY <1>0, <2>1 DEF Quiet, RowInv, Rows
  <2> QED BY <1>4, <2>1, <2>2
<1>10. CASE BackoffElapses(i)
  <2>1. Put(i, [op[i] EXCEPT !.due = "yes"])
    BY <1>10 DEF BackoffElapses
  <2>2. Quiet(op[i], [op[i] EXCEPT !.due = "yes"])
    BY <1>0 DEF Quiet, RowInv, Rows
  <2> QED BY <1>4, <2>1, <2>2
<1>11. CASE ReplayWindowEnds(i)
  <2>1. Put(i, [op[i] EXCEPT !.replay = "OVER"])
    BY <1>11 DEF ReplayWindowEnds
  <2>2. Quiet(op[i], [op[i] EXCEPT !.replay = "OVER"])
    BY <1>0 DEF Quiet, RowInv, Rows
  <2> QED BY <1>4, <2>1, <2>2
<1> QED BY <1>5, <1>6, <1>7, <1>8, <1>9, <1>10, <1>11

\* A row that stays as it is.
LEMMA SameRowIsQuiet ==
  ASSUME TypeOK, OperationInv, NEW i \in Keys, op'[i] = op[i]
  PROVE  Quiet(op[i], op'[i])
BY DEF OperationInv, RowInv, Quiet

\* A request gives up and leaves every row alone.
LEMMA GivingUpInv ==
  ASSUME TypeOK, TypeOK', OperationInv, NEW w \in Execs, ~Running(w, "idle"),
         UNCHANGED <<op, invoice, charges, purchase, notified, answered>>,
         \/ End(w) \/ Goto(w, "fail")
         \/ exec[w].pc \in ReconcileSteps /\ (Goto(w, "retry") \/ Goto(w, "manual"))
  PROVE  OperationInv'
<1>1. RequestInv(w)' /\ exec'[w].pc \notin LateSteps /\ (exec'[w].pc # "idle" => exec'[w].key = exec[w].key)
  <2>1. CASE End(w)
    BY <2>1, Ends DEF LateSteps
  <2>2. CASE ~End(w)
    BY <2>2, GivesUp
  <2> QED BY <2>1, <2>2
<1>2. \A v \in Execs \ {w} : exec'[v] = exec[v]
  BY DEF TypeOK, End, Goto
<1>3. exec[w].key \in Keys /\ Frame(w, exec[w].key)
  BY <1>1, <1>2, OwnFrame DEF purchase
<1>4. Quiet(op[exec[w].key], op'[exec[w].key])
  BY <1>3, SameRowIsQuiet
<1> QED BY <1>1, <1>3, <1>4, QuietStep DEF purchase

\* A reconciliation ends and settles its row one way or another.
LEMMA QuietEndInv ==
  ASSUME TypeOK, TypeOK', OperationInv, NEW w \in Execs, ~Running(w, "idle"), End(w),
         UNCHANGED <<invoice, charges, purchase, notified, answered>>,
         NEW row, Put(exec[w].key, row), Quiet(op[exec[w].key], row)
  PROVE  OperationInv'
<1>1. RequestInv(w)' /\ exec'[w].pc = "idle" /\ exec'[w].pc \notin LateSteps
  BY Ends DEF LateSteps
<1>2. \A v \in Execs \ {w} : exec'[v] = exec[v]
  BY DEF TypeOK, End
<1>3. exec[w].key \in Keys
  BY DEF OperationInv, RequestInv, Running
<1>4. op'[exec[w].key] = row /\ \A j \in Keys \ {exec[w].key} : op'[j] = op[j]
  BY <1>3 DEF TypeOK, Put
<1>5. Frame(w, exec[w].key)
  BY <1>1, <1>2, <1>4, OwnFrame DEF purchase
<1> QED BY <1>1, <1>3, <1>4, <1>5, QuietStep DEF purchase

\* Requests that fail, release their row or leave it to an operator.
LEMMA ClosingInv ==
  ASSUME TypeOK, TypeOK', OperationInv, NEW w \in Execs,
         PrepareFails(w) \/ Fail(w) \/ ReconcileFails(w) \/ RetryLater(w) \/ HandToOperator(w)
           \/ Crash(w)
  PROVE  OperationInv'
<1> DEFINE i == exec[w].key
<1>1. ~Running(w, "idle")
  BY DEF Running, ReconcileSteps, PrepareFails, Fail, ReconcileFails, RetryLater, HandToOperator, Crash
<1>2. i \in Keys /\ op[i] \in Rows /\ RowInv(i)
  BY <1>1, RequestTypes DEF TypeOK, OperationInv
<1>3. CASE PrepareFails(w)
  BY <1>1, <1>3, GivingUpInv DEF PrepareFails
<1>4. CASE Fail(w)
  <2>1. CASE Processing(w)
    <3>1. Put(i, Unknown(op[i])) /\ End(w)
      BY <1>4, <2>1 DEF Fail
    <3>2. Quiet(op[i], Unknown(op[i]))
      BY <1>2, <2>1, UnknownRow DEF Quiet, RowInv, Processing
    <3> QED BY <1>1, <1>4, <3>1, <3>2, QuietEndInv DEF Fail
  <2>2. CASE ~Processing(w)
    BY <1>1, <1>4, <2>2, GivingUpInv DEF Fail
  <2> QED BY <2>1, <2>2
<1>5. CASE ReconcileFails(w)
  BY <1>1, <1>5, GivingUpInv DEF ReconcileFails
<1>6. Holds(w) => op[i].status = "UNKNOWN"
  BY <1>2 DEF Holds, RowInv
<1>7. CASE RetryLater(w)
  <2>1. CASE Holds(w)
    <3>1. Quiet(op[i], Released(op[i]))
      BY <1>2, <1>6, <2>1, ReleasedRow DEF Quiet
    <3>2. Quiet(op[i], Manual([op[i] EXCEPT !.token = None, !.tlease = "NULL"]))
      <4>1. [op[i] EXCEPT !.token = None, !.tlease = "NULL"] \in Rows
        BY <1>2, RowTypes
      <4> QED BY <1>2, <1>6, <2>1, <4>1, ManualRow DEF Quiet, Rows
    <3>3. CASE op[i].attempt >= MaxAttempts
      BY <1>1, <1>7, <2>1, <3>2, <3>3, QuietEndInv DEF RetryLater
    <3>4. CASE ~(op[i].attempt >= MaxAttempts)
      BY <1>1, <1>7, <2>1, <3>1, <3>4, QuietEndInv DEF RetryLater
    <3> QED BY <3>3, <3>4
  <2>2. CASE ~Holds(w)
    BY <1>1, <1>7, <2>2, GivingUpInv DEF RetryLater
  <2> QED BY <2>1, <2>2
<1>8. CASE HandToOperator(w)
  <2>1. CASE Holds(w)
    <3>1. Quiet(op[i], Manual([op[i] EXCEPT !.token = None, !.tlease = "NULL"]))
      <4>1. [op[i] EXCEPT !.token = None, !.tlease = "NULL"] \in Rows
        BY <1>2, RowTypes
      <4> QED BY <1>2, <1>6, <2>1, <4>1, ManualRow DEF Quiet, Rows
    <3> QED BY <1>1, <1>8, <2>1, <3>1, QuietEndInv DEF HandToOperator
  <2>2. CASE ~Holds(w)
    BY <1>1, <1>8, <2>2, GivingUpInv DEF HandToOperator
  <2> QED BY <2>1, <2>2
<1>9. CASE Crash(w)
  BY <1>1, <1>9, GivingUpInv DEF Crash
<1> QED BY <1>3, <1>4, <1>5, <1>7, <1>8, <1>9
(***************************************************************************)
(* The request that leads an operation.                                    *)
(***************************************************************************)
LEMMA GoneInv ==
  ASSUME TypeOK, TypeOK', OperationInv, NEW i \in Keys, NEW w \in Execs \cup {None},
         Frame(w, i), op[i].status = "CLAIMED", op'[i] = Gone(op[i]),
         money'[i] = money[i], delivery'[i] = delivery[i], answered' = answered,
         w \in Execs => RequestInv(w)' /\ exec'[w].pc = "idle"
  PROVE  OperationInv'
<1>0. op[i] \in Rows /\ RowInv(i) /\ ProviderInv(i) /\ charges'[i] = charges[i] /\ ~Past(op[i])
      /\ invoice'[i] = invoice[i]
  BY DEF TypeOK, OperationInv, Frame, Past
<1>1. op[i].id \in Nat /\ charges[i] = 0
  BY <1>0, OperationAssumption DEF Rows, RowInv
<1>2. /\ op'[i].status = "ABSENT" /\ op'[i].id = op[i].id /\ op'[i].linked = "no"
      /\ op'[i].result = "NULL" /\ op'[i].token = None /\ op'[i].tlease = "NULL" /\ ~Past(op'[i])
  BY <1>0, GoneRow DEF Past
<1>3. Moves(op[i], op'[i])
  BY <1>0, <1>1, <1>2 DEF Moves
<1>4. RowInv(i)'
  BY <1>0, <1>1, <1>2 DEF RowInv
<1>5. ProviderInv(i)'
  BY <1>0, <1>1 DEF ProviderInv
<1>6. w \in Execs => exec'[w].pc \notin LateSteps
  BY DEF LateSteps
<1> QED BY <1>0, <1>2, <1>3, <1>4, <1>5, <1>6, FrameStep

LEMMA ClaimInv ==
  ASSUME TypeOK, TypeOK', OperationInv, NEW w \in Execs, NEW i \in Keys, NEW b \in Bodies,
         ClaimOperation(w, i, b) \/ ReclaimOperation(w, i, b)
  PROVE  OperationInv'
<1>0. op[i] \in Rows /\ op \in [Keys -> Rows] /\ RowInv(i) /\ ProviderInv(i)
  BY DEF TypeOK, OperationInv
<1>1. op[i].id \in Nat
  BY <1>0, OperationAssumption DEF Rows
<1>2. /\ \A v \in Execs \ {w} : exec'[v] = exec[v]
      /\ exec'[w] = [pc |-> "validate", key |-> i, id |-> op'[i].id, body |-> b, seen |-> "NULL"]
      /\ UNCHANGED <<invoice, charges, money, delivery, notified, answered>>
      /\ \A j \in Keys \ {i} : op'[j] = op[j]
  BY <1>0 DEF ClaimOperation, ReclaimOperation, Lead, Put, TypeOK, purchase
<1>3. Frame(w, i) /\ exec'[w].pc \notin LateSteps
  BY <1>2 DEF Frame, LateSteps
<1>4. op'[i].body = b => RequestInv(w)'
  <2>1. op'[i].id <= op'[i].id
    BY OperationAssumption DEF TypeOK, Rows
  <2> QED BY <1>2, <2>1 DEF RequestInv, LateSteps, ReconcileSteps
<1>5. CASE ClaimOperation(w, i, b)
  <2>1. op[i].status = "ABSENT" /\ op'[i] = NewRow(op[i].id + 1, b)
    BY <1>0, <1>5 DEF ClaimOperation, Put
  <2>2. /\ op'[i].status = "CLAIMED" /\ op'[i].id = op[i].id + 1 /\ op'[i].body = b
        /\ op'[i].linked = "no" /\ op'[i].result = "NULL" /\ op'[i].token = None
        /\ op'[i].tlease = "NULL"
    BY <2>1, NewRowRow
  <2>3. ~Past(op[i]) /\ charges[i] = 0
    BY <1>0, <2>1 DEF Past, RowInv
  <2>4. Moves(op[i], op'[i])
    BY <1>1, <2>1, <2>2, <2>3 DEF Moves
  <2>5. RowInv(i)'
    BY <1>0, <1>1, <1>2, <2>2, <2>3 DEF RowInv, Past
  <2>6. ProviderInv(i)'
    BY <1>0, <1>2, <2>3 DEF ProviderInv
  <2> QED BY <1>2, <1>3, <1>4, <2>2, <2>3, <2>4, <2>5, <2>6, FrameStep
<1>6. CASE ReclaimOperation(w, i, b)
  <2>1. op'[i] = [op[i] EXCEPT !.lease = "LIVE"] /\ op[i].body = b
    BY <1>0, <1>6 DEF ReclaimOperation, Put
  <2>2. Quiet(op[i], op'[i]) /\ op'[i].body = b
    BY <1>0, <2>1 DEF Quiet, RowInv, Rows
  <2> QED BY <1>2, <1>3, <1>4, <2>2, QuietStep
<1> QED BY <1>5, <1>6

\* A refused request, and a claim whose leader is gone.
LEMMA ForgetInv ==
  ASSUME TypeOK, TypeOK', OperationInv,
         (\E w \in Execs : Abandon(w)) \/ (\E i \in Keys : DeleteExpiredClaim(i))
  PROVE  OperationInv'
<1>1. ASSUME NEW w \in Execs, Abandon(w) PROVE OperationInv'
  <2> DEFINE i == exec[w].key
  <2>1. ~Running(w, "idle") /\ i \in Keys
    BY <1>1, RequestTypes DEF Abandon, Running
  <2>2. CASE ~Deletable(w)
    BY <1>1, <2>1, <2>2, GivingUpInv DEF Abandon
  <2>3. CASE Deletable(w)
    <3>1. op[i].status = "CLAIMED" /\ op'[i] = Gone(op[i]) /\ \A j \in Keys \ {i} : op'[j] = op[j]
      BY <1>1, <2>1, <2>3 DEF Abandon, Deletable, Put, TypeOK
    <3>2. RequestInv(w)' /\ exec'[w].pc = "idle" /\ \A v \in Execs \ {w} : exec'[v] = exec[v]
      BY <1>1, Ends DEF Abandon, End, TypeOK
    <3>3. UNCHANGED <<invoice, charges, money, delivery, notified, answered>>
      BY <1>1 DEF Abandon, purchase
    <3>4. Frame(w, i)
      BY <2>1, <3>1, <3>2, <3>3, OwnFrame
    <3> QED BY <2>1, <3>1, <3>2, <3>3, <3>4, GoneInv
  <2> QED BY <2>2, <2>3
<1>2. ASSUME NEW i \in Keys, DeleteExpiredClaim(i) PROVE OperationInv'
  <2>1. op[i].status = "CLAIMED" /\ op'[i] = Gone(op[i]) /\ \A j \in Keys \ {i} : op'[j] = op[j]
    BY <1>2 DEF DeleteExpiredClaim, Claimable, Put, TypeOK
  <2>2. UNCHANGED <<exec, invoice, charges, money, delivery, notified, answered>>
    BY <1>2 DEF DeleteExpiredClaim, purchase
  <2>3. None \notin Execs
    BY OperationAssumption
  <2>4. Frame(None, i)
    BY <2>1, <2>2, <2>3 DEF Frame
  <2> QED BY <2>1, <2>2, <2>3, <2>4, GoneInv
<1> QED BY <1>1, <1>2

LEMMA MarkProcessingInv ==
  ASSUME TypeOK, TypeOK', OperationInv, NEW w \in Execs, MarkProcessing(w)
  PROVE  OperationInv'
<1>0. ~Running(w, "idle") /\ exec[w].key \in Keys
  BY RequestTypes DEF MarkProcessing, Running
<1>1. PICK i \in Keys : i = exec[w].key
  BY <1>0
<1>2. CASE ~Startable(w)
  BY <1>0, <1>2, GivingUpInv DEF MarkProcessing
<1>3. CASE Startable(w)
  <2>0. op[i] \in Rows /\ op \in [Keys -> Rows] /\ exec \in [Execs -> Requests] /\ RowInv(i)
        /\ ProviderInv(i) /\ RequestInv(w)
    BY <1>1 DEF TypeOK, OperationInv
  <2>1. op[i].status = "CLAIMED" /\ op[i].id = exec[w].id /\ ~Past(op[i]) /\ charges[i] = 0
    BY <1>1, <1>3, <2>0 DEF Startable, SameRow, Past, RowInv
  <2>2. exec[w].body = op[i].body
    BY <1>1, <2>0, <2>1 DEF RequestInv, MarkProcessing, Running
  <2>3. PICK x \in {"OPEN", "NULL"} :
          Put(i, [op[i] EXCEPT !.status = "PROCESSING", !.lease = "LIVE", !.replay = x])
    BY <1>1, <1>3 DEF MarkProcessing
  <2>4. /\ op'[i].status = "PROCESSING" /\ op'[i].id = op[i].id /\ op'[i].body = op[i].body
        /\ op'[i].linked = op[i].linked /\ op'[i].result = op[i].result
        /\ op'[i].token = op[i].token /\ op'[i].tlease = op[i].tlease /\ Past(op'[i])
    BY <1>1, <2>0, <2>3 DEF Put, Rows, Past
  <2>5. \A j \in Keys \ {i} : op'[j] = op[j]
    BY <2>0, <2>3 DEF Put
  <2>6. IF i \in FreeKeys THEN GotoSeeing(w, "checkpoint", "LOCAL") ELSE Goto(w, "call")
    BY <1>1, <1>3 DEF MarkProcessing
  <2>7. /\ exec'[w].key = i /\ exec'[w].id = exec[w].id /\ exec'[w].body = exec[w].body
        /\ i \in FreeKeys => exec'[w].pc = "checkpoint" /\ exec'[w].seen = "LOCAL"
        /\ i \notin FreeKeys => exec'[w].pc = "call"
        /\ \A v \in Execs \ {w} : exec'[v] = exec[v]
    BY <1>1, <2>0, <2>6 DEF Goto, GotoSeeing, Requests
  <2>8. UNCHANGED <<invoice, charges, money, delivery, notified, answered>>
    BY DEF MarkProcessing, purchase
  <2>9. op[i].id \in Nat
    BY <2>0, OperationAssumption DEF Rows
  <2>10. Frame(w, i)
    BY <1>0, <1>1, <2>5, <2>7, <2>8, OwnFrame
  <2>11. Moves(op[i], op'[i])
    BY <2>1, <2>4, <2>9 DEF Moves
  <2>12. RowInv(i)'
    BY <2>0, <2>1, <2>4, <2>8 DEF RowInv
  <2>13. ProviderInv(i)'
    BY <2>0, <2>1, <2>8 DEF ProviderInv
  <2>14. RequestInv(w)'
    <3>1. CASE i \in FreeKeys
      BY <1>1, <2>1, <2>2, <2>4, <2>7, <2>9, <3>1 DEF RequestInv, LateSteps, ReconcileSteps
    <3>2. CASE i \notin FreeKeys
      BY <1>1, <2>1, <2>2, <2>4, <2>7, <2>8, <2>9, <3>2 DEF RequestInv, LateSteps, ReconcileSteps
    <3> QED BY <3>1, <3>2
  <2> QED BY <1>1, <2>1, <2>8, <2>10, <2>11, <2>12, <2>13, <2>14, FrameStep
<1> QED BY <1>2, <1>3

\* The provider's payment is written down.
LEMMA CheckpointInv ==
  ASSUME TypeOK, TypeOK', OperationInv, NEW w \in Execs, Checkpoint(w) \/ CheckpointReplay(w)
  PROVE  OperationInv'
<1>0. ~Running(w, "idle") /\ exec[w].key \in Keys
  BY RequestTypes DEF Checkpoint, CheckpointReplay, Running
<1>1. PICK i \in Keys : i = exec[w].key
  BY <1>0
<1>2. op[i] \in Rows /\ op \in [Keys -> Rows] /\ exec \in [Execs -> Requests] /\ RowInv(i)
      /\ ProviderInv(i) /\ RequestInv(w) /\ exec[w].pc \in {"checkpoint", "recheck"}
  BY <1>1 DEF TypeOK, OperationInv, Checkpoint, CheckpointReplay, Running
<1>3. CASE Goto(w, "fail") /\ op' = op
  BY <1>0, <1>3, GivingUpInv DEF Checkpoint, CheckpointReplay
<1>4. CASE Goto(w, "retry") /\ op' = op /\ exec[w].pc = "recheck"
  BY <1>0, <1>4, GivingUpInv DEF Checkpoint, CheckpointReplay, ReconcileSteps
<1>5. ASSUME /\ Put(i, [op[i] EXCEPT !.result = exec[w].seen])
             /\ op[i].status \in {"PROCESSING", "UNKNOWN"}
             /\ \/ /\ exec[w].pc = "checkpoint"
                   /\ Goto(w, "fail") \/ (Goto(w, "create") /\ exec[w].seen # "succeeded")
                \/ exec[w].pc = "recheck" /\ op[i].status = "UNKNOWN" /\ Goto(w, "verify")
      PROVE  OperationInv'
  <2>2. /\ op'[i].status = op[i].status /\ op'[i].id = op[i].id /\ op'[i].body = op[i].body
        /\ op'[i].linked = op[i].linked /\ op'[i].result = exec[w].seen
        /\ op'[i].token = op[i].token /\ op'[i].tlease = op[i].tlease
        /\ op'[i].replay = op[i].replay /\ Past(op'[i])
    BY <1>2, <1>5 DEF Put, Rows, Past
  <2>3. \A j \in Keys \ {i} : op'[j] = op[j]
    BY <1>2, <1>5 DEF Put
  <2>4. /\ exec'[w].key = i /\ exec'[w].id = exec[w].id /\ exec'[w].body = exec[w].body
        /\ exec[w].pc = "checkpoint" => exec'[w].pc \in {"fail", "create"}
        /\ exec'[w].pc = "create" => exec[w].seen # "succeeded"
        /\ exec[w].pc = "recheck" => exec'[w].pc = "verify"
        /\ \A v \in Execs \ {w} : exec'[v] = exec[v]
    BY <1>1, <1>2, <1>5 DEF Goto, Requests
  <2>5. UNCHANGED <<invoice, charges, money, delivery, notified, answered>>
    BY DEF Checkpoint, CheckpointReplay, purchase
  <2>6. op[i].id \in Nat
    BY <1>2, OperationAssumption DEF Rows
  <2>7. exec[w].id = op[i].id /\ (exec[w].pc = "checkpoint" => exec[w].body = op[i].body)
        /\ IF i \in FreeKeys THEN exec[w].seen = "LOCAL" ELSE charges[i] = 1
    BY <1>1, <1>2 DEF RequestInv, LateSteps, ReconcileSteps
  <2>8. Frame(w, i)
    BY <1>0, <1>1, <2>3, <2>4, <2>5, OwnFrame
  <2>9. Moves(op[i], op'[i])
    BY <1>5, <2>2, <2>6 DEF Moves, Past
  <2>10. RowInv(i)'
    BY <1>2, <1>5, <2>2, <2>5, <2>7 DEF RowInv
  <2>11. ProviderInv(i)'
    BY <1>2, <2>2, <2>5 DEF ProviderInv
  <2>12. RequestInv(w)'
    <3>1. CASE exec[w].pc = "checkpoint"
      BY <2>2, <2>4, <2>5, <2>6, <2>7, <3>1 DEF RequestInv, LateSteps, ReconcileSteps
    <3>2. CASE exec[w].pc = "recheck"
      <4>1. i \notin FreeKeys
        BY <1>1, <1>2, <3>2 DEF RequestInv
      <4> QED BY <2>2, <2>4, <2>5, <2>6, <2>7, <3>2, <4>1 DEF RequestInv, LateSteps, ReconcileSteps
    <3> QED BY <1>2, <3>1, <3>2
  <2>13. exec'[w].pc \in LateSteps => Late(w, i)
    BY <1>1, <1>2, <2>4 DEF Late, LateSteps
  <2>14. op'[i].status = "PROCESSING" => Late(w, i)
    BY <1>1, <1>5, <2>2 DEF Late, LateSteps
  <2> QED BY <2>5, <2>8, <2>9, <2>10, <2>11, <2>12, <2>13, <2>14, FrameStep
<1>6. CASE Checkpoint(w)
  <2>1. CASE Processing(w) /\ op[i].result \in {"NULL", exec[w].seen}
    BY <1>1, <1>2, <1>5, <1>6, <2>1 DEF Checkpoint, Processing, Running
  <2>2. CASE ~(Processing(w) /\ op[i].result \in {"NULL", exec[w].seen})
    BY <1>1, <1>3, <1>6, <2>2 DEF Checkpoint
  <2> QED BY <2>1, <2>2
<1>7. CASE CheckpointReplay(w)
  <2>1. CASE Holds(w) /\ op[i].result \in {"NULL", exec[w].seen}
    BY <1>1, <1>2, <1>5, <1>7, <2>1 DEF CheckpointReplay, Holds, Running, RowInv
  <2>2. CASE ~(Holds(w) /\ op[i].result \in {"NULL", exec[w].seen})
    BY <1>1, <1>4, <1>7, <2>2 DEF CheckpointReplay, Running
  <2> QED BY <2>1, <2>2
<1> QED BY <1>6, <1>7

\* The transaction is inserted and linked.
LEMMA CreateTransactionInv ==
  ASSUME TypeOK, TypeOK', OperationInv, NEW w \in Execs, CreateTransaction(w)
  PROVE  OperationInv'
<1>0. ~Running(w, "idle") /\ exec[w].key \in Keys
  BY RequestTypes DEF CreateTransaction, Running
<1>1. PICK i \in Keys : i = exec[w].key
  BY <1>0
<1>2. CASE ~(money[i] = "none" /\ Processing(w))
  BY <1>0, <1>1, <1>2, GivingUpInv DEF CreateTransaction
<1>3. CASE money[i] = "none" /\ Processing(w)
  <2>1. op[i] \in Rows /\ op \in [Keys -> Rows] /\ exec \in [Execs -> Requests] /\ RowInv(i)
        /\ ProviderInv(i) /\ RequestInv(w) /\ exec[w].pc = "create" /\ op[i].status = "PROCESSING"
    BY <1>1, <1>3 DEF TypeOK, OperationInv, CreateTransaction, Running, Processing
  <2>2. /\ exec[w].id = op[i].id /\ exec[w].body = op[i].body /\ op[i].result # "succeeded"
        /\ i \in FreeKeys \/ charges[i] = 1
        /\ Late(w, i)
    BY <1>1, <2>1 DEF RequestInv, LateSteps, Late
  <2>3. op[i].id \in Nat
    BY <2>1, OperationAssumption DEF Rows
  <2>4. Promise!Open(i) /\ UNCHANGED <<invoice, charges, notified>>
    BY <1>1, <1>3 DEF CreateTransaction
  <2>5. /\ money'[i] = "due" /\ delivery' = delivery
        /\ \A j \in Keys \ {i} : money'[j] = money[j]
    BY <2>4 DEF Promise!Open, TypeOK
  <2>6. ProviderInv(i)'
    <3>1. op'[i].id = op[i].id /\ op'[i].replay = op[i].replay
      <4>1. op'[i] \in {[op[i] EXCEPT !.linked = "yes"], Succeeded(op[i])}
        BY <1>1, <1>3, <2>1 DEF CreateTransaction, Put
      <4> QED BY <2>1, <4>1, SucceededRow DEF Rows
    <3>2. delivery[i] # "done"
      BY <1>3, <2>1 DEF ProviderInv
    <3> QED BY <2>1, <2>4, <2>5, <3>1, <3>2 DEF ProviderInv
  <2>7. CASE i \in FreeKeys
    <3>1. Put(i, [op[i] EXCEPT !.linked = "yes"]) /\ Goto(w, "purchase") /\ answered' = answered
      BY <1>1, <1>3, <2>7 DEF CreateTransaction
    <3>2. /\ op'[i].status = "PROCESSING" /\ op'[i].id = op[i].id /\ op'[i].body = op[i].body
          /\ op'[i].linked = "yes" /\ op'[i].result = op[i].result
          /\ op'[i].token = op[i].token /\ op'[i].tlease = op[i].tlease /\ Past(op'[i])
          /\ \A j \in Keys \ {i} : op'[j] = op[j]
      BY <2>1, <3>1 DEF Put, Rows, Past
    <3>3. /\ exec'[w].key = i /\ exec'[w].id = exec[w].id /\ exec'[w].body = exec[w].body
          /\ exec'[w].pc = "purchase" /\ \A v \in Execs \ {w} : exec'[v] = exec[v]
      BY <1>1, <2>1, <3>1 DEF Goto, Requests
    <3>4. Frame(w, i)
      BY <1>0, <1>1, <2>4, <2>5, <3>2, <3>3, OwnFrame
    <3>5. Moves(op[i], op'[i])
      BY <2>1, <2>3, <3>2 DEF Moves, Past
    <3>6. RowInv(i)'
      BY <2>1, <2>4, <2>5, <2>7, <3>2 DEF RowInv
    <3>7. RequestInv(w)'
      BY <2>2, <2>3, <2>7, <3>2, <3>3 DEF RequestInv, LateSteps, ReconcileSteps
    <3> QED BY <2>2, <2>6, <3>1, <3>4, <3>5, <3>6, <3>7, FrameStep
  <2>8. CASE i \notin FreeKeys
    <3>1. Put(i, Succeeded(op[i])) /\ End(w) /\ answered' = answered \cup {<<i, exec[w].body>>}
      BY <1>1, <1>3, <2>8 DEF CreateTransaction, Answer
    <3>2. /\ op'[i].status = "SUCCEEDED" /\ op'[i].id = op[i].id /\ op'[i].body = op[i].body
          /\ op'[i].linked = "yes" /\ op'[i].result = op[i].result
          /\ op'[i].token = None /\ op'[i].tlease = "NULL" /\ Past(op'[i])
          /\ \A j \in Keys \ {i} : op'[j] = op[j]
      <4>1. op'[i] = Succeeded(op[i]) /\ \A j \in Keys \ {i} : op'[j] = op[j]
        BY <2>1, <3>1 DEF Put
      <4> QED BY <2>1, <4>1, SucceededRow DEF Past
    <3>3. RequestInv(w)' /\ exec'[w].pc = "idle" /\ \A v \in Execs \ {w} : exec'[v] = exec[v]
      BY <3>1, Ends DEF End, TypeOK
    <3>4. Frame(w, i)
      BY <1>0, <1>1, <2>4, <2>5, <3>2, <3>3, OwnFrame
    <3>5. Moves(op[i], op'[i])
      BY <2>1, <2>3, <3>2 DEF Moves, Past
    <3>6. RowInv(i)'
      BY <2>1, <2>2, <2>4, <2>5, <2>8, <3>2 DEF RowInv
    <3> QED BY <2>2, <2>6, <3>1, <3>2, <3>3, <3>4, <3>5, <3>6, FrameStep DEF LateSteps
  <2> QED BY <2>7, <2>8
<1> QED BY <1>2, <1>3

\* The free purchase is processed, and its response stored.
LEMMA FreePurchaseInv ==
  ASSUME TypeOK, TypeOK', OperationInv, NEW w \in Execs, Purchase(w) \/ CompleteFree(w)
  PROVE  OperationInv'
<1>0. ~Running(w, "idle") /\ exec[w].key \in Keys
  BY RequestTypes DEF Purchase, CompleteFree, Running
<1>1. PICK i \in Keys : i = exec[w].key
  BY <1>0
<1>2. op[i] \in Rows /\ op \in [Keys -> Rows] /\ exec \in [Execs -> Requests] /\ RowInv(i)
      /\ ProviderInv(i) /\ RequestInv(w) /\ exec[w].pc \in {"purchase", "complete"}
  BY <1>1 DEF TypeOK, OperationInv, Purchase, CompleteFree, Running
<1>3. i \in FreeKeys /\ exec[w].id = op[i].id /\ exec[w].body = op[i].body /\ Past(op[i])
      /\ Late(w, i)
  BY <1>1, <1>2 DEF RequestInv, LateSteps, Late
<1>4. op[i].id \in Nat
  BY <1>2, OperationAssumption DEF Rows
<1>5. CASE Purchase(w)
  <2>1. /\ exec'[w].key = i /\ exec'[w].id = exec[w].id /\ exec'[w].body = exec[w].body
        /\ exec'[w].pc \in {"complete", "fail"} /\ \A v \in Execs \ {w} : exec'[v] = exec[v]
    BY <1>1, <1>2, <1>5 DEF Purchase, Goto, Requests
  <2>2. UNCHANGED <<op, invoice, charges, money, delivery, answered>> /\ notified \subseteq notified'
    BY <1>5 DEF Purchase, purchase
  <2>3. Frame(w, i)
    BY <1>0, <1>1, <2>1, <2>2, OwnFrame
  <2>4. RequestInv(w)'
    BY <1>3, <1>4, <2>1, <2>2 DEF RequestInv, LateSteps, ReconcileSteps
  <2> QED BY <1>3, <2>2, <2>3, <2>4, SameRowIsQuiet, QuietStep
<1>6. CASE CompleteFree(w) /\ ~Completable(w)
  BY <1>0, <1>6, GivingUpInv DEF CompleteFree
<1>7. CASE CompleteFree(w) /\ Completable(w)
  <2>1. /\ op[i].status = "PROCESSING" /\ op[i].linked = "yes" /\ delivery[i] = "done"
        /\ Put(i, Succeeded(op[i])) /\ End(w) /\ answered' = answered \cup {<<i, exec[w].body>>}
        /\ UNCHANGED <<invoice, charges, money, delivery, notified>>
    BY <1>1, <1>7 DEF CompleteFree, Completable, Processing, Answer, purchase
  <2>2. /\ op'[i].status = "SUCCEEDED" /\ op'[i].id = op[i].id /\ op'[i].body = op[i].body
        /\ op'[i].linked = "yes" /\ op'[i].result = op[i].result /\ op'[i].replay = op[i].replay
        /\ op'[i].token = None /\ op'[i].tlease = "NULL" /\ Past(op'[i])
        /\ \A j \in Keys \ {i} : op'[j] = op[j]
    <3>1. op'[i] = Succeeded(op[i]) /\ \A j \in Keys \ {i} : op'[j] = op[j]
      BY <1>2, <2>1 DEF Put
    <3> QED BY <1>2, <3>1, SucceededRow DEF Past
  <2>3. RequestInv(w)' /\ exec'[w].pc = "idle" /\ \A v \in Execs \ {w} : exec'[v] = exec[v]
    BY <2>1, Ends DEF End, TypeOK
  <2>4. Frame(w, i)
    BY <1>0, <1>1, <2>1, <2>2, <2>3, OwnFrame
  <2>5. Moves(op[i], op'[i])
    BY <1>4, <2>1, <2>2 DEF Moves, Past
  <2>6. RowInv(i)'
    BY <1>2, <1>3, <2>1, <2>2 DEF RowInv
  <2>7. ProviderInv(i)'
    BY <1>2, <2>1, <2>2 DEF ProviderInv
  <2> QED BY <1>3, <2>1, <2>2, <2>3, <2>4, <2>5, <2>6, <2>7, FrameStep DEF LateSteps
<1> QED BY <1>5, <1>6, <1>7
(***************************************************************************)
(* The provider.                                                           *)
(***************************************************************************)
LEMMA ChargeInv ==
  ASSUME TypeOK, TypeOK', OperationInv, NEW w \in Execs, CallProvider(w) \/ ReplayAtProvider(w)
  PROVE  OperationInv'
<1>0. ~Running(w, "idle") /\ exec[w].key \in Keys
  BY RequestTypes DEF CallProvider, ReplayAtProvider, Running
<1>1. PICK i \in Keys : i = exec[w].key
  BY <1>0
<1>2. op[i] \in Rows /\ exec \in [Execs -> Requests] /\ invoice \in [Keys -> Invoices] /\ RowInv(i)
      /\ charges \in [Keys -> Nat]
      /\ ProviderInv(i) /\ RequestInv(w) /\ exec[w].pc \in {"call", "replay"}
  BY <1>1 DEF TypeOK, OperationInv, CallProvider, ReplayAtProvider, Running
<1>3. /\ exec[w].id = op[i].id /\ Past(op[i]) /\ i \notin FreeKeys
      /\ exec[w].pc = "call" => exec[w].body = op[i].body
      /\ i \notin ReplayKeys => charges[i] = 0 /\ exec[w].pc = "call"
      /\ i \in ReplayKeys /\ charges[i] = 1 => invoice[i].key = op[i].id
  BY <1>1, <1>2, OperationAssumption DEF RequestInv, LateSteps, ReconcileSteps
<1>4. op[i].id \in Nat /\ op[i].id # 0
  BY <1>2, <1>3, OperationAssumption DEF Rows, RowInv, Past
<1>5. UNCHANGED <<op, money, delivery, notified, answered>>
  BY DEF CallProvider, ReplayAtProvider, purchase
<1>6. CASE UNCHANGED <<invoice, charges>> /\ exec[w].pc = "call" /\ Goto(w, "fail")
  BY <1>0, <1>5, <1>6, GivingUpInv DEF CallProvider, ReplayAtProvider
<1>7. CASE /\ Charge(i, op[i].id)
           /\ \E s \in {"checkpoint", "fail", "recheck", "retry"} :
                /\ exec[w].pc = "call" => s \in {"checkpoint", "fail"}
                /\ exec[w].pc = "replay" => s \in {"recheck", "retry"}
                /\ Goto(w, s) \/ \E x : GotoSeeing(w, s, x)
  <2>1. /\ charges'[i] = 1 /\ invoice'[i].key = op[i].id
        /\ \A j \in Keys \ {i} : charges'[j] = charges[j] /\ invoice'[j] = invoice[j]
    <3>1. CASE i \in ReplayKeys /\ invoice[i].key = op[i].id
      BY <1>2, <1>4, <1>7, <3>1 DEF Charge, ProviderInv
    <3>2. CASE ~(i \in ReplayKeys /\ invoice[i].key = op[i].id)
      <4>1. charges[i] = 0
        BY <1>2, <1>3, <3>2 DEF ProviderInv
      <4>2. PICK s \in {"pending", "succeeded", "canceled"} :
              invoice' = [invoice EXCEPT ![i] = [status |-> s, key |-> op[i].id]]
        BY <1>7, <3>2 DEF Charge
      <4>3. charges' = [charges EXCEPT ![i] = @ + 1]
        BY <1>7, <3>2 DEF Charge
      <4> QED BY <1>2, <4>1, <4>2, <4>3
    <3> QED BY <3>1, <3>2
  <2>2. /\ exec'[w].key = i /\ exec'[w].id = exec[w].id /\ exec'[w].body = exec[w].body
        /\ exec[w].pc = "call" => exec'[w].pc \in {"checkpoint", "fail"}
        /\ exec[w].pc = "replay" => exec'[w].pc \in {"recheck", "retry"}
        /\ \A v \in Execs \ {w} : exec'[v] = exec[v]
    BY <1>1, <1>2, <1>7 DEF Goto, GotoSeeing, Requests
  <2>3. ASSUME NEW j \in Keys PROVE RowInv(j)' /\ ProviderInv(j)'
    <3>1. RowInv(j) /\ ProviderInv(j)
      BY DEF OperationInv
    <3>2. CASE j = i
      BY <1>3, <1>5, <2>1, <3>1, <3>2 DEF RowInv, ProviderInv
    <3>3. CASE j # i
      BY <1>5, <2>1, <3>1, <3>3 DEF RowInv, ProviderInv
    <3> QED BY <3>2, <3>3
  <2>4. ASSUME NEW v \in Execs PROVE RequestInv(v)'
    <3>1. RequestInv(v)
      BY DEF OperationInv
    <3>2. CASE v = w
      <4>1. CASE exec[w].pc = "call"
        BY <1>3, <1>4, <1>5, <2>1, <2>2, <3>2, <4>1 DEF RequestInv, LateSteps, ReconcileSteps
      <4>2. CASE exec[w].pc = "replay"
        BY <1>3, <1>4, <1>5, <2>1, <2>2, <3>2, <4>2 DEF RequestInv, LateSteps, ReconcileSteps
      <4> QED BY <1>2, <4>1, <4>2
    <3>3. CASE v # w /\ exec[v].key = i
      <4>1. exec[v].pc = "call" => i \in ReplayKeys
        BY <1>1, <1>2, <1>3, <3>3 DEF OperationInv, Alone, LateSteps
      <4> QED BY <1>3, <1>5, <2>1, <2>2, <3>1, <3>3, <4>1 DEF RequestInv
    <3>4. CASE v # w /\ exec[v].key # i /\ exec[v].pc # "idle"
      <4>1. exec[v].key \in Keys
        BY <3>1, <3>4 DEF RequestInv
      <4> QED BY <1>5, <2>1, <2>2, <3>1, <3>4, <4>1 DEF RequestInv
    <3>5. CASE v # w /\ exec[v].pc = "idle"
      BY <2>2, <3>5 DEF RequestInv, LateSteps, ReconcileSteps
    <3> QED BY <3>2, <3>3, <3>4, <3>5
  <2>5. Alone'
    <3>1. \A v \in Execs : exec'[v].pc \in LateSteps =>
            exec[v].pc \in LateSteps /\ exec'[v].key = exec[v].key
      BY <1>1, <1>2, <2>2 DEF LateSteps
    <3> QED BY <3>1 DEF OperationInv, Alone
  <2>6. AnsweredIsDurable'
    BY <1>5 DEF OperationInv, AnsweredIsDurable
  <2> QED BY <2>3, <2>4, <2>5, <2>6 DEF OperationInv
<1>8. CASE CallProvider(w)
  BY <1>1, <1>2, <1>3, <1>6, <1>7, <1>8 DEF CallProvider, Running
<1>9. CASE ReplayAtProvider(w)
  BY <1>1, <1>2, <1>3, <1>7, <1>9 DEF ReplayAtProvider, Running
<1> QED BY <1>8, <1>9

\* The provider forgets a key nobody may replay any more, or ends a payment.
LEMMA InvoiceInv ==
  ASSUME TypeOK, TypeOK', OperationInv, NEW i \in Keys, ProviderForgets(i) \/ InvoiceEnds(i)
  PROVE  OperationInv'
<1>1. /\ UNCHANGED <<op, exec, charges, money, delivery, notified, answered>>
      /\ invoice \in [Keys -> Invoices]
  BY DEF ProviderForgets, InvoiceEnds, purchase, TypeOK
<1>2. /\ \A j \in Keys \ {i} : invoice'[j] = invoice[j]
      /\ \/ invoice'[i].key = invoice[i].key
         \/ /\ invoice'[i].key = 0 /\ op[i].replay = "OVER"
            /\ \A w \in Execs : exec[w].key = i => exec[w].pc \notin {"call", "replay"}
  BY <1>1 DEF ProviderForgets, InvoiceEnds, Invoices
<1>3. ASSUME NEW j \in Keys PROVE RowInv(j)' /\ ProviderInv(j)'
  <2>1. RowInv(j) /\ ProviderInv(j)
    BY DEF OperationInv
  <2>2. RowInv(j)'
    BY <1>1, <2>1 DEF RowInv
  <2>3. ProviderInv(j)'
    BY <1>1, <1>2, <2>1 DEF ProviderInv
  <2> QED BY <2>2, <2>3
<1>4. ASSUME NEW v \in Execs PROVE RequestInv(v)'
  <2>1. RequestInv(v)
    BY DEF OperationInv
  <2>2. exec[v].pc \in {"call", "replay"} => invoice'[exec[v].key].key = invoice[exec[v].key].key
    <3>1. exec[v].pc # "idle" => exec[v].key \in Keys
      BY <2>1 DEF RequestInv
    <3> QED BY <1>2, <3>1
  <2> QED BY <1>1, <2>1, <2>2 DEF RequestInv
<1>5. Alone' /\ AnsweredIsDurable'
  BY <1>1 DEF OperationInv, Alone, AnsweredIsDurable
<1> QED BY <1>3, <1>4, <1>5 DEF OperationInv

(***************************************************************************)
(* Reconciliation.                                                         *)
(***************************************************************************)
LEMMA ClaimReconciliationInv ==
  ASSUME TypeOK, TypeOK', OperationInv, NEW w \in Execs, NEW i \in Keys,
         ClaimReconciliation(w, i)
  PROVE  OperationInv'
<1>1. op[i] \in Rows /\ op \in [Keys -> Rows] /\ exec \in [Execs -> Requests] /\ RowInv(i)
      /\ ProviderInv(i) /\ None \notin Execs
  BY OperationAssumption DEF TypeOK, OperationInv
<1>2. /\ op[i].status \in {"UNKNOWN", "PROCESSING"} /\ op[i].token = None /\ Past(op[i])
      /\ ~(op[i].result = "NULL" /\ op[i].replay = "OVER")
  BY DEF ClaimReconciliation, Recoverable, Overdue, LastChanceGone, Past
<1>3. /\ op'[i].status = "UNKNOWN" /\ op'[i].id = op[i].id /\ op'[i].body = op[i].body
      /\ op'[i].linked = op[i].linked /\ op'[i].result = op[i].result
      /\ op'[i].replay = op[i].replay /\ op'[i].token = w /\ op'[i].tlease = "LIVE"
      /\ \A j \in Keys \ {i} : op'[j] = op[j]
  <2>1. Unknown(op[i]) \in Rows
    BY <1>1, RowTypes
  <2>2. Put(i, [Unknown(op[i]) EXCEPT !.token = w, !.tlease = "LIVE", !.attempt = @ + 1])
    BY DEF ClaimReconciliation
  <2>3. op'[i] = [Unknown(op[i]) EXCEPT !.token = w, !.tlease = "LIVE", !.attempt = @ + 1]
        /\ \A j \in Keys \ {i} : op'[j] = op[j]
    BY <1>1, <2>2 DEF Put
  <2> QED BY <1>1, <2>1, <2>3, UnknownRow DEF Rows
<1>4. /\ exec'[w].pc = RecoveryStep(i, op[i]) /\ exec'[w].key = i /\ exec'[w].id = op[i].id
      /\ \A v \in Execs \ {w} : exec'[v] = exec[v]
      /\ UNCHANGED <<invoice, charges, money, delivery, notified, answered>>
  BY <1>1 DEF ClaimReconciliation, purchase
<1>5. op[i].id \in Nat
  BY <1>1, OperationAssumption DEF Rows
<1>6. Frame(w, i)
  BY <1>3, <1>4 DEF Frame
<1>7. Moves(op[i], op'[i])
  BY <1>2, <1>3, <1>5 DEF Moves, Past
<1>8. RowInv(i)'
  BY <1>1, <1>2, <1>3, <1>4 DEF RowInv, Past
<1>9. ProviderInv(i)'
  BY <1>1, <1>3, <1>4 DEF ProviderInv
<1>10. /\ exec'[w].pc \in {"linked", "local", "localtx", "verify", "replay", "manual"}
       /\ exec'[w].pc = "linked" => op[i].linked = "yes"
       /\ exec'[w].pc \in {"local", "localtx"} => i \in FreeKeys
       /\ exec'[w].pc \in {"verify", "replay"} => i \notin FreeKeys
       /\ exec'[w].pc = "verify" => op[i].result # "NULL"
       /\ exec'[w].pc = "replay" => i \in ReplayKeys /\ op[i].result = "NULL"
  BY <1>1, <1>4, RecoverySteps
<1>11. RequestInv(w)'
  <2>1. exec'[w].pc = "linked" => i \in FreeKeys
    BY <1>1, <1>2, <1>10 DEF RowInv
  <2>2. exec'[w].pc = "verify" => charges[i] = 1
    BY <1>1, <1>10 DEF RowInv
  <2>3. exec'[w].pc = "replay" /\ charges[i] = 1 => invoice[i].key = op[i].id
    BY <1>1, <1>2, <1>10 DEF ProviderInv
  <2>4. Past(op'[i])
    BY <1>3 DEF Past
  <2> QED BY <1>3, <1>4, <1>5, <1>10, <2>1, <2>2, <2>3, <2>4 DEF RequestInv, LateSteps, ReconcileSteps
<1>12. exec'[w].pc \notin LateSteps
  BY <1>10 DEF LateSteps
<1> QED BY <1>3, <1>4, <1>6, <1>7, <1>8, <1>9, <1>11, <1>12, FrameStep

\* A free purchase is waited for, or has its result or transaction restored.
LEMMA RecoverFreeInv ==
  ASSUME TypeOK, TypeOK', OperationInv, NEW w \in Execs,
         CompleteLinked(w) \/ CheckpointLocal(w) \/ CreateLocalTransaction(w)
  PROVE  OperationInv'
<1>0. ~Running(w, "idle") /\ exec[w].key \in Keys
  BY RequestTypes DEF CompleteLinked, CheckpointLocal, CreateLocalTransaction, Running
<1>1. PICK i \in Keys : i = exec[w].key
  BY <1>0
<1>2. op[i] \in Rows /\ op \in [Keys -> Rows] /\ exec \in [Execs -> Requests] /\ RowInv(i)
      /\ ProviderInv(i) /\ RequestInv(w) /\ exec[w].pc \in {"linked", "local", "localtx"}
  BY <1>1 DEF TypeOK, OperationInv, CompleteLinked, CheckpointLocal, CreateLocalTransaction, Running
<1>3. i \in FreeKeys /\ exec[w].id = op[i].id /\ Past(op[i]) /\ exec[w].pc \in ReconcileSteps
  BY <1>1, <1>2 DEF RequestInv, ReconcileSteps
<1>4. op[i].id \in Nat
  BY <1>2, OperationAssumption DEF Rows
<1>5. Holds(w) => op[i].status = "UNKNOWN"
  BY <1>1, <1>2 DEF Holds, RowInv
<1>6. CASE CompleteLinked(w)
  <2>1. CASE delivery[i] = "done" /\ Holds(w) /\ Settle(w)
    <3>1. UNCHANGED <<invoice, charges, money, delivery, notified, answered>> /\ End(w)
          /\ Put(i, Succeeded([op[i] EXCEPT !.due = "yes"]))
      BY <1>1, <1>6, <2>1 DEF CompleteLinked, purchase, Settle
    <3>2. [op[i] EXCEPT !.due = "yes"] \in Rows
      BY <1>2, ColumnTypes
    <3>3. /\ op'[i].status = "SUCCEEDED" /\ op'[i].id = op[i].id /\ op'[i].body = op[i].body
          /\ op'[i].linked = "yes" /\ op'[i].result = op[i].result /\ op'[i].replay = op[i].replay
          /\ op'[i].token = None /\ op'[i].tlease = "NULL" /\ Past(op'[i])
          /\ \A j \in Keys \ {i} : op'[j] = op[j]
      <4>1. op'[i] = Succeeded([op[i] EXCEPT !.due = "yes"]) /\ \A j \in Keys \ {i} : op'[j] = op[j]
        BY <1>2, <3>1 DEF Put
      <4> QED BY <1>2, <3>2, <4>1, SucceededRow DEF Past, Rows
    <3>4. RequestInv(w)' /\ exec'[w].pc = "idle" /\ \A v \in Execs \ {w} : exec'[v] = exec[v]
      BY <3>1, Ends DEF End, TypeOK
    <3>5. Frame(w, i)
      BY <1>0, <1>1, <3>1, <3>3, <3>4, OwnFrame
    <3>6. Moves(op[i], op'[i])
      BY <1>4, <1>5, <2>1, <3>3 DEF Moves, Past
    <3>7. RowInv(i)'
      <4>1. money[i] # "none"
        BY <1>2, <2>1 DEF ProviderInv
      <4>2. op[i].result \in {"NULL", "LOCAL"} /\ (op[i].status # "ABSENT" => op[i].id > 0)
        BY <1>2, <1>3 DEF RowInv
      <4>3. money'[i] = money[i] /\ delivery'[i] = "done" /\ op[i].status # "ABSENT"
        BY <1>3, <2>1, <3>1 DEF Past
      <4> QED BY <1>3, <3>3, <4>1, <4>2, <4>3 DEF RowInv
    <3>8. ProviderInv(i)'
      BY <1>2, <3>1, <3>3 DEF ProviderInv
    <3> QED BY <3>1, <3>3, <3>4, <3>5, <3>6, <3>7, <3>8, FrameStep DEF LateSteps
  <2>2. CASE op' = op /\ (Goto(w, "retry") \/ Goto(w, "manual"))
    <3>1. UNCHANGED <<invoice, charges, money, delivery, answered>> /\ notified \subseteq notified'
      BY <1>6 DEF CompleteLinked, purchase
    <3>2. RequestInv(w)' /\ exec'[w].pc \notin LateSteps /\ exec'[w].key = exec[w].key
      BY <1>0, <1>1, <1>3, <2>2, GivesUp
    <3>3. \A v \in Execs \ {w} : exec'[v] = exec[v]
      BY <2>2 DEF Goto, TypeOK
    <3>4. Frame(w, i)
      BY <1>0, <1>1, <2>2, <3>1, <3>2, <3>3, OwnFrame
    <3> QED BY <2>2, <3>1, <3>2, <3>4, SameRowIsQuiet, QuietStep
  <2> QED BY <1>1, <1>6, <2>1, <2>2 DEF CompleteLinked
<1>7. CASE (CheckpointLocal(w) \/ CreateLocalTransaction(w)) /\ ~Holds(w)
  BY <1>0, <1>1, <1>3, <1>7, GivingUpInv DEF CheckpointLocal, CreateLocalTransaction
<1>8. CASE CheckpointLocal(w) /\ Holds(w)
  <2>1. /\ UNCHANGED <<invoice, charges, money, delivery, notified, answered>>
        /\ Put(i, [op[i] EXCEPT !.result = "LOCAL"]) /\ Goto(w, "localtx")
    BY <1>1, <1>8 DEF CheckpointLocal, purchase
  <2>2. /\ op'[i].status = op[i].status /\ op'[i].id = op[i].id /\ op'[i].body = op[i].body
        /\ op'[i].linked = op[i].linked /\ op'[i].result = "LOCAL" /\ op'[i].replay = op[i].replay
        /\ op'[i].token = op[i].token /\ op'[i].tlease = op[i].tlease /\ Past(op'[i])
        /\ \A j \in Keys \ {i} : op'[j] = op[j]
    BY <1>2, <1>3, <2>1 DEF Put, Rows, Past
  <2>3. /\ exec'[w].key = i /\ exec'[w].id = exec[w].id /\ exec'[w].pc = "localtx"
        /\ \A v \in Execs \ {w} : exec'[v] = exec[v]
    BY <1>1, <1>2, <2>1 DEF Goto, Requests
  <2>4. Frame(w, i)
    BY <1>0, <1>1, <2>1, <2>2, <2>3, OwnFrame
  <2>5. Moves(op[i], op'[i])
    BY <1>4, <1>5, <1>8, <2>2 DEF Moves, Past
  <2>6. RowInv(i)'
    BY <1>2, <1>3, <1>5, <1>8, <2>1, <2>2 DEF RowInv
  <2>7. ProviderInv(i)'
    BY <1>2, <2>1, <2>2 DEF ProviderInv
  <2>8. RequestInv(w)' /\ exec'[w].pc \notin LateSteps
    BY <1>3, <1>4, <2>2, <2>3 DEF RequestInv, LateSteps, ReconcileSteps
  <2> QED BY <1>5, <1>8, <2>1, <2>2, <2>4, <2>5, <2>6, <2>7, <2>8, FrameStep
<1>9. CASE CreateLocalTransaction(w) /\ Holds(w)
  <2>1. /\ UNCHANGED <<invoice, charges, answered>> /\ notified \subseteq notified'
        /\ Put(i, [Released(op[i]) EXCEPT !.linked = "yes"]) /\ End(w)
        /\ IF money[i] = "none" THEN Promise!Open(i) ELSE UNCHANGED purchase
    BY <1>1, <1>9 DEF CreateLocalTransaction
  <2>2. /\ op'[i].status = op[i].status /\ op'[i].id = op[i].id /\ op'[i].body = op[i].body
        /\ op'[i].linked = "yes" /\ op'[i].result = op[i].result /\ op'[i].replay = op[i].replay
        /\ op'[i].token = None /\ op'[i].tlease = "NULL" /\ Past(op'[i])
        /\ \A j \in Keys \ {i} : op'[j] = op[j]
    <3>1. op'[i] = [Released(op[i]) EXCEPT !.linked = "yes"] /\ \A j \in Keys \ {i} : op'[j] = op[j]
      BY <1>2, <2>1 DEF Put
    <3>2. Released(op[i]) \in Rows
      BY <1>2, RowTypes
    <3> QED BY <1>2, <1>3, <3>1, <3>2, ReleasedRow DEF Rows, Past
  <2>3. RequestInv(w)' /\ exec'[w].pc = "idle" /\ \A v \in Execs \ {w} : exec'[v] = exec[v]
    BY <2>1, Ends DEF End, TypeOK
  <2>4. /\ delivery' = delivery /\ money'[i] # "none"
        /\ money'[i] = IF money[i] = "none" THEN "due" ELSE money[i]
        /\ \A j \in Keys \ {i} : money'[j] = money[j]
    BY <2>1 DEF Promise!Open, TypeOK, purchase
  <2>5. Frame(w, i)
    BY <1>0, <1>1, <2>1, <2>2, <2>3, <2>4, OwnFrame
  <2>6. Moves(op[i], op'[i])
    BY <1>4, <1>5, <1>9, <2>2 DEF Moves, Past
  <2>7. RowInv(i)'
    BY <1>2, <1>3, <1>5, <1>9, <2>1, <2>2, <2>4 DEF RowInv
  <2>8. ProviderInv(i)'
    BY <1>2, <2>1, <2>2, <2>4 DEF ProviderInv
  <2> QED BY <1>5, <1>9, <2>1, <2>2, <2>3, <2>5, <2>6, <2>7, <2>8, FrameStep DEF LateSteps
<1> QED BY <1>6, <1>7, <1>8, <1>9

\* A payment known at the provider is verified and recorded.
LEMMA RecoverPaidInv ==
  ASSUME TypeOK, TypeOK', OperationInv, NEW w \in Execs, VerifyResult(w) \/ CompleteWithResult(w)
  PROVE  OperationInv'
<1>0. ~Running(w, "idle") /\ exec[w].key \in Keys
  BY RequestTypes DEF VerifyResult, CompleteWithResult, Running
<1>1. PICK i \in Keys : i = exec[w].key
  BY <1>0
<1>2. op[i] \in Rows /\ op \in [Keys -> Rows] /\ exec \in [Execs -> Requests] /\ RowInv(i)
      /\ ProviderInv(i) /\ RequestInv(w) /\ exec[w].pc \in {"verify", "finish"}
  BY <1>1 DEF TypeOK, OperationInv, VerifyResult, CompleteWithResult, Running
<1>3. i \notin FreeKeys /\ charges[i] = 1 /\ exec[w].id = op[i].id /\ Past(op[i])
      /\ exec[w].pc \in ReconcileSteps
  BY <1>1, <1>2 DEF RequestInv, ReconcileSteps
<1>4. op[i].id \in Nat
  BY <1>2, OperationAssumption DEF Rows
<1>5. CASE VerifyResult(w)
  <2>1. UNCHANGED <<op, invoice, charges, money, delivery, notified, answered>>
    BY <1>5 DEF VerifyResult, purchase
  <2>2. /\ exec'[w].key = i /\ exec'[w].id = exec[w].id /\ exec'[w].pc = "finish"
        /\ \A v \in Execs \ {w} : exec'[v] = exec[v]
    BY <1>1, <1>2, <1>5 DEF VerifyResult, GotoSeeing, Requests
  <2>3. Frame(w, i)
    BY <1>0, <1>1, <2>1, <2>2, OwnFrame
  <2>4. RequestInv(w)' /\ exec'[w].pc \notin LateSteps
    BY <1>3, <1>4, <2>1, <2>2 DEF RequestInv, LateSteps, ReconcileSteps
  <2> QED BY <2>1, <2>3, <2>4, SameRowIsQuiet, QuietStep
<1>6. CASE CompleteWithResult(w)
  <2> DEFINE conflict == \/ exec[w].seen = "canceled" /\ money[i] \in {"received", "returned"}
                         \/ exec[w].seen = "succeeded" /\ money[i] = "void"
  <2>1. CASE conflict \/ ~Holds(w)
    BY <1>0, <1>1, <1>3, <1>6, <2>1, GivingUpInv DEF CompleteWithResult
  <2>2. CASE ~conflict /\ Holds(w)
    <3>1. /\ Put(i, Succeeded([op[i] EXCEPT !.result = exec[w].seen, !.due = "yes"])) /\ End(w)
          /\ IF exec[w].seen = "canceled" /\ money[i] # "void" THEN Promise!Void(i)
             ELSE IF money[i] = "none" THEN Promise!Open(i) ELSE UNCHANGED purchase
          /\ IF exec[w].seen = "succeeded" THEN QueueSuccess(i) ELSE UNCHANGED notified
          /\ UNCHANGED <<invoice, charges, answered>>
      BY <1>1, <1>6, <2>2 DEF CompleteWithResult
    <3>2. op[i].status = "UNKNOWN"
      BY <1>1, <1>2, <2>2 DEF Holds, RowInv
    <3>3. exec[w].seen \in Results
      BY <1>2 DEF Requests
    <3>4. [op[i] EXCEPT !.result = exec[w].seen, !.due = "yes"] \in Rows
      BY <1>2, <3>3, RowTypes
    <3>5. /\ op'[i].status = "SUCCEEDED" /\ op'[i].id = op[i].id /\ op'[i].body = op[i].body
          /\ op'[i].linked = "yes" /\ op'[i].result = exec[w].seen /\ op'[i].replay = op[i].replay
          /\ op'[i].token = None /\ op'[i].tlease = "NULL" /\ Past(op'[i])
          /\ \A j \in Keys \ {i} : op'[j] = op[j]
      <4>1. op'[i] = Succeeded([op[i] EXCEPT !.result = exec[w].seen, !.due = "yes"])
            /\ \A j \in Keys \ {i} : op'[j] = op[j]
        BY <1>2, <3>1 DEF Put
      <4> DEFINE r == [op[i] EXCEPT !.result = exec[w].seen, !.due = "yes"]
      <4>2. r.id = op[i].id /\ r.body = op[i].body /\ r.result = exec[w].seen /\ r.replay = op[i].replay
        BY <1>2 DEF Rows
      <4> HIDE DEF r
      <4> QED BY <3>4, <4>1, <4>2, SucceededRow DEF Past, r
    <3>6. RequestInv(w)' /\ exec'[w].pc = "idle" /\ \A v \in Execs \ {w} : exec'[v] = exec[v]
      BY <3>1, Ends DEF End, TypeOK
    <3>7. /\ delivery' = delivery /\ money'[i] # "none"
          /\ money[i] \notin {"none", "due"} => money'[i] = money[i]
          /\ \A j \in Keys \ {i} : money'[j] = money[j]
      <4>1. CASE exec[w].seen = "canceled" /\ money[i] # "void"
        BY <3>1, <4>1 DEF Promise!Void, TypeOK
      <4>2. CASE ~(exec[w].seen = "canceled" /\ money[i] # "void") /\ money[i] = "none"
        BY <3>1, <4>2 DEF Promise!Open, TypeOK
      <4>3. CASE ~(exec[w].seen = "canceled" /\ money[i] # "void") /\ money[i] # "none"
        BY <3>1, <4>3 DEF purchase
      <4> QED BY <4>1, <4>2, <4>3
    <3>8. notified \subseteq notified'
          /\ (exec[w].seen = "succeeded" => i \in notified' \/ money'[i] # "due")
      <4>1. CASE exec[w].seen = "succeeded"
        <5>1. CASE money[i] \in {"none", "due"}
          BY <3>1, <4>1, <5>1 DEF QueueSuccess
        <5>2. CASE money[i] \notin {"none", "due"}
          BY <3>1, <3>7, <4>1, <5>2 DEF QueueSuccess
        <5> QED BY <5>1, <5>2
      <4>2. CASE exec[w].seen # "succeeded"
        BY <3>1, <4>2
      <4> QED BY <4>1, <4>2
    <3>9. Frame(w, i)
      BY <1>0, <1>1, <3>1, <3>5, <3>6, <3>7, <3>8, OwnFrame
    <3>10. Moves(op[i], op'[i])
      BY <1>4, <3>2, <3>5 DEF Moves, Past
    <3>11. RowInv(i)'
      BY <1>3, <1>4, <1>2, <3>1, <3>2, <3>5, <3>7, <3>8 DEF RowInv
    <3>12. ProviderInv(i)'
      BY <1>2, <3>1, <3>5, <3>7 DEF ProviderInv
    <3> QED BY <3>1, <3>5, <3>6, <3>9, <3>10, <3>11, <3>12, FrameStep DEF LateSteps
  <2> QED BY <2>1, <2>2
<1> QED BY <1>5, <1>6
(***************************************************************************)
(* Fulfillment, replayed responses, and the invariant as a whole.          *)
(***************************************************************************)
LEMMA FulfillInv ==
  ASSUME TypeOK, TypeOK', OperationInv, NEW i \in Keys, Fulfill(i)
  PROVE  OperationInv'
<1>1. UNCHANGED <<op, exec, invoice, charges, notified, answered>> /\ None \notin Execs
      /\ RowInv(i) /\ ProviderInv(i)
  BY OperationAssumption DEF Fulfill, OperationInv
<1>2. /\ \A j \in Keys \ {i} : money'[j] = money[j] /\ delivery'[j] = delivery[j]
      /\ money'[i] \in {"none", "due"} => money'[i] = money[i]
      /\ delivery[i] = "done" => delivery'[i] = "done"
      /\ delivery'[i] = "done" /\ delivery[i] # "done" => money'[i] \notin {"none", "due"}
  <2>1. CASE Promise!Receive(i)
    BY <1>1, <2>1 DEF Promise!Receive, TypeOK, ProviderInv
  <2>2. CASE Promise!Void(i)
    BY <2>2 DEF Promise!Void, TypeOK
  <2>3. CASE Promise!Return(i)
    BY <2>3 DEF Promise!Return, TypeOK
  <2>4. CASE Promise!Apply(i)
    BY <2>4 DEF Promise!Apply
  <2>5. CASE Promise!Prove(i)
    BY <2>5 DEF Promise!Prove, TypeOK
  <2>6. CASE Promise!HandOver(i)
    BY <2>6 DEF Promise!HandOver, TypeOK
  <2> QED BY <2>1, <2>2, <2>3, <2>4, <2>5, <2>6 DEF Fulfill
<1>3. Frame(None, i)
  BY <1>1, <1>2 DEF Frame
<1>4. RowInv(i)'
  BY <1>1, <1>2 DEF RowInv
<1>5. ProviderInv(i)'
  BY <1>1, <1>2 DEF ProviderInv
<1>6. Moves(op[i], op'[i])
  <2>1. op[i].id \in Nat
    BY OperationAssumption DEF TypeOK, Rows
  <2> QED BY <1>1, <2>1 DEF Moves
<1> QED BY <1>1, <1>3, <1>4, <1>5, <1>6, FrameStep

LEMMA ReplayResponseInv ==
  ASSUME TypeOK, TypeOK', OperationInv, NEW i \in Keys, NEW b \in Bodies, ReplayResponse(i, b)
  PROVE  OperationInv'
<1>1. UNCHANGED <<op, exec, invoice, charges, money, delivery, notified>> /\ None \notin Execs
      /\ RowInv(i) /\ ProviderInv(i)
  BY OperationAssumption DEF ReplayResponse, OperationInv, purchase
<1>2. op[i].status = "SUCCEEDED" /\ op[i].body = b /\ answered' = answered \cup {<<i, b>>}
  BY DEF ReplayResponse
<1>3. Frame(None, i)
  BY <1>1 DEF Frame
<1>4. RowInv(i)' /\ ProviderInv(i)'
  BY <1>1 DEF RowInv, ProviderInv
<1>5. Moves(op[i], op'[i])
  <2>1. op[i].id \in Nat
    BY OperationAssumption DEF TypeOK, Rows
  <2> QED BY <1>1, <2>1 DEF Moves
<1> QED BY <1>1, <1>2, <1>3, <1>4, <1>5, FrameStep

LEMMA OperationStep == TypeOK /\ OperationInv /\ [Next]_vars => OperationInv'
<1> SUFFICES ASSUME TypeOK, OperationInv, [Next]_vars PROVE OperationInv'
  OBVIOUS
<1>0. TypeOK'
  BY TypeStep
<1>1. CASE UNCHANGED vars
  <2>1. \A i \in Keys : RowInv(i)' /\ ProviderInv(i)'
    BY <1>1 DEF OperationInv, RowInv, ProviderInv, vars, purchase
  <2>2. \A w \in Execs : RequestInv(w)'
    BY <1>1 DEF OperationInv, RequestInv, vars
  <2> QED BY <1>1, <2>1, <2>2 DEF OperationInv, Alone, AnsweredIsDurable, vars, purchase
<1>2. ASSUME NEW w \in Execs, ExecStep(w) PROVE OperationInv'
  <2>1. CASE Abandon(w)
    BY <1>0, <2>1, ForgetInv
  <2>2. CASE MarkProcessing(w)
    BY <1>0, <2>2, MarkProcessingInv
  <2>3. CASE CallProvider(w) \/ ReplayAtProvider(w)
    BY <1>0, <2>3, ChargeInv
  <2>4. CASE Checkpoint(w) \/ CheckpointReplay(w)
    BY <1>0, <2>4, CheckpointInv
  <2>5. CASE CreateTransaction(w)
    BY <1>0, <2>5, CreateTransactionInv
  <2>6. CASE Purchase(w) \/ CompleteFree(w)
    BY <1>0, <2>6, FreePurchaseInv
  <2>7. CASE CompleteLinked(w) \/ CheckpointLocal(w) \/ CreateLocalTransaction(w)
    BY <1>0, <2>7, RecoverFreeInv
  <2>8. CASE VerifyResult(w) \/ CompleteWithResult(w)
    BY <1>0, <2>8, RecoverPaidInv
  <2>9. CASE PrepareFails(w) \/ Fail(w) \/ ReconcileFails(w) \/ RetryLater(w) \/ HandToOperator(w)
    BY <1>0, <2>9, ClosingInv
  <2> QED BY <1>2, <2>1, <2>2, <2>3, <2>4, <2>5, <2>6, <2>7, <2>8, <2>9 DEF ExecStep
<1>3. ASSUME NEW w \in Execs, Crash(w) PROVE OperationInv'
  BY <1>0, <1>3, ClosingInv
<1>4. ASSUME NEW i \in Keys, NEW w \in Execs, NEW b \in Bodies,
             ClaimOperation(w, i, b) \/ ReclaimOperation(w, i, b)
      PROVE  OperationInv'
  BY <1>0, <1>4, ClaimInv
<1>5. ASSUME NEW i \in Keys, NEW b \in Bodies, ReplayResponse(i, b) PROVE OperationInv'
  BY <1>0, <1>5, ReplayResponseInv
<1>6. ASSUME NEW i \in Keys, NEW w \in Execs, ClaimReconciliation(w, i) PROVE OperationInv'
  BY <1>0, <1>6, ClaimReconciliationInv
<1>7. ASSUME NEW i \in Keys,
             \/ ExpireProcessing(i) \/ GiveUpReconciliation(i) \/ ExpireReconciliation(i)
             \/ LeaseExpires(i) \/ ReconciliationLeaseExpires(i) \/ BackoffElapses(i)
             \/ ReplayWindowEnds(i)
      PROVE  OperationInv'
  BY <1>0, <1>7, RowActionInv
<1>8. ASSUME NEW i \in Keys, DeleteExpiredClaim(i) PROVE OperationInv'
  BY <1>0, <1>8, ForgetInv
<1>9. ASSUME NEW i \in Keys, ProviderForgets(i) \/ InvoiceEnds(i) PROVE OperationInv'
  BY <1>0, <1>9, InvoiceInv
<1>10. ASSUME NEW i \in Keys, Fulfill(i) PROVE OperationInv'
  BY <1>0, <1>10, FulfillInv
<1> QED
  <2>1. CASE Next
    BY <1>2, <1>3, <1>4, <1>5, <1>6, <1>7, <1>8, <1>9, <1>10, <2>1 DEF Next
  <2> QED BY <1>1, <2>1

\* OperationInv holds in every reachable state: the rows, the provider and the
\* requests in flight agree whatever the requests, sweeps, leases and crashes did.
THEOREM OperationInductive == Spec => [](TypeOK /\ OperationInv)
<1>1. Init => TypeOK /\ OperationInv
  <2> SUFFICES ASSUME Init PROVE TypeOK /\ OperationInv
    OBVIOUS
  <2>1. TypeOK
    <3>1. op \in [Keys -> Rows]
      BY NewRowTypes DEF Init
    <3>2. ExecOK
      BY OperationAssumption DEF Init, ExecOK, Idle, Requests, Results, LeaderSteps
    <3>3. RestOK
      BY OperationAssumption DEF Init, RestOK, Invoices, Promise!Init
    <3> QED BY <3>1, <3>2, <3>3 DEF TypeOK, ExecOK, RestOK
  <2>2. ASSUME NEW i \in Keys PROVE RowInv(i) /\ ProviderInv(i)
    BY DEF Init, NoRow, RowInv, ProviderInv, Past, Promise!Init
  <2>3. \A w \in Execs : exec[w].pc = "idle"
    BY DEF Init, Idle
  <2>4. \A w \in Execs : RequestInv(w)
    BY <2>3 DEF RequestInv, LateSteps, ReconcileSteps
  <2>5. Alone /\ AnsweredIsDurable
    BY <2>3 DEF Alone, LateSteps, Init, AnsweredIsDurable
  <2> QED BY <2>1, <2>2, <2>4, <2>5 DEF OperationInv
<1>2. TypeOK /\ OperationInv /\ [Next]_vars => (TypeOK /\ OperationInv)'
  BY TypeStep, OperationStep
<1> QED BY <1>1, <1>2, PTL DEF Spec

\* The provider creates at most one payment for a key.
THEOREM OnePayment == Spec => []OnePaymentPerKey
<1>1. TypeOK /\ OperationInv => OnePaymentPerKey
  <2> SUFFICES ASSUME OperationInv, NEW i \in Keys PROVE charges[i] <= 1
    BY DEF OnePaymentPerKey
  <2>1. charges[i] \in {0, 1}
    BY DEF OperationInv, ProviderInv
  <2> QED BY <2>1
<1> QED BY <1>1, OperationInductive, PTL

\* Who was told 200 with a payment finds it again.
THEOREM AnswersStay == Spec => []AnsweredIsDurable
<1>1. TypeOK /\ OperationInv => AnsweredIsDurable
  BY DEF OperationInv
<1> QED BY <1>1, OperationInductive, PTL

\* A stored response has a transaction, and a charge or a delivery, behind it.
THEOREM SuccessProved == Spec => []SucceededIsProof
<1>1. TypeOK /\ OperationInv => SucceededIsProof
  BY DEF OperationInv, RowInv, SucceededIsProof
<1> QED BY <1>1, OperationInductive, PTL

\* A success that reconciliation learnt of is on its way to fulfillment.
THEOREM SuccessQueued == Spec => []SuccessIsQueued
<1>1. TypeOK /\ OperationInv => SuccessIsQueued
  BY DEF OperationInv, RowInv, SuccessIsQueued
<1> QED BY <1>1, OperationInductive, PTL

\* Only a free purchase is linked before its response is stored.
THEOREM EarlyLinksAreFree == Spec => []LinkedEarlyIsFree
<1>1. TypeOK /\ OperationInv => LinkedEarlyIsFree
  BY DEF OperationInv, RowInv, LinkedEarlyIsFree
<1> QED BY <1>1, OperationInductive, PTL
(***************************************************************************)
(* How the status of a row moves, one row per step, and how charges move.  *)
(***************************************************************************)
RowMove(r, s) ==
  \/ /\ s.status = r.status /\ s.id = r.id /\ s.body = r.body
     /\ s.linked = r.linked /\ s.result = r.result /\ s.token = r.token
  \/ r.status = "ABSENT" /\ s.status = "CLAIMED"
  \/ r.status = "CLAIMED" /\ s.status \in {"ABSENT", "PROCESSING"}
  \/ r.status \in {"PROCESSING", "UNKNOWN"}
     /\ s.status \in {"PROCESSING", "UNKNOWN", "SUCCEEDED", "MANUAL_REQUIRED"}

RowStep(i) == \E row : Put(i, row) /\ RowMove(op[i], row)

LEMMA LeaderRowStep ==
  ASSUME TypeOK, OperationInv, NEW w \in Execs,
         \/ Abandon(w) \/ PrepareFails(w) \/ MarkProcessing(w) \/ Checkpoint(w)
         \/ CreateTransaction(w) \/ Purchase(w) \/ CompleteFree(w) \/ Fail(w)
  PROVE  charges' = charges /\ (op' = op \/ \E i \in Keys : RowStep(i))
<1>0. ~Running(w, "idle") /\ exec[w].key \in Keys
  BY RequestTypes DEF Running, Abandon, PrepareFails, MarkProcessing, Checkpoint,
         CreateTransaction, Purchase, CompleteFree, Fail
<1>1. PICK i \in Keys : i = exec[w].key
  BY <1>0
<1>2. op[i] \in Rows
  BY DEF TypeOK
<1>3. charges' = charges
  BY DEF Abandon, PrepareFails, MarkProcessing, Checkpoint, CreateTransaction, Purchase,
         CompleteFree, Fail
<1>4. CASE op' = op
  BY <1>3, <1>4
<1>5. CASE op' # op
  <2>1. CASE Abandon(w)
    <3>1. Put(i, Gone(op[i])) /\ op[i].status = "CLAIMED"
      BY <1>1, <1>5, <2>1 DEF Abandon, Deletable
    <3>2. RowMove(op[i], Gone(op[i]))
      BY <1>2, <3>1, GoneRow DEF RowMove
    <3> QED BY <1>3, <3>1, <3>2 DEF RowStep
  <2>2. CASE MarkProcessing(w)
    <3>1. PICK x : Put(i, [op[i] EXCEPT !.status = "PROCESSING", !.lease = "LIVE", !.replay = x])
                   /\ op[i].status = "CLAIMED"
      BY <1>1, <1>5, <2>2 DEF MarkProcessing, Startable
    <3>2. RowMove(op[i], [op[i] EXCEPT !.status = "PROCESSING", !.lease = "LIVE", !.replay = x])
      BY <1>2, <3>1 DEF RowMove, Rows
    <3> QED BY <1>3, <3>1, <3>2 DEF RowStep
  <2>3. CASE Checkpoint(w)
    <3>1. Put(i, [op[i] EXCEPT !.result = exec[w].seen]) /\ op[i].status = "PROCESSING"
      BY <1>1, <1>5, <2>3 DEF Checkpoint, Processing
    <3>2. RowMove(op[i], [op[i] EXCEPT !.result = exec[w].seen])
      BY <1>2, <3>1 DEF RowMove, Rows
    <3> QED BY <1>3, <3>1, <3>2 DEF RowStep
  <2>4. CASE CreateTransaction(w)
    <3>1. op[i].status = "PROCESSING"
          /\ (Put(i, [op[i] EXCEPT !.linked = "yes"]) \/ Put(i, Succeeded(op[i])))
      BY <1>1, <1>5, <2>4 DEF CreateTransaction, Processing
    <3>2. RowMove(op[i], [op[i] EXCEPT !.linked = "yes"])
      BY <1>2, <3>1 DEF RowMove, Rows
    <3>3. RowMove(op[i], Succeeded(op[i]))
      BY <1>2, <3>1, SucceededRow DEF RowMove
    <3> QED BY <1>3, <3>1, <3>2, <3>3 DEF RowStep
  <2>5. CASE CompleteFree(w)
    <3>1. op[i].status = "PROCESSING" /\ Put(i, Succeeded(op[i]))
      BY <1>1, <1>5, <2>5 DEF CompleteFree, Completable, Processing
    <3>2. RowMove(op[i], Succeeded(op[i]))
      BY <1>2, <3>1, SucceededRow DEF RowMove
    <3> QED BY <1>3, <3>1, <3>2 DEF RowStep
  <2>6. CASE Fail(w)
    <3>1. op[i].status = "PROCESSING" /\ Put(i, Unknown(op[i]))
      BY <1>1, <1>5, <2>6 DEF Fail, Processing
    <3>2. RowMove(op[i], Unknown(op[i]))
      BY <1>2, <3>1, UnknownRow DEF RowMove
    <3> QED BY <1>3, <3>1, <3>2 DEF RowStep
  <2>7. CASE PrepareFails(w) \/ Purchase(w)
    BY <1>5, <2>7 DEF PrepareFails, Purchase
  <2> QED BY <2>1, <2>2, <2>3, <2>4, <2>5, <2>6, <2>7
<1> QED BY <1>4, <1>5

LEMMA RecoveryRowStep ==
  ASSUME TypeOK, OperationInv, NEW w \in Execs,
         \/ ReconcileFails(w) \/ CompleteLinked(w) \/ CheckpointLocal(w)
         \/ CreateLocalTransaction(w) \/ CheckpointReplay(w) \/ VerifyResult(w)
         \/ CompleteWithResult(w) \/ RetryLater(w) \/ HandToOperator(w)
  PROVE  charges' = charges /\ (op' = op \/ \E i \in Keys : RowStep(i))
<1>0. ~Running(w, "idle") /\ exec[w].key \in Keys
  BY RequestTypes DEF Running, ReconcileSteps, ReconcileFails, CompleteLinked, CheckpointLocal,
         CreateLocalTransaction, CheckpointReplay, VerifyResult, CompleteWithResult, RetryLater,
         HandToOperator
<1>1. PICK i \in Keys : i = exec[w].key
  BY <1>0
<1>2. op[i] \in Rows /\ RowInv(i) /\ exec[w] \in Requests
  BY DEF TypeOK, OperationInv
<1>3. charges' = charges
  BY DEF ReconcileFails, CompleteLinked, CheckpointLocal, CreateLocalTransaction,
         CheckpointReplay, VerifyResult, CompleteWithResult, RetryLater, HandToOperator
<1>4. Holds(w) => op[i].status = "UNKNOWN"
  BY <1>1, <1>2 DEF Holds, RowInv
<1>5. ASSUME Holds(w), NEW row, Put(i, row),
             row.status \in {"PROCESSING", "UNKNOWN", "SUCCEEDED", "MANUAL_REQUIRED"}
      PROVE  RowStep(i)
  BY <1>4, <1>5 DEF RowStep, RowMove
<1>6. /\ Succeeded([op[i] EXCEPT !.due = "yes"]).status = "SUCCEEDED"
      /\ Succeeded([op[i] EXCEPT !.result = exec[w].seen, !.due = "yes"]).status = "SUCCEEDED"
      /\ Released(op[i]).status = op[i].status
      /\ Manual([op[i] EXCEPT !.token = None, !.tlease = "NULL"]).status = "MANUAL_REQUIRED"
  <2>1. /\ [op[i] EXCEPT !.due = "yes"] \in Rows
        /\ [op[i] EXCEPT !.token = None, !.tlease = "NULL"] \in Rows
    BY <1>2, ColumnTypes, RowTypes
  <2>2. [op[i] EXCEPT !.result = exec[w].seen, !.due = "yes"] \in Rows
    BY <1>2, RowTypes DEF Requests
  <2> QED BY <1>2, <2>1, <2>2, SucceededRow, ReleasedRow, ManualRow
<1>7. CASE op' = op
  BY <1>3, <1>7
<1>8. CASE op' # op
  <2>1. CASE CompleteLinked(w)
    BY <1>1, <1>3, <1>5, <1>6, <1>8, <2>1 DEF CompleteLinked, Settle
  <2>2. CASE CheckpointLocal(w)
    <3>1. Holds(w) /\ Put(i, [op[i] EXCEPT !.result = "LOCAL"])
      BY <1>1, <1>8, <2>2 DEF CheckpointLocal
    <3>2. [op[i] EXCEPT !.result = "LOCAL"].status = "UNKNOWN"
      BY <1>2, <1>4, <3>1 DEF Rows
    <3> QED BY <1>3, <1>5, <3>1, <3>2
  <2>3. CASE CreateLocalTransaction(w)
    <3>1. Holds(w) /\ Put(i, [Released(op[i]) EXCEPT !.linked = "yes"])
      BY <1>1, <1>8, <2>3 DEF CreateLocalTransaction
    <3>2. [Released(op[i]) EXCEPT !.linked = "yes"].status = "UNKNOWN"
      <4>1. Released(op[i]) \in Rows
        BY <1>2, RowTypes
      <4> QED BY <1>4, <1>6, <3>1, <4>1 DEF Rows
    <3> QED BY <1>3, <1>5, <3>1, <3>2
  <2>4. CASE CheckpointReplay(w)
    <3>1. Holds(w) /\ Put(i, [op[i] EXCEPT !.result = exec[w].seen])
      BY <1>1, <1>8, <2>4 DEF CheckpointReplay
    <3>2. [op[i] EXCEPT !.result = exec[w].seen].status = "UNKNOWN"
      BY <1>2, <1>4, <3>1 DEF Rows
    <3> QED BY <1>3, <1>5, <3>1, <3>2
  <2>5. CASE CompleteWithResult(w)
    <3>1. Holds(w) /\ Put(i, Succeeded([op[i] EXCEPT !.result = exec[w].seen, !.due = "yes"]))
      BY <1>1, <1>8, <2>5 DEF CompleteWithResult
    <3> QED BY <1>3, <1>5, <1>6, <3>1
  <2>6. CASE RetryLater(w)
    BY <1>1, <1>3, <1>4, <1>5, <1>6, <1>8, <2>6 DEF RetryLater
  <2>7. CASE HandToOperator(w)
    BY <1>1, <1>3, <1>5, <1>6, <1>8, <2>7 DEF HandToOperator
  <2>8. CASE ReconcileFails(w) \/ VerifyResult(w)
    BY <1>8, <2>8 DEF ReconcileFails, VerifyResult
  <2> QED BY <2>1, <2>2, <2>3, <2>4, <2>5, <2>6, <2>7, <2>8
<1> QED BY <1>7, <1>8

LEMMA KeyRowStep ==
  ASSUME TypeOK, OperationInv, NEW i \in Keys,
         \/ \E w \in Execs, b \in Bodies : ClaimOperation(w, i, b) \/ ReclaimOperation(w, i, b)
         \/ \E w \in Execs : ClaimReconciliation(w, i)
         \/ ExpireProcessing(i) \/ DeleteExpiredClaim(i) \/ GiveUpReconciliation(i)
         \/ ExpireReconciliation(i) \/ LeaseExpires(i) \/ ReconciliationLeaseExpires(i)
         \/ BackoffElapses(i) \/ ReplayWindowEnds(i)
  PROVE  charges' = charges /\ RowStep(i)
<1>1. op[i] \in Rows
  BY DEF TypeOK
<1>2. charges' = charges
  BY DEF ClaimOperation, ReclaimOperation, ClaimReconciliation, ExpireProcessing,
         DeleteExpiredClaim, GiveUpReconciliation, ExpireReconciliation, LeaseExpires,
         ReconciliationLeaseExpires, BackoffElapses, ReplayWindowEnds
<1>3. ASSUME NEW w \in Execs, NEW b \in Bodies, ClaimOperation(w, i, b) PROVE RowStep(i)
  <2>1. op[i].status = "ABSENT" /\ Put(i, NewRow(op[i].id + 1, b))
    BY <1>3 DEF ClaimOperation
  <2>2. RowMove(op[i], NewRow(op[i].id + 1, b))
    BY <2>1, NewRowRow DEF RowMove
  <2> QED BY <2>1, <2>2 DEF RowStep
<1>4. ASSUME NEW x, Put(i, [op[i] EXCEPT !.lease = x]) PROVE RowStep(i)
  <2>1. RowMove(op[i], [op[i] EXCEPT !.lease = x])
    BY <1>1 DEF RowMove, Rows
  <2> QED BY <1>4, <2>1 DEF RowStep
<1>5. ASSUME NEW w \in Execs, ClaimReconciliation(w, i) PROVE RowStep(i)
  <2> DEFINE r == [Unknown(op[i]) EXCEPT !.token = w, !.tlease = "LIVE", !.attempt = @ + 1]
  <2>1. op[i].status \in {"UNKNOWN", "PROCESSING"} /\ Put(i, r)
    BY <1>5 DEF ClaimReconciliation, Recoverable, Overdue
  <2>2. r.status = "UNKNOWN"
    <3>1. Unknown(op[i]) \in Rows
      BY <1>1, RowTypes
    <3> QED BY <1>1, <3>1, UnknownRow DEF Rows
  <2> HIDE DEF r
  <2>3. RowMove(op[i], r)
    BY <2>1, <2>2 DEF RowMove
  <2> QED BY <2>1, <2>3 DEF RowStep
<1>6. CASE ExpireProcessing(i)
  <2>1. op[i].status = "PROCESSING" /\ Put(i, Unknown(op[i]))
    BY <1>6 DEF ExpireProcessing, Overdue
  <2>2. RowMove(op[i], Unknown(op[i]))
    BY <1>1, <2>1, UnknownRow DEF RowMove
  <2> QED BY <1>2, <2>1, <2>2 DEF RowStep
<1>7. CASE DeleteExpiredClaim(i)
  <2>1. op[i].status = "CLAIMED" /\ Put(i, Gone(op[i]))
    BY <1>7 DEF DeleteExpiredClaim, Claimable
  <2>2. RowMove(op[i], Gone(op[i]))
    BY <1>1, <2>1, GoneRow DEF RowMove
  <2> QED BY <1>2, <2>1, <2>2 DEF RowStep
<1>8. CASE GiveUpReconciliation(i)
  <2>1. op[i].status \in {"UNKNOWN", "PROCESSING"} /\ Put(i, Manual(Unknown(op[i])))
    BY <1>8 DEF GiveUpReconciliation, Recoverable, Overdue
  <2>2. RowMove(op[i], Manual(Unknown(op[i])))
    <3>1. Unknown(op[i]) \in Rows
      BY <1>1, RowTypes
    <3> QED BY <2>1, <3>1, ManualRow DEF RowMove
  <2> QED BY <1>2, <2>1, <2>2 DEF RowStep
<1>9. CASE ExpireReconciliation(i)
  <2>1. op[i].status = "UNKNOWN" /\ Put(i, Manual(op[i]))
    BY <1>9 DEF ExpireReconciliation
  <2>2. RowMove(op[i], Manual(op[i]))
    BY <1>1, <2>1, ManualRow DEF RowMove
  <2> QED BY <1>2, <2>1, <2>2 DEF RowStep
<1>10. CASE ReconciliationLeaseExpires(i) \/ BackoffElapses(i) \/ ReplayWindowEnds(i)
  <2>1. PICK row \in {[op[i] EXCEPT !.tlease = "EXPIRED"], [op[i] EXCEPT !.due = "yes"],
                      [op[i] EXCEPT !.replay = "OVER"]} : Put(i, row)
    BY <1>10 DEF ReconciliationLeaseExpires, BackoffElapses, ReplayWindowEnds
  <2>2. RowMove(op[i], row)
    BY <1>1 DEF RowMove, Rows
  <2> QED BY <1>2, <2>1, <2>2 DEF RowStep
<1>11. ASSUME NEW w \in Execs, NEW b \in Bodies, ReclaimOperation(w, i, b) PROVE RowStep(i)
  BY <1>4, <1>11 DEF ReclaimOperation
<1>12. CASE LeaseExpires(i)
  BY <1>4, <1>12 DEF LeaseExpires
<1> QED BY <1>2, <1>3, <1>5, <1>6, <1>7, <1>8, <1>9, <1>10, <1>11, <1>12

\* A call to the provider charges a key that was not charged, or none.
ChargeStep(i) == /\ i \notin FreeKeys
                 /\ op[i].status \in {"PROCESSING", "UNKNOWN", "MANUAL_REQUIRED"}
                 /\ charges[i] = 0
                 /\ charges' = [charges EXCEPT ![i] = 1]

LEMMA ChargesStep ==
  ASSUME TypeOK, OperationInv, NEW w \in Execs, CallProvider(w) \/ ReplayAtProvider(w)
  PROVE  op' = op /\ (charges' = charges \/ \E i \in Keys : ChargeStep(i))
<1>0. ~Running(w, "idle") /\ exec[w].key \in Keys
  BY RequestTypes DEF CallProvider, ReplayAtProvider, Running
<1>1. PICK i \in Keys : i = exec[w].key
  BY <1>0
<1>2. /\ op[i] \in Rows /\ RowInv(i) /\ ProviderInv(i) /\ RequestInv(w)
      /\ exec[w].pc \in {"call", "replay"} /\ op' = op
  BY <1>1 DEF TypeOK, OperationInv, CallProvider, ReplayAtProvider, Running
<1>3. /\ exec[w].id = op[i].id /\ Past(op[i]) /\ i \notin FreeKeys
      /\ i \notin ReplayKeys => charges[i] = 0
      /\ i \in ReplayKeys /\ charges[i] = 1 => invoice[i].key = op[i].id
  BY <1>1, <1>2, OperationAssumption DEF RequestInv, LateSteps, ReconcileSteps
<1>4. CASE charges' = charges
  BY <1>2, <1>4
<1>5. CASE charges' # charges
  <2>1. Charge(i, op[i].id) /\ ~(i \in ReplayKeys /\ invoice[i].key = op[i].id)
        /\ charges' = [charges EXCEPT ![i] = @ + 1]
    BY <1>1, <1>3, <1>5 DEF CallProvider, ReplayAtProvider, Charge
  <2>2. charges[i] = 0
    BY <1>2, <1>3, <2>1 DEF ProviderInv
  <2>3. charges' = [charges EXCEPT ![i] = 1]
    BY <2>1, <2>2
  <2>4. op[i].status \in {"PROCESSING", "UNKNOWN", "MANUAL_REQUIRED"}
    BY <1>2, <1>3, <2>2 DEF Rows, Statuses, RowInv, Past
  <2> QED BY <1>2, <1>3, <2>2, <2>3, <2>4 DEF ChargeStep
<1> QED BY <1>4, <1>5

LEMMA StatusStep ==
  ASSUME TypeOK, OperationInv, [Next]_vars
  PROVE  \/ op' = op /\ (charges' = charges \/ \E i \in Keys : ChargeStep(i))
         \/ charges' = charges /\ \E i \in Keys : RowStep(i)
<1> DEFINE Goal == \/ op' = op /\ (charges' = charges \/ \E i \in Keys : ChargeStep(i))
                   \/ charges' = charges /\ \E i \in Keys : RowStep(i)
<1> HIDE DEF Goal
<1>1. CASE UNCHANGED vars
  BY <1>1 DEF vars, Goal
<1>2. ASSUME NEW w \in Execs, ExecStep(w) PROVE Goal
  <2>1. CASE CallProvider(w) \/ ReplayAtProvider(w)
    BY <2>1, ChargesStep DEF Goal
  <2>2. CASE \/ Abandon(w) \/ PrepareFails(w) \/ MarkProcessing(w) \/ Checkpoint(w)
             \/ CreateTransaction(w) \/ Purchase(w) \/ CompleteFree(w) \/ Fail(w)
    BY <2>2, LeaderRowStep DEF Goal
  <2>3. CASE \/ ReconcileFails(w) \/ CompleteLinked(w) \/ CheckpointLocal(w)
             \/ CreateLocalTransaction(w) \/ CheckpointReplay(w) \/ VerifyResult(w)
             \/ CompleteWithResult(w) \/ RetryLater(w) \/ HandToOperator(w)
    BY <2>3, RecoveryRowStep DEF Goal
  <2> QED BY <1>2, <2>1, <2>2, <2>3 DEF ExecStep
<1>3. ASSUME NEW w \in Execs, Crash(w) PROVE Goal
  BY <1>3 DEF Crash, Goal
<1>4. ASSUME NEW i \in Keys,
             \/ \E w \in Execs, b \in Bodies : ClaimOperation(w, i, b) \/ ReclaimOperation(w, i, b)
             \/ \E w \in Execs : ClaimReconciliation(w, i)
             \/ ExpireProcessing(i) \/ DeleteExpiredClaim(i) \/ GiveUpReconciliation(i)
             \/ ExpireReconciliation(i) \/ LeaseExpires(i) \/ ReconciliationLeaseExpires(i)
             \/ BackoffElapses(i) \/ ReplayWindowEnds(i)
      PROVE  Goal
  BY <1>4, KeyRowStep DEF Goal
<1>5. ASSUME NEW i \in Keys, NEW b \in Bodies, ReplayResponse(i, b) PROVE Goal
  BY <1>5 DEF ReplayResponse, Goal
<1>6. ASSUME NEW i \in Keys, ProviderForgets(i) \/ InvoiceEnds(i) \/ Fulfill(i) PROVE Goal
  BY <1>6 DEF ProviderForgets, InvoiceEnds, Fulfill, Goal
<1> QED
  <2>1. CASE Next
    BY <1>2, <1>3, <1>4, <1>5, <1>6, <2>1 DEF Next, Goal
  <2> QED BY <1>1, <2>1 DEF Goal

\* No request, however late, moves a settled row.
THEOREM SettledStays == Spec => SettledIsFinal
<1> DEFINE Kept == \A i \in Keys : Settled(i) =>
             /\ op'[i].status = op[i].status
             /\ op'[i].id = op[i].id
             /\ op'[i].body = op[i].body
             /\ op'[i].linked = op[i].linked
             /\ op'[i].result = op[i].result
             /\ op'[i].token = op[i].token
<1>1. TypeOK /\ OperationInv /\ [Next]_vars => [Kept]_vars
  <2> SUFFICES ASSUME TypeOK, OperationInv, [Next]_vars, NEW i \in Keys, Settled(i)
               PROVE  /\ op'[i].status = op[i].status
                      /\ op'[i].id = op[i].id
                      /\ op'[i].body = op[i].body
                      /\ op'[i].linked = op[i].linked
                      /\ op'[i].result = op[i].result
                      /\ op'[i].token = op[i].token
    OBVIOUS
  <2>1. CASE op' = op
    BY <2>1
  <2>2. ASSUME NEW j \in Keys, RowStep(j)
        PROVE  /\ op'[i].status = op[i].status
               /\ op'[i].id = op[i].id
               /\ op'[i].body = op[i].body
               /\ op'[i].linked = op[i].linked
               /\ op'[i].result = op[i].result
               /\ op'[i].token = op[i].token
    <3>1. PICK row : Put(j, row) /\ RowMove(op[j], row)
      BY <2>2 DEF RowStep
    <3>2. op'[i] = IF i = j THEN row ELSE op[i]
      BY <3>1 DEF Put, TypeOK
    <3>3. CASE i = j
      BY <3>1, <3>2, <3>3 DEF RowMove, Settled
    <3>4. CASE i # j
      BY <3>2, <3>4
    <3> QED BY <3>3, <3>4
  <2> QED BY <2>1, <2>2, StatusStep
<1>2. SettledIsFinal <=> [][Kept]_vars
  BY PTL DEF SettledIsFinal
<1> QED BY <1>1, <1>2, OperationInductive, PTL DEF Spec

(***************************************************************************)
(* What a client polls.                                                    *)
(***************************************************************************)
\* Fulfillment leaves a transaction alone until it is there, and a delivery that
\* began belongs to a payment that was received once.
Begun == \A i \in Keys : delivery[i] # "no" => money[i] \notin {"none", "due"}

\* A step of the purchase is a step of PaymentPromise.
LEMMA PurchaseStep ==
  ASSUME TypeOK, [Next]_vars
  PROVE  UNCHANGED purchase \/ Promise!Next
<1> DEFINE Goal == UNCHANGED purchase \/ Promise!Next
<1> HIDE DEF Goal
<1>1. CASE UNCHANGED vars
  BY <1>1 DEF vars, Goal, purchase
<1>2. ASSUME NEW i \in Keys, Promise!Open(i) \/ Promise!Void(i) \/ Promise!Receive(i)
             \/ Promise!Apply(i) \/ Promise!Prove(i) \/ Promise!HandOver(i) \/ Promise!Return(i)
      PROVE  Goal
  BY <1>2 DEF Promise!Next, Goal
<1>3. ASSUME NEW w \in Execs, ExecStep(w) PROVE Goal
  <2>1. CASE CreateTransaction(w)
    <3>1. exec[w].key \in Keys
      BY <2>1, RequestTypes DEF CreateTransaction, Running
    <3>2. UNCHANGED purchase \/ Promise!Open(exec[w].key)
      BY <2>1 DEF CreateTransaction
    <3> QED BY <1>2, <3>1, <3>2 DEF Goal
  <2>2. CASE CreateLocalTransaction(w)
    <3>1. exec[w].key \in Keys
      BY <2>2, RequestTypes DEF CreateLocalTransaction, Running
    <3>2. UNCHANGED purchase \/ Promise!Open(exec[w].key)
      BY <2>2 DEF CreateLocalTransaction
    <3> QED BY <1>2, <3>1, <3>2 DEF Goal
  <2>3. CASE CompleteWithResult(w)
    <3>1. exec[w].key \in Keys
      BY <2>3, RequestTypes DEF CompleteWithResult, Running
    <3>2. UNCHANGED purchase \/ Promise!Open(exec[w].key) \/ Promise!Void(exec[w].key)
      BY <2>3 DEF CompleteWithResult
    <3> QED BY <1>2, <3>1, <3>2 DEF Goal
  <2>4. CASE \/ Abandon(w) \/ PrepareFails(w) \/ MarkProcessing(w) \/ CallProvider(w)
             \/ Checkpoint(w) \/ Purchase(w) \/ CompleteFree(w) \/ Fail(w)
    BY <2>4 DEF Abandon, PrepareFails, MarkProcessing, CallProvider, Checkpoint, Purchase,
            CompleteFree, Fail, Goal
  <2>5. CASE \/ ReconcileFails(w) \/ CompleteLinked(w) \/ CheckpointLocal(w)
             \/ ReplayAtProvider(w) \/ CheckpointReplay(w) \/ VerifyResult(w)
             \/ RetryLater(w) \/ HandToOperator(w)
    BY <2>5 DEF ReconcileFails, CompleteLinked, CheckpointLocal, ReplayAtProvider,
            CheckpointReplay, VerifyResult, RetryLater, HandToOperator, Goal
  <2> QED BY <1>3, <2>1, <2>2, <2>3, <2>4, <2>5 DEF ExecStep
<1>4. ASSUME NEW w \in Execs, Crash(w) PROVE Goal
  BY <1>4 DEF Crash, Goal
<1>5. ASSUME NEW i \in Keys,
             \/ \E w \in Execs, b \in Bodies : ClaimOperation(w, i, b) \/ ReclaimOperation(w, i, b)
             \/ \E b \in Bodies : ReplayResponse(i, b)
             \/ \E w \in Execs : ClaimReconciliation(w, i)
             \/ ExpireProcessing(i) \/ DeleteExpiredClaim(i) \/ GiveUpReconciliation(i)
             \/ ExpireReconciliation(i) \/ LeaseExpires(i) \/ ReconciliationLeaseExpires(i)
             \/ BackoffElapses(i) \/ ReplayWindowEnds(i) \/ ProviderForgets(i) \/ InvoiceEnds(i)
      PROVE  Goal
  BY <1>5 DEF ClaimOperation, ReclaimOperation, ReplayResponse, ClaimReconciliation,
         ExpireProcessing, DeleteExpiredClaim, GiveUpReconciliation, ExpireReconciliation,
         LeaseExpires, ReconciliationLeaseExpires, BackoffElapses, ReplayWindowEnds,
         ProviderForgets, InvoiceEnds, Goal
<1>6. ASSUME NEW i \in Keys, Fulfill(i) PROVE Goal
  BY <1>2, <1>6 DEF Fulfill
<1> QED
  <2>1. CASE Next
    BY <1>3, <1>4, <1>5, <1>6, <2>1 DEF Next, Goal
  <2> QED BY <1>1, <2>1 DEF Goal

\* A delivery that is proved or handed over stays so, and Begun is inductive.
LEMMA DeliveryStep ==
  ASSUME TypeOK, Begun, [Next]_vars
  PROVE  /\ Begun'
         /\ \A i \in Keys : delivery[i] \in {"done", "review"} => delivery'[i] = delivery[i]
<1>1. CASE UNCHANGED purchase
  BY <1>1 DEF purchase, Begun
<1>2. ASSUME NEW j \in Keys, Promise!Open(j) \/ Promise!Void(j) \/ Promise!Receive(j)
             \/ Promise!Apply(j) \/ Promise!Prove(j) \/ Promise!HandOver(j) \/ Promise!Return(j)
      PROVE  /\ Begun'
             /\ \A i \in Keys : delivery[i] \in {"done", "review"} => delivery'[i] = delivery[i]
  BY <1>2 DEF TypeOK, Begun, Promise!Open, Promise!Void, Promise!Receive, Promise!Apply,
         Promise!Prove, Promise!HandOver, Promise!Return
<1> QED BY <1>1, <1>2, PurchaseStep DEF Promise!Next

\* What becomes of a free operation whose delivery was handed to the operators.
GivenUp(r) == r.status = "MANUAL_REQUIRED" \/ (r.status = "UNKNOWN" /\ r.linked = "yes")

LEMMA ReviewedStep ==
  ASSUME TypeOK, OperationInv, [Next]_vars, NEW i \in Keys, i \in FreeKeys,
         op[i].status = "UNKNOWN", op[i].linked = "yes", delivery[i] = "review"
  PROVE  GivenUp(op'[i])
<1>1. op[i] \in Rows /\ GivenUp(op[i])
  BY DEF TypeOK, GivenUp
<1>2. CASE op'[i] = op[i]
  BY <1>1, <1>2
<1>3. ASSUME NEW j \in Keys, NEW row, Put(j, row), j = i => GivenUp(row)
      PROVE  GivenUp(op'[i])
  BY <1>1, <1>3 DEF Put, TypeOK
<1>4. GivenUp(Manual(op[i])) /\ GivenUp(Released(op[i])) /\ GivenUp(Unknown(op[i]))
  BY <1>1, ManualRow, ReleasedRow, UnknownRow DEF GivenUp
<1>5. ASSUME NEW w \in Execs, ExecStep(w) PROVE GivenUp(op'[i])
  <2>1. CASE exec[w].key # i
    <3>1. UNCHANGED op \/ \E row : Put(exec[w].key, row)
      BY <1>5 DEF ExecStep, Abandon, PrepareFails, MarkProcessing, CallProvider, Checkpoint,
           CreateTransaction, Purchase, CompleteFree, Fail, ReconcileFails, CompleteLinked,
           CheckpointLocal, CreateLocalTransaction, ReplayAtProvider, CheckpointReplay,
           VerifyResult, CompleteWithResult, RetryLater, HandToOperator, Settle
    <3> QED BY <1>1, <2>1, <3>1 DEF Put, TypeOK
  <2>2. CASE exec[w].key = i
    <3>1. /\ exec[w].pc = "finish" => i \notin FreeKeys
          /\ op[i].status = "UNKNOWN" /\ delivery[i] = "review" /\ op[i].linked = "yes"
      BY <2>2 DEF OperationInv, RequestInv
    <3>2. CASE \/ Abandon(w) \/ PrepareFails(w) \/ MarkProcessing(w) \/ CallProvider(w)
               \/ Checkpoint(w) \/ CreateTransaction(w) \/ Purchase(w) \/ CompleteFree(w) \/ Fail(w)
      <4>1. op' = op
        BY <2>2, <3>1, <3>2 DEF Abandon, Deletable, PrepareFails, MarkProcessing, Startable,
           CallProvider, Checkpoint, Processing, CreateTransaction, Purchase, CompleteFree,
           Completable, Fail
      <4> QED BY <1>2, <4>1
    <3>3. CASE \/ ReconcileFails(w) \/ CompleteLinked(w) \/ ReplayAtProvider(w)
               \/ VerifyResult(w) \/ CompleteWithResult(w)
      <4>1. op' = op
        BY <2>2, <3>1, <3>3 DEF ReconcileFails, CompleteLinked, ReplayAtProvider, VerifyResult,
           CompleteWithResult, Running
      <4> QED BY <1>2, <4>1
    <3>4. CASE CheckpointLocal(w) \/ CheckpointReplay(w)
      <4>1. op' = op \/ \E x : Put(i, [op[i] EXCEPT !.result = x])
        BY <2>2, <3>4 DEF CheckpointLocal, CheckpointReplay
      <4>2. \A x : GivenUp([op[i] EXCEPT !.result = x])
        BY <1>1 DEF Rows, GivenUp
      <4> QED BY <1>2, <1>3, <4>1, <4>2
    <3>5. CASE CreateLocalTransaction(w)
      <4>1. op' = op \/ Put(i, [Released(op[i]) EXCEPT !.linked = "yes"])
        BY <2>2, <3>5 DEF CreateLocalTransaction
      <4>2. GivenUp([Released(op[i]) EXCEPT !.linked = "yes"])
        <5>1. Released(op[i]) \in Rows
          BY <1>1, RowTypes
        <5> QED BY <1>4, <5>1 DEF Rows, GivenUp
      <4> QED BY <1>2, <1>3, <4>1, <4>2
    <3>6. CASE RetryLater(w) \/ HandToOperator(w)
      <4>1. GivenUp(Manual([op[i] EXCEPT !.token = None, !.tlease = "NULL"]))
        <5>1. [op[i] EXCEPT !.token = None, !.tlease = "NULL"] \in Rows
          BY <1>1, RowTypes
        <5> QED BY <5>1, ManualRow DEF GivenUp
      <4> QED BY <1>2, <1>3, <1>4, <2>2, <3>6, <4>1 DEF RetryLater, HandToOperator
    <3> QED BY <1>5, <3>2, <3>3, <3>4, <3>5, <3>6 DEF ExecStep
  <2> QED BY <2>1, <2>2
<1>6. ASSUME NEW w \in Execs, Crash(w) PROVE GivenUp(op'[i])
  BY <1>1, <1>6 DEF Crash
<1>7. ASSUME NEW j \in Keys,
             \/ \E w \in Execs, b \in Bodies : ClaimOperation(w, j, b) \/ ReclaimOperation(w, j, b)
             \/ \E w \in Execs : ClaimReconciliation(w, j)
             \/ ExpireProcessing(j) \/ DeleteExpiredClaim(j) \/ GiveUpReconciliation(j)
             \/ ExpireReconciliation(j) \/ LeaseExpires(j) \/ ReconciliationLeaseExpires(j)
             \/ BackoffElapses(j) \/ ReplayWindowEnds(j)
      PROVE  GivenUp(op'[i])
  <2>1. CASE j # i
    <3>1. \E row : Put(j, row)
      BY <1>7 DEF ClaimOperation, ReclaimOperation, ClaimReconciliation, ExpireProcessing,
         DeleteExpiredClaim, GiveUpReconciliation, ExpireReconciliation, LeaseExpires,
         ReconciliationLeaseExpires, BackoffElapses, ReplayWindowEnds
    <3> QED BY <1>3, <2>1, <3>1
  <2>2. CASE j = i
    <3>1. ASSUME NEW w \in Execs, ClaimReconciliation(w, i) PROVE GivenUp(op'[i])
      <4>1. Put(i, [Unknown(op[i]) EXCEPT !.token = w, !.tlease = "LIVE", !.attempt = @ + 1])
        BY <3>1 DEF ClaimReconciliation
      <4>2. GivenUp([Unknown(op[i]) EXCEPT !.token = w, !.tlease = "LIVE", !.attempt = @ + 1])
        <5>1. Unknown(op[i]) \in Rows
          BY <1>1, RowTypes
        <5> QED BY <1>1, <5>1, UnknownRow DEF Rows, GivenUp
      <4> QED BY <1>3, <4>1, <4>2
    <3>2. ~ \E w \in Execs, b \in Bodies : ClaimOperation(w, i, b) \/ ReclaimOperation(w, i, b)
      BY DEF ClaimOperation, ReclaimOperation, Claimable
    <3>3. ~ExpireProcessing(i) /\ ~DeleteExpiredClaim(i)
      BY DEF ExpireProcessing, Overdue, DeleteExpiredClaim, Claimable
    <3>4. CASE GiveUpReconciliation(i) \/ ExpireReconciliation(i)
      <4>1. GivenUp(Manual(Unknown(op[i])))
        <5>1. Unknown(op[i]) \in Rows
          BY <1>1, RowTypes
        <5> QED BY <5>1, ManualRow DEF GivenUp
      <4> QED BY <1>3, <1>4, <3>4, <4>1 DEF GiveUpReconciliation, ExpireReconciliation
    <3>5. CASE \/ LeaseExpires(i) \/ ReconciliationLeaseExpires(i) \/ BackoffElapses(i)
               \/ ReplayWindowEnds(i)
      <4>1. PICK row \in {[op[i] EXCEPT !.lease = "EXPIRED"], [op[i] EXCEPT !.tlease = "EXPIRED"],
                          [op[i] EXCEPT !.due = "yes"], [op[i] EXCEPT !.replay = "OVER"]} :
              Put(i, row)
        BY <3>5 DEF LeaseExpires, ReconciliationLeaseExpires, BackoffElapses, ReplayWindowEnds
      <4>2. GivenUp(row)
        BY <1>1 DEF Rows, GivenUp
      <4> QED BY <1>3, <4>1, <4>2
    <3> QED BY <1>7, <2>2, <3>1, <3>2, <3>3, <3>4, <3>5
  <2> QED BY <2>1, <2>2
<1>8. ASSUME NEW j \in Keys, \/ \E b \in Bodies : ReplayResponse(j, b)
                             \/ ProviderForgets(j) \/ InvoiceEnds(j) \/ Fulfill(j)
      PROVE  GivenUp(op'[i])
  BY <1>1, <1>8 DEF ReplayResponse, ProviderForgets, InvoiceEnds, Fulfill
<1>9. CASE UNCHANGED vars
  BY <1>1, <1>9 DEF vars
<1> QED
  <2>1. CASE Next
    BY <1>5, <1>6, <1>7, <1>8, <2>1 DEF Next
  <2> QED BY <1>9, <2>1

\* The states at which a client stops polling are never taken back.
THEOREM FinalViews == Spec => FinalViewsStay
<1> DEFINE Kept == \A i \in Keys :
             View(i) \in {"SUCCEEDED", "MANUAL_REQUIRED"} => View(i)' = View(i)
<1>1. Init => Begun
  BY DEF Init, Promise!Init, Begun
<1>2. TypeOK /\ Begun /\ [Next]_vars => Begun'
  BY DeliveryStep
<1>3. TypeOK /\ OperationInv /\ Begun /\ [Next]_vars => [Kept]_vars
  <2> SUFFICES ASSUME TypeOK, OperationInv, Begun, [Next]_vars, NEW i \in Keys,
                      View(i) \in {"SUCCEEDED", "MANUAL_REQUIRED"}
               PROVE  View(i)' = View(i)
    OBVIOUS
  <2>1. op[i] \in Rows /\ op[i].status \in Statuses /\ RowInv(i)
    BY DEF TypeOK, Rows, OperationInv
  <2>2. delivery[i] \in {"done", "review"} => delivery'[i] = delivery[i]
    BY DeliveryStep
  <2>3. Settled(i) => op'[i].status = op[i].status
    <3>1. CASE op' = op
      BY <3>1
    <3>2. ASSUME NEW j \in Keys, RowStep(j), Settled(i) PROVE op'[i].status = op[i].status
      <4>1. PICK row : Put(j, row) /\ RowMove(op[j], row)
        BY <3>2 DEF RowStep
      <4>2. op'[i] = IF i = j THEN row ELSE op[i]
        BY <4>1 DEF Put, TypeOK
      <4> QED BY <3>2, <4>1, <4>2 DEF RowMove, Settled
    <3> QED BY <3>1, <3>2, StatusStep
  <2>4. CASE op[i].status = "MANUAL_REQUIRED"
    BY <2>3, <2>4 DEF View, Settled
  <2>5. CASE op[i].status = "SUCCEEDED"
    BY <2>1, <2>2, <2>3, <2>5 DEF View, Settled, RowInv
  <2>6. CASE op[i].status = "UNKNOWN"
    <3>1. op[i].linked = "yes" /\ i \in FreeKeys /\ delivery[i] = "review"
          /\ View(i) = "MANUAL_REQUIRED"
      BY <2>6 DEF View
    <3>2. GivenUp(op'[i])
      BY <2>6, <3>1, ReviewedStep
    <3> QED BY <2>2, <3>1, <3>2 DEF View, GivenUp
  <2>7. CASE op[i].status \in {"ABSENT", "CLAIMED", "PROCESSING"}
    BY <2>7 DEF View
  <2> QED BY <2>1, <2>4, <2>5, <2>6, <2>7 DEF Statuses
<1>4. FinalViewsStay <=> [][Kept]_vars
  BY PTL DEF FinalViewsStay
<1> QED BY <1>1, <1>2, <1>3, <1>4, OperationInductive, PTL DEF Spec

\* The operation implements the promise of an Idempotency-Key.
THEOREM KeepsPromise == Spec => ImplementsOnce
<1> DEFINE ph == [i \in Keys |-> Phase(i)]
<1>1. Init => Once!Init
  BY DEF Init, Once!Init, Phase, NoRow
<1>2. TypeOK /\ OperationInv /\ TypeOK' /\ OperationInv' /\ [Next]_vars => [Once!Next]_(Once!ovars)
  <2> SUFFICES ASSUME TypeOK, OperationInv, TypeOK', OperationInv', [Next]_vars
               PROVE  [Once!Next]_(Once!ovars)
    OBVIOUS
  <2>1. CASE op' = op /\ charges' = charges
    BY <2>1 DEF Once!ovars, Phase
  <2>2. ASSUME NEW i \in Keys, op' = op, ChargeStep(i) PROVE Once!Next
    <3>1. Phase(i) \in {"open", "review"}
      BY <2>2 DEF ChargeStep, Phase
    <3>2. ph' = ph
      BY <2>2 DEF Phase
    <3> QED BY <2>2, <3>1, <3>2 DEF ChargeStep, Once!Next, Once!Charge
  <2>3. ASSUME NEW i \in Keys, charges' = charges, RowStep(i) PROVE [Once!Next]_(Once!ovars)
    <3>1. PICK row : Put(i, row) /\ RowMove(op[i], row)
      BY <2>3 DEF RowStep
    <3>2. op'[i] = row /\ \A j \in Keys \ {i} : op'[j] = op[j]
      BY <3>1 DEF Put, TypeOK
    <3>3. op[i] \in Rows /\ RowInv(i) /\ RowInv(i)' /\ op'[i] \in Rows
      BY DEF TypeOK, OperationInv
    <3>4. ph' = [ph EXCEPT ![i] = Phase(i)']
      BY <3>2 DEF Phase
    <3>5. ph[i] = Phase(i) /\ ph \in [Keys -> {"new", "open", "settled", "review"}]
      BY DEF Phase
    <3>6. CASE row.status = op[i].status
      <4>1. Phase(i)' = Phase(i)
        BY <3>2, <3>6 DEF Phase
      <4> QED BY <2>3, <3>4, <3>5, <4>1 DEF Once!ovars
    <3>7. CASE op[i].status = "ABSENT" /\ row.status = "CLAIMED"
      <4>1. Phase(i) = "new" /\ Phase(i)' = "open"
        BY <3>2, <3>7 DEF Phase
      <4> QED BY <2>3, <3>4, <3>5, <4>1 DEF Once!Next, Once!Begin
    <3>8. CASE op[i].status = "CLAIMED" /\ row.status = "ABSENT"
      <4>1. Phase(i) = "open" /\ Phase(i)' = "new" /\ charges[i] = 0
        BY <3>2, <3>3, <3>8 DEF Phase, RowInv, Past
      <4> QED BY <2>3, <3>4, <3>5, <4>1 DEF Once!Next, Once!Forget
    <3>9. CASE op[i].status \in {"CLAIMED", "PROCESSING", "UNKNOWN"}
               /\ row.status \in {"PROCESSING", "UNKNOWN"}
      <4>1. Phase(i) = "open" /\ Phase(i)' = "open"
        BY <3>2, <3>9 DEF Phase
      <4> QED BY <2>3, <3>4, <3>5, <4>1 DEF Once!ovars
    <3>10. CASE op[i].status \in {"PROCESSING", "UNKNOWN"} /\ row.status = "SUCCEEDED"
      <4>1. Phase(i) = "open" /\ Phase(i)' = "settled" /\ (charges[i] = 1 \/ i \in FreeKeys)
        BY <2>3, <3>2, <3>3, <3>10 DEF Phase, RowInv
      <4> QED BY <2>3, <3>4, <3>5, <4>1 DEF Once!Next, Once!Settle
    <3>11. CASE op[i].status \in {"PROCESSING", "UNKNOWN"} /\ row.status = "MANUAL_REQUIRED"
      <4>1. Phase(i) = "open" /\ Phase(i)' = "review"
        BY <3>2, <3>11 DEF Phase
      <4> QED BY <2>3, <3>4, <3>5, <4>1 DEF Once!Next, Once!Review
    <3> QED BY <3>1, <3>6, <3>7, <3>8, <3>9, <3>10, <3>11 DEF RowMove
  <2> QED BY <2>1, <2>2, <2>3, StatusStep
<1> QED BY <1>1, <1>2, OperationInductive, PTL DEF Spec, ImplementsOnce, Once!Spec
=============================================================================
