---------------------------- MODULE ChannelProofs ----------------------------
(***************************************************************************)
(* What every step of NotificationChannels, and every operation of it that *)
(* broadcasts use, keeps, for any number of users, messages, subscriptions *)
(* and runs.  BroadcastProofs puts the steps together.                     *)
(***************************************************************************)
EXTENDS NotificationChannels, Counting

Terminal == {"SENT", "CANCELED", "FAILED"}

\* A row the statements can have written.
RowFits(r) ==
  /\ r \in Rows
  /\ RowAllowed(r)
  /\ r.live => r.state = "PROCESSING"
  /\ r.state = "none" => r = NoRow
  /\ r.state \in Waiting \cup {"none", "PROCESSING"} => r.attempt < MaxAttempts

\* A row hangs on a push subscription that exists.
Anchored(k) == k.to \in Subscriptions /\ row[k] # NoRow => owner[k.to] \in Users

\* Runs that may still hand copy k to its server.
Pending(k) == {w \in Workers : k \in worker[w].jobs /\ worker[w].answer[k] = None}

\* No row was ever queued for k.
Fresh(k) == row[k] = NoRow /\ (k.to \in Subscriptions => owner[k.to] # "deleted")

Carried(k) ==
  /\ row[k].live
  /\ k \in worker[row[k].token].jobs
  /\ worker[row[k].token].answer[k] \in {None, "delivered", "gone"}

\* Copy k cannot be claimed again unless something fails.
Spent(k) ==
  \/ row[k].state \in Terminal
  \/ row[k] = NoRow /\ k.to \in Subscriptions /\ owner[k.to] = "deleted"
  \/ Carried(k)

Budget(k) ==
  /\ Fresh(k) => sent[k] = 0 /\ Pending(k) = {}
  /\ sent[k] + Cardinality(Pending(k)) <= faults + 1
  /\ ~Spent(k) => sent[k] + Cardinality(Pending(k)) <= faults

RunOK(w) ==
  /\ worker[w].jobs = {} => worker[w] = Idle
  /\ worker[w].jobs \cap Mails # {} => \E k \in Mails : worker[w].jobs = {k}

\* Runs that may still hand a mail for u to the server, and those that may any mail.
Mailing(u) == {w \in Workers : \E k \in Mails : k.user = u /\ w \in Pending(k)}
MailRuns == {w \in Workers : MailRun(w)}

ConsentOK(u) ==
  /\ consent[u] = "open" => late[u] = 0
  /\ consent[u] # "open" => late[u] + Cardinality(Mailing(u)) <= 1 + faults

ChannelInv ==
  /\ ChannelTypeOK
  /\ \A k \in Keys : RowFits(row[k]) /\ Anchored(k) /\ Budget(k)
  /\ \A w \in Workers : RunOK(w)
  /\ Cardinality(MailRuns) <= 1 + faults
  /\ \A u \in Users : ConsentOK(u)

-----------------------------------------------------------------------------
LEMMA ConstantFacts ==
  /\ MaxAttempts \in Nat /\ MaxAttempts > 0
  /\ MaxFaults \in Nat
  /\ \A s \in Subscriptions : s # "EMAIL" /\ s # None
  /\ "EMAIL" # None
  /\ \A u \in Users : u # "unused" /\ u # "deleted" /\ u # None
  /\ \A w \in Workers : w # None
  /\ None \notin Answers
  /\ IsFiniteSet(Workers)
BY ChannelConstants DEF Answers

(* The keys: mails and pushes with their revocations.                      *)
LEMMA KeyFacts ==
  /\ Keys \subseteq [msg : Messages, user : Users, to : Subscriptions \cup {"EMAIL"},
                     revokes : BOOLEAN]
  /\ \A k \in Keys : k \in Mails <=> k.to = "EMAIL"
  /\ \A k \in Keys : k \in Pushes <=> k.to \in Subscriptions /\ ~k.revokes
  /\ \A k \in Pushes : Revocation(k) \in Keys /\ Revocation(k).revokes
                        /\ Revocation(k).to = k.to /\ Revocation(k).msg = k.msg
  /\ Mails \subseteq Keys /\ Pushes \subseteq Keys
<1> DEFINE Shape == [msg : Messages, user : Users, to : Subscriptions \cup {"EMAIL"},
                     revokes : BOOLEAN]
<1>1. ASSUME NEW k \in Mails PROVE k \in Shape /\ k.to = "EMAIL" /\ ~k.revokes
  <2>1. PICK m \in Messages, u \in Users : k = Key(m, u, "EMAIL")
    BY DEF Mails
  <2> QED BY <2>1 DEF Key
<1>2. ASSUME NEW k \in Pushes PROVE k \in Shape /\ k.to \in Subscriptions /\ ~k.revokes
  <2>1. PICK m \in Messages, u \in Users, t \in Subscriptions : k = Key(m, u, t)
    BY DEF Pushes
  <2> QED BY <2>1 DEF Key
<1>3. \A k \in Pushes : /\ Revocation(k) \in Shape /\ Revocation(k).revokes
                        /\ Revocation(k).to = k.to /\ Revocation(k).msg = k.msg
  BY <1>2 DEF Revocation
<1>4. Mails \subseteq Keys /\ Pushes \subseteq Keys /\ \A k \in Pushes : Revocation(k) \in Keys
  BY DEF Keys
<1>5. ASSUME NEW k \in Keys
      PROVE  /\ k \in Shape
             /\ k \in Mails <=> k.to = "EMAIL"
             /\ k \in Pushes <=> k.to \in Subscriptions /\ ~k.revokes
  <2>1. CASE k \in Mails
    BY <1>1, <1>2, <2>1, ConstantFacts
  <2>2. CASE k \in Pushes
    BY <1>1, <1>2, <2>2, ConstantFacts
  <2>3. CASE \E p \in Pushes : k = Revocation(p)
    BY <1>1, <1>2, <1>3, <2>3, ConstantFacts
  <2> QED BY <2>1, <2>2, <2>3 DEF Keys
<1> QED BY <1>3, <1>4, <1>5

LEMMA PendingFinite ==
  /\ \A k \in Keys : IsFiniteSet(Pending(k)) /\ Cardinality(Pending(k)) \in Nat
  /\ \A u \in Users : IsFiniteSet(Mailing(u)) /\ Cardinality(Mailing(u)) \in Nat
  /\ IsFiniteSet(MailRuns) /\ Cardinality(MailRuns) \in Nat
<1>1. ASSUME NEW T \in SUBSET Workers PROVE IsFiniteSet(T) /\ Cardinality(T) \in Nat
  BY <1>1, ConstantFacts, FS_Subset, FS_CardinalityType
<1>2. /\ \A k \in Keys : Pending(k) \in SUBSET Workers
      /\ \A u \in Users : Mailing(u) \in SUBSET Workers
      /\ MailRuns \in SUBSET Workers
  BY DEF Pending, Mailing, MailRuns
<1> QED BY <1>1, <1>2

-----------------------------------------------------------------------------
(* The rows that the statements write.                                     *)

\* A row whose claim is over, or that has none.
LEMMA RestFits ==
  ASSUME NEW r, r \in Rows, r.state \in Waiting \cup Terminal, r.token = None, ~r.live,
         r.state \in Waiting => r.attempt < MaxAttempts
  PROVE  RowFits(r)
<1>1. r.state \notin {"PROCESSING", "none"}
  BY DEF Waiting, Terminal
<1> QED BY <1>1 DEF RowFits, RowAllowed

LEMMA NewFits == RowFits(NoRow) /\ RowFits(NewRow) /\ NewRow.state = "PENDING" /\ NewRow # NoRow
<1>1. NoRow \in Rows
  BY ConstantFacts DEF NoRow, Rows
<1>2. NoRow.state = "none" /\ NoRow.token = None /\ ~NoRow.live /\ NoRow.attempt = 0
  BY DEF NoRow
<1>3. RowFits(NoRow)
  BY <1>1, <1>2, ConstantFacts DEF RowFits, RowAllowed
<1>4. NewRow \in Rows
  BY <1>1 DEF NewRow, Rows, Waiting
<1>5. NewRow.state = "PENDING" /\ NewRow.token = None /\ ~NewRow.live /\ NewRow.attempt = 0
  BY <1>1, <1>2 DEF NewRow, Rows
<1>6. RowFits(NewRow)
  BY <1>4, <1>5, ConstantFacts, RestFits DEF Waiting
<1> QED BY <1>2, <1>3, <1>5, <1>6

(* Withdrawing a copy that waits, or one whose claim is over.              *)
LEMMA WithdrawnFits ==
  ASSUME NEW r, RowFits(r)
  PROVE  /\ r.state \in Waiting => RowFits([r EXCEPT !.state = "CANCELED"])
         /\ RowFits([r EXCEPT !.state = "CANCELED", !.token = None, !.live = FALSE])
         /\ RowFits([r EXCEPT !.live = FALSE])
<1>1. r.state \in Waiting => RowFits([r EXCEPT !.state = "CANCELED"])
  BY ConstantFacts DEF RowFits, RowAllowed, Rows, Waiting, NoRow
<1>2. RowFits([r EXCEPT !.state = "CANCELED", !.token = None, !.live = FALSE])
  BY ConstantFacts DEF RowFits, RowAllowed, Rows, Waiting, NoRow
<1>3. RowFits([r EXCEPT !.live = FALSE])
  BY ConstantFacts DEF RowFits, RowAllowed, Rows, Waiting, NoRow
<1> QED BY <1>1, <1>2, <1>3

LEMMA ClaimedFits ==
  ASSUME NEW r, RowFits(r), NEW w \in Workers, r.state \in Waiting \cup {"PROCESSING"}
  PROVE  RowFits(Claimed(r, w)) /\ Claimed(r, w).live /\ Claimed(r, w).token = w
         /\ Claimed(r, w).state = "PROCESSING"
BY ConstantFacts DEF RowFits, RowAllowed, Rows, Waiting, NoRow, Claimed

LEMMA FinishedFits ==
  ASSUME NEW r, RowFits(r), r.state = "PROCESSING", NEW a \in Answers
  PROVE  /\ RowFits(Finished(r, a))
         /\ Finished(r, a).state \in Waiting \cup Terminal
         /\ Finished(r, a).state \in Waiting => a \in {"retry", "deferred"}
<1>1. r \in Rows /\ r.attempt < MaxAttempts /\ r.attempt \in Nat
      /\ r = [state |-> r.state, token |-> r.token, live |-> r.live, attempt |-> r.attempt]
  BY DEF RowFits, Rows
<1>2. r.attempt \in 0 .. MaxAttempts /\ r.attempt + 1 \in 0 .. MaxAttempts
  BY <1>1, ConstantFacts
<1> DEFINE q(st) == Released(r, st)
           n(st) == [q(st) EXCEPT !.attempt = @ + 1]
<1>3. ASSUME NEW st \in Waiting \cup Terminal
      PROVE  /\ q(st) \in Rows /\ q(st).state = st /\ q(st).token = None /\ ~q(st).live
             /\ q(st).attempt = r.attempt
  BY <1>1, ConstantFacts DEF Released, Rows, Waiting, Terminal
<1> HIDE DEF q
<1>4. ASSUME NEW st \in Waiting \cup Terminal
      PROVE  /\ n(st) \in Rows /\ n(st).state = st /\ n(st).token = None /\ ~n(st).live
             /\ n(st).attempt = r.attempt + 1
  BY <1>2, <1>3 DEF Rows
<1> HIDE DEF n
<1>5. CASE a = "deferred"
  <2>1. PICK st \in Waiting : Finished(r, a) = q(st)
    BY <1>5 DEF Finished, Waiting, q
  <2> QED BY <1>1, <1>3, <1>5, <2>1, RestFits
<1>6. CASE a = "retry" /\ Retries(r)
  <2>1. Finished(r, a) = n("RETRY_WAITING") /\ "RETRY_WAITING" \in Waiting
    BY <1>6 DEF Finished, n, q, Waiting
  <2>2. r.attempt + 1 < MaxAttempts
    BY <1>6 DEF Retries
  <2> QED BY <1>4, <1>6, <2>1, <2>2, RestFits
<1>7. CASE a # "deferred" /\ ~(a = "retry" /\ Retries(r))
  <2>1. PICK st \in Terminal : Finished(r, a) = n(st)
    BY <1>7 DEF Finished, Terminal, n, q
  <2>2. st \notin Waiting
    BY DEF Waiting, Terminal
  <2> QED BY <1>4, <2>1, <2>2, RestFits
<1> QED BY <1>5, <1>6, <1>7

-----------------------------------------------------------------------------
(* What the parts of the invariant need of a step.                         *)

\* A step of somebody who is no run and no user: rows are withdrawn or queued.
QuietRow(k) ==
  \/ row'[k] = row[k]
  \/ /\ RowFits(row'[k]) /\ row'[k] # NoRow
     /\ row[k] # NoRow \/ (k.to \in Subscriptions => owner[k.to] \in Users)
     /\ row'[k].state \in Terminal \/ Fresh(k)

(* Rows may be withdrawn and new ones queued, faults may happen.           *)
LEMMA QuietKeeps ==
  ASSUME ChannelInv, UNCHANGED <<owner, consent, worker, sent, late>>,
         faults' \in 0 .. MaxFaults, faults' >= faults,
         row' \in [Keys -> Rows],
         feed' \in [Messages -> [Users -> {"none", "shown", "hidden"}]],
         \A k \in Keys : QuietRow(k)
  PROVE  ChannelInv'
<1>1. ChannelTypeOK'
  BY DEF ChannelInv, ChannelTypeOK
<1>n. faults \in Nat /\ faults' \in Nat /\ \A k \in Keys : sent[k] \in Nat
  BY ConstantFacts DEF ChannelInv, ChannelTypeOK
<1>2. ASSUME NEW k \in Keys PROVE RowFits(row'[k]) /\ Anchored(k)' /\ Budget(k)'
  <2>1. RowFits(row[k]) /\ Anchored(k) /\ Budget(k) /\ QuietRow(k)
    BY DEF ChannelInv
  <2>2. Pending(k)' = Pending(k) /\ sent'[k] = sent[k]
    BY DEF Pending
  <2> DEFINE n == sent[k] + Cardinality(Pending(k))
  <2>3. n \in Nat
    BY <1>n, PendingFinite
  <2>4. CASE row'[k] = row[k]
    <3>1. (Fresh(k)' = Fresh(k)) /\ (Spent(k)' = Spent(k)) /\ Anchored(k)'
      BY <2>1, <2>4 DEF Fresh, Spent, Carried, Anchored
    <3>2. (Fresh(k) => sent[k] = 0 /\ Pending(k) = {}) /\ n <= faults + 1 /\ (~Spent(k) => n <= faults)
      BY <2>1 DEF Budget
    <3> HIDE DEF n
    <3>a. n <= faults + 1 /\ (~Spent(k) => n <= faults)
      BY <3>2
    <3>b. faults \in Nat /\ faults' \in Nat
      BY <1>n
    <3>3. n <= faults' + 1 /\ (~Spent(k) => n <= faults')
      BY <3>a, <3>b, <2>3, Slack
    <3> QED BY <2>1, <2>2, <2>4, <3>1, <3>2, <3>3 DEF Budget, n
  <2>5. CASE row'[k] # row[k]
    <3>1. RowFits(row'[k]) /\ row'[k] # NoRow /\ (row'[k].state \in Terminal \/ Fresh(k))
          /\ (row[k] # NoRow \/ (k.to \in Subscriptions => owner[k.to] \in Users))
      BY <2>1, <2>5 DEF QuietRow
    <3>2. Anchored(k)'
      BY <2>1, <3>1 DEF Anchored
    <3>3. ~Fresh(k)'
      BY <3>1 DEF Fresh
    <3>4. n <= faults + 1
      BY <2>1 DEF Budget
    <3>5. row'[k].state \in Terminal => Spent(k)'
      BY DEF Spent
    <3>6. Fresh(k) => n = 0
      <4>1. Fresh(k) => sent[k] = 0 /\ Pending(k) = {}
        BY <2>1 DEF Budget
      <4>2. Cardinality({}) = 0
        BY FS_EmptySet
      <4>3. 0 + 0 = 0
        OBVIOUS
      <4> QED BY <4>1, <4>2, <4>3
    <3> HIDE DEF n
    <3>7. n <= faults' + 1 /\ (~Spent(k)' => n <= faults')
      BY <3>1, <3>4, <3>5, <3>6, <2>3, <1>n
    <3> QED BY <2>2, <3>1, <3>2, <3>3, <3>7 DEF Budget, n
  <2> QED BY <2>4, <2>5
<1>3. \A w \in Workers : RunOK(w)'
  BY DEF ChannelInv, RunOK
<1>4. MailRuns' = MailRuns /\ \A u \in Users : Mailing(u)' = Mailing(u)
  BY DEF MailRuns, MailRun, Mailing, Pending
<1>5. Cardinality(MailRuns)' <= 1 + faults'
  BY <1>n, <1>4, PendingFinite DEF ChannelInv
<1>6. ASSUME NEW u \in Users PROVE ConsentOK(u)'
  <2>1. ConsentOK(u) /\ late[u] \in Nat
    BY DEF ChannelInv, ChannelTypeOK
  <2> QED BY <1>n, <1>4, <2>1, PendingFinite DEF ConsentOK
<1> QED BY <1>1, <1>2, <1>3, <1>5, <1>6 DEF ChannelInv

(* What no statement of the channels writes may change as it likes.        *)
LEMMA ChannelStutter == ASSUME ChannelInv, UNCHANGED channelVars PROVE ChannelInv'
<1>1. UNCHANGED <<row, feed, owner, consent, worker, sent, late, faults>>
  BY DEF channelVars
<1>2. ChannelTypeOK
  BY DEF ChannelInv
<1>3. faults \in 0 .. MaxFaults /\ faults \in Nat /\ row \in [Keys -> Rows]
      /\ feed \in [Messages -> [Users -> {"none", "shown", "hidden"}]]
  BY <1>2, ConstantFacts DEF ChannelTypeOK
<1>4. \A k \in Keys : QuietRow(k)
  BY <1>1 DEF QuietRow
<1> QED BY <1>1, <1>3, <1>4, QuietKeeps

(* A fault elsewhere only adds to what is allowed.                         *)
LEMMA FaultKeeps ==
  ASSUME ChannelInv, Fault, UNCHANGED <<row, feed, owner, consent, worker, sent, late>>
  PROVE  ChannelInv'
<1>1. faults \in 0 .. MaxFaults /\ row \in [Keys -> Rows]
      /\ feed \in [Messages -> [Users -> {"none", "shown", "hidden"}]]
  BY DEF ChannelInv, ChannelTypeOK
<1>2. faults' \in 0 .. MaxFaults /\ faults' >= faults
  BY <1>1, ConstantFacts DEF Fault
<1>3. \A k \in Keys : QuietRow(k)
  BY DEF QuietRow
<1> QED BY <1>1, <1>2, <1>3, QuietKeeps

FeedType == [Messages -> [Users -> {"none", "shown", "hidden"}]]

LEMMA EnqueueKeeps ==
  ASSUME ChannelInv, NEW m \in Messages, NEW us \in SUBSET Users, Enqueue(m, us),
         UNCHANGED <<owner, consent, worker, sent, late, faults>>
  PROVE  ChannelInv'
<1>1. faults \in 0 .. MaxFaults /\ faults \in Nat /\ row \in [Keys -> Rows] /\ feed \in FeedType
  BY ConstantFacts DEF ChannelInv, ChannelTypeOK, FeedType
<1>2. feed' \in FeedType
  BY <1>1 DEF Enqueue, FeedType
<1>3. row' = [k \in Keys |-> IF k \in CopiesOf(m, us) /\ row[k] = NoRow THEN NewRow ELSE row[k]]
  BY DEF Enqueue, Queued
<1>4. row' \in [Keys -> Rows]
  BY <1>1, <1>3, NewFits DEF RowFits
<1>5. ASSUME NEW k \in Keys PROVE QuietRow(k)
  <2>1. CASE k \in CopiesOf(m, us) /\ row[k] = NoRow
    <3>1. row'[k] = NewRow
      BY <1>3, <2>1
    <3>2. k.to \in Subscriptions => owner[k.to] = k.user /\ k.user \in Users
      BY <2>1, KeyFacts, ConstantFacts DEF CopiesOf
    <3>3. Fresh(k)
      BY <2>1, <3>2, ConstantFacts DEF Fresh
    <3> QED BY <3>1, <3>2, <3>3, NewFits DEF QuietRow
  <2>2. CASE ~(k \in CopiesOf(m, us) /\ row[k] = NoRow)
    BY <1>3, <2>2 DEF QuietRow
  <2> QED BY <2>1, <2>2
<1> QED BY <1>1, <1>2, <1>4, <1>5, QuietKeeps DEF FeedType

(* Withdrawing a message, with or without revocations.                     *)
LEMMA CanceledRow ==
  ASSUME ChannelInv, NEW m \in Messages, NEW k \in Keys
  PROVE  /\ CanceledRows(m)[k] \in Rows
         /\ row'[k] = CanceledRows(m)[k] => QuietRow(k)
<1>1. RowFits(row[k])
  BY DEF ChannelInv
<1>2. CASE k.msg = m /\ ~k.revokes /\ row[k].state \in Waiting
  <2>1. CanceledRows(m)[k] = [row[k] EXCEPT !.state = "CANCELED"]
    BY <1>2 DEF CanceledRows
  <2>2. RowFits(CanceledRows(m)[k])
    BY <1>1, <1>2, <2>1, WithdrawnFits
  <2>3. row[k] # NoRow
    BY <1>2 DEF NoRow, Waiting
  <2>4. CanceledRows(m)[k].state = "CANCELED"
    BY <2>1, <1>1 DEF RowFits, Rows
  <2> QED BY <2>2, <2>3, <2>4 DEF QuietRow, Terminal, RowFits, NoRow
<1>3. CASE ~(k.msg = m /\ ~k.revokes /\ row[k].state \in Waiting)
  BY <1>1, <1>3 DEF CanceledRows, QuietRow, RowFits
<1> QED BY <1>2, <1>3

LEMMA CancelKeeps ==
  ASSUME ChannelInv, NEW m \in Messages, CancelPending(m),
         UNCHANGED <<feed, owner, consent, worker, sent, late, faults>>
  PROVE  ChannelInv'
<1>1. faults \in 0 .. MaxFaults /\ faults \in Nat /\ feed \in FeedType
  BY ConstantFacts DEF ChannelInv, ChannelTypeOK, FeedType
<1>2. row' \in [Keys -> Rows] /\ \A k \in Keys : QuietRow(k)
  <2>1. row' = CanceledRows(m) /\ CanceledRows(m) = [k \in Keys |-> CanceledRows(m)[k]]
    BY DEF CancelPending, CanceledRows
  <2> QED BY <2>1, CanceledRow
<1> QED BY <1>1, <1>2, QuietKeeps DEF FeedType

LEMMA HiddenOK == ASSUME ChannelInv, NEW m \in Messages PROVE HiddenFeed(m) \in FeedType
BY DEF ChannelInv, ChannelTypeOK, FeedType, HiddenFeed

LEMMA HideKeeps ==
  ASSUME ChannelInv, NEW m \in Messages, HideFeed(m),
         UNCHANGED <<row, owner, consent, worker, sent, late, faults>>
  PROVE  ChannelInv'
<1>1. faults \in 0 .. MaxFaults /\ faults \in Nat /\ row \in [Keys -> Rows]
  BY ConstantFacts DEF ChannelInv, ChannelTypeOK
<1>2. feed' \in FeedType /\ \A k \in Keys : QuietRow(k)
  BY HiddenOK DEF HideFeed, QuietRow
<1> QED BY <1>1, <1>2, QuietKeeps DEF FeedType

LEMMA RecallKeeps ==
  ASSUME ChannelInv, NEW m \in Messages, Recall(m),
         UNCHANGED <<owner, consent, worker, sent, late, faults>>
  PROVE  ChannelInv'
<1>1. faults \in 0 .. MaxFaults /\ faults \in Nat
  BY ConstantFacts DEF ChannelInv, ChannelTypeOK
<1>2. feed' \in FeedType
  BY HiddenOK DEF Recall, HideFeed
<1>3. ASSUME NEW k \in Keys PROVE row'[k] \in Rows /\ QuietRow(k)
  <2>1. CASE \E p \in ToRevoke(m) : k = Revocation(p) /\ row[k] = NoRow
    <3>1. PICK p \in ToRevoke(m) : k = Revocation(p) /\ row[k] = NoRow
      BY <2>1
    <3>2. row'[k] = NewRow
      BY <2>1 DEF Recall
    <3>3. p \in Pushes /\ p \in Keys /\ row[p] # NoRow /\ k.to = p.to /\ p.to \in Subscriptions
      BY <3>1, KeyFacts DEF ToRevoke, NoRow
    <3>4. owner[k.to] \in Users
      BY <3>3 DEF ChannelInv, Anchored
    <3>5. Fresh(k)
      BY <3>1, <3>4, ConstantFacts DEF Fresh
    <3> QED BY <3>2, <3>4, <3>5, NewFits DEF QuietRow, RowFits
  <2>2. CASE ~(\E p \in ToRevoke(m) : k = Revocation(p) /\ row[k] = NoRow)
    <3>1. row'[k] = CanceledRows(m)[k]
      BY <2>2 DEF Recall
    <3> QED BY <3>1, CanceledRow
  <2> QED BY <2>1, <2>2
<1>4. row' \in [Keys -> Rows]
  <2>1. row' = [k \in Keys |-> row'[k]]
    BY DEF Recall
  <2> QED BY <2>1, <1>3
<1> QED BY <1>1, <1>2, <1>3, <1>4, QuietKeeps DEF FeedType

LEMMA ExpireKeeps ==
  ASSUME ChannelInv, NEW k \in Keys, ExpireCopy(k) PROVE ChannelInv'
<1>1. faults \in 0 .. MaxFaults /\ faults \in Nat /\ row \in [Keys -> Rows] /\ feed \in FeedType
  BY ConstantFacts DEF ChannelInv, ChannelTypeOK, FeedType
<1> DEFINE r == [row[k] EXCEPT !.state = "CANCELED", !.token = None, !.live = FALSE]
<1>2. row' = [row EXCEPT ![k] = r] /\ UNCHANGED <<feed, owner, consent, worker, sent, late, faults>>
      /\ row[k].state \in Waiting \cup {"PROCESSING"}
  BY DEF ExpireCopy
<1>3. RowFits(row[k])
  BY DEF ChannelInv
<1>4. RowFits(r) /\ r.state = "CANCELED" /\ r \in Rows
  <2>1. r.state = "CANCELED"
    BY <1>3 DEF RowFits, Rows
  <2> QED BY <1>3, <2>1, WithdrawnFits DEF RowFits
<1>5. row[k] # NoRow
  BY <1>2 DEF NoRow, Waiting
<1> HIDE DEF r
<1>6. r # NoRow
  BY <1>4 DEF NoRow
<1>7. \A j \in Keys : QuietRow(j)
  BY <1>1, <1>2, <1>4, <1>5, <1>6 DEF QuietRow, Terminal
<1>8. row' \in [Keys -> Rows]
  BY <1>1, <1>2, <1>4
<1> QED BY <1>1, <1>2, <1>7, <1>8, QuietKeeps DEF FeedType

-----------------------------------------------------------------------------
(* The steps of runs, clocks and users.                                    *)

LEMMA Types ==
  ASSUME ChannelInv
  PROVE  /\ faults \in 0 .. MaxFaults /\ faults \in Nat
         /\ row \in [Keys -> Rows] /\ feed \in FeedType
         /\ owner \in [Subscriptions -> Users \cup {"unused", "deleted"}]
         /\ consent \in [Users -> {"open", "optedOut", "blocked"}]
         /\ worker \in [Workers -> Claims]
         /\ sent \in [Keys -> Nat] /\ late \in [Users -> Nat]
         /\ \A k \in Keys : RowFits(row[k]) /\ Anchored(k) /\ Budget(k)
         /\ \A w \in Workers : RunOK(w)
         /\ \A u \in Users : ConsentOK(u)
         /\ Cardinality(MailRuns) <= 1 + faults
BY ConstantFacts DEF ChannelInv, ChannelTypeOK, FeedType

(* A live claim has an owner.                                              *)
LEMMA LiveOwner ==
  ASSUME ChannelInv, NEW k \in Keys, row[k].live
  PROVE  row[k].token \in Workers /\ row[k].state = "PROCESSING"
BY Types DEF RowFits, RowAllowed, Rows

(* What is left of the budget of a copy, as a number.                      *)
LEMMA BudgetNumber ==
  ASSUME ChannelInv, NEW k \in Keys
  PROVE  /\ sent[k] + Cardinality(Pending(k)) \in Nat
         /\ sent[k] + Cardinality(Pending(k)) <= faults + 1
         /\ ~Spent(k) => sent[k] + Cardinality(Pending(k)) <= faults
         /\ Fresh(k) => sent[k] = 0 /\ Pending(k) = {}
BY Types, PendingFinite DEF Budget

LEMMA LeaseKeeps ==
  ASSUME ChannelInv, NEW k \in Keys, LeaseExpires(k) PROVE ChannelInv'
<1> DEFINE r == [row[k] EXCEPT !.live = FALSE]
<1>1. row[k].live /\ row' = [row EXCEPT ![k] = r]
      /\ UNCHANGED <<feed, owner, consent, worker, sent, late>>
  BY DEF LeaseExpires
<1>2. row[k].token \in Workers /\ row[k].state = "PROCESSING"
  BY <1>1, LiveOwner
<1>3. faults' \in 0 .. MaxFaults /\ faults' \in Nat /\ faults' >= faults
      /\ (k \in worker[row[k].token].jobs => faults' = faults + 1)
  BY Types, ConstantFacts DEF LeaseExpires, Fault
<1>4. RowFits(r) /\ r \in Rows /\ r.state = "PROCESSING" /\ ~r.live
  <2>1. r.state = "PROCESSING" /\ ~r.live
    BY <1>2, Types DEF RowFits, Rows
  <2> QED BY <2>1, Types, WithdrawnFits DEF RowFits
<1> HIDE DEF r
<1>5. row' \in [Keys -> Rows] /\ row'[k] = r
  BY <1>1, <1>4, Types
<1>6. ChannelTypeOK'
  BY <1>1, <1>3, <1>5, Types DEF ChannelTypeOK, FeedType
<1>7. ASSUME NEW j \in Keys PROVE RowFits(row'[j]) /\ Anchored(j)' /\ Budget(j)'
  <2>1. Pending(j)' = Pending(j) /\ sent'[j] = sent[j]
    BY <1>1 DEF Pending
  <2> DEFINE n == sent[j] + Cardinality(Pending(j))
  <2>2. n \in Nat /\ n <= faults + 1 /\ (~Spent(j) => n <= faults)
        /\ (Fresh(j) => sent[j] = 0 /\ Pending(j) = {})
    BY BudgetNumber
  <2>3. CASE j = k
    <3>1. RowFits(row'[j]) /\ row'[j] # NoRow /\ row[j] # NoRow
      BY <1>2, <1>4, <1>5, <2>3 DEF NoRow
    <3>2. Anchored(j)' /\ ~Fresh(j)'
      BY <1>1, <3>1, Types DEF Anchored, Fresh
    <3>3. ~Spent(k) \/ k \in worker[row[k].token].jobs
      BY <1>2, <3>1, <2>3 DEF Spent, Carried, Terminal
    <3> HIDE DEF n
    <3>4. n <= faults'
      BY <1>3, <2>2, <2>3, <3>3, Types
    <3>5. n <= faults' + 1
      BY <1>3, <2>2, <3>4
    <3> QED BY <2>1, <3>1, <3>2, <3>4, <3>5 DEF Budget, n
  <2>4. CASE j # k
    <3>1. row'[j] = row[j]
      BY <1>1, <2>4, Types
    <3>2. (Fresh(j)' = Fresh(j)) /\ (Spent(j)' = Spent(j)) /\ Anchored(j)' /\ RowFits(row'[j])
      BY <1>1, <3>1, Types DEF Fresh, Spent, Carried, Anchored
    <3> HIDE DEF n
    <3>3. n <= faults' + 1 /\ (~Spent(j) => n <= faults')
      BY <1>3, <2>2, Types
    <3> QED BY <2>1, <2>2, <3>2, <3>3 DEF Budget, n
  <2> QED BY <2>3, <2>4
<1>8. \A w \in Workers : RunOK(w)'
  BY <1>1, Types DEF RunOK
<1>9. MailRuns' = MailRuns /\ \A u \in Users : Mailing(u)' = Mailing(u)
  BY <1>1 DEF MailRuns, MailRun, Mailing, Pending
<1>10. Cardinality(MailRuns)' <= 1 + faults'
  BY <1>3, <1>9, PendingFinite, Types
<1>11. ASSUME NEW u \in Users PROVE ConsentOK(u)'
  <2>1. ConsentOK(u) /\ late[u] \in Nat
    BY Types
  <2> QED BY <1>1, <1>3, <1>9, <2>1, PendingFinite, Types DEF ConsentOK
<1> QED BY <1>6, <1>7, <1>8, <1>10, <1>11 DEF ChannelInv

(* Consent only decides what may be mailed late.                           *)
LEMMA ConsentKeeps ==
  ASSUME ChannelInv, NEW u \in Users, NEW c \in {"open", "optedOut", "blocked"}, SetConsent(u, c)
  PROVE  ChannelInv'
<1>1. consent' = [consent EXCEPT ![u] = c] /\ UNCHANGED <<row, feed, owner, worker, sent, faults>>
      /\ late' = (IF c = "open" THEN [late EXCEPT ![u] = 0] ELSE late) /\ consent[u] # c
  BY DEF SetConsent
<1>2. ChannelTypeOK'
  BY <1>1, Types DEF ChannelTypeOK, FeedType
<1>3. \A k \in Keys : RowFits(row'[k]) /\ Anchored(k)' /\ Budget(k)'
  BY <1>1, Types DEF Anchored, Budget, Fresh, Spent, Carried, Pending
<1>4. \A w \in Workers : RunOK(w)'
  BY <1>1, Types DEF RunOK
<1>5. MailRuns' = MailRuns /\ \A v \in Users : Mailing(v)' = Mailing(v)
  BY <1>1 DEF MailRuns, MailRun, Mailing, Pending
<1>6. Cardinality(MailRuns)' <= 1 + faults'
  BY <1>1, <1>5, Types
<1>7. ASSUME NEW v \in Users PROVE ConsentOK(v)'
  <2>1. ConsentOK(v) /\ late[v] \in Nat /\ faults \in Nat
    BY Types
  <2>2. CASE v # u
    <3>1. consent'[v] = consent[v] /\ late'[v] = late[v] /\ Mailing(v)' = Mailing(v)
          /\ faults' = faults
      BY <1>1, <1>5, <2>2, Types
    <3> QED BY <2>1, <3>1 DEF ConsentOK
  <2>3. CASE v = u /\ c = "open"
    BY <1>1, <2>3, Types DEF ConsentOK
  <2>4. CASE v = u /\ c # "open"
    <3>1. late'[u] = late[u] /\ consent'[u] = c /\ faults' = faults /\ Mailing(u)' = Mailing(u)
      BY <1>1, <1>5, <2>4, Types
    <3>2. Mailing(u) \subseteq MailRuns
      BY DEF Mailing, Pending, MailRuns, MailRun
    <3>3. Cardinality(Mailing(u)) <= 1 + faults
      BY <3>2, PendingFinite, SmallerSet, Types
    <3>4. late[u] + Cardinality(Mailing(u)) <= 1 + faults
      BY <2>1, <2>4, <3>3, PendingFinite DEF ConsentOK
    <3> QED BY <2>4, <3>1, <3>4 DEF ConsentOK
  <2> QED BY <2>2, <2>3, <2>4
<1> QED BY <1>2, <1>3, <1>4, <1>6, <1>7 DEF ChannelInv

(* Deleting subscriptions takes their rows along.                          *)
LEMMA OwnersKeep ==
  ASSUME ChannelInv, UNCHANGED <<feed, consent, worker, sent, late, faults>>,
         owner' \in [Subscriptions -> Users \cup {"unused", "deleted"}],
         NEW dead \in SUBSET Subscriptions,
         \A s \in dead : owner'[s] = "deleted",
         \A s \in Subscriptions \ dead :
           owner'[s] = owner[s] \/ (owner[s] = "unused" /\ owner'[s] \in Users),
         row' = [k \in Keys |-> IF k.to \in dead THEN NoRow ELSE row[k]]
  PROVE  ChannelInv'
<1>1. row' \in [Keys -> Rows]
  BY Types, NewFits DEF RowFits
<1>2. ChannelTypeOK'
  BY <1>1, Types DEF ChannelTypeOK, FeedType
<1>3. ASSUME NEW k \in Keys PROVE RowFits(row'[k]) /\ Anchored(k)' /\ Budget(k)'
  <2>1. Pending(k)' = Pending(k) /\ sent'[k] = sent[k] /\ faults' = faults
    BY DEF Pending
  <2>2. Budget(k) /\ Anchored(k) /\ RowFits(row[k])
    BY Types
  <2>3. CASE k.to \in dead
    <3>1. row'[k] = NoRow /\ owner'[k.to] = "deleted" /\ k.to \in Subscriptions
      BY <2>3
    <3>2. RowFits(row'[k]) /\ Anchored(k)' /\ ~Fresh(k)' /\ Spent(k)'
      BY <3>1, NewFits DEF Anchored, Fresh, Spent
    <3> QED BY <2>1, <2>2, <3>2 DEF Budget
  <2>4. CASE k.to \notin dead
    <3>1. row'[k] = row[k]
      BY <2>4
    <3>2. k.to \in Subscriptions =>
            owner'[k.to] = owner[k.to] \/ (owner[k.to] = "unused" /\ owner'[k.to] \in Users)
      BY <2>4
    <3>3. Anchored(k)'
      BY <2>2, <3>1, <3>2, ConstantFacts DEF Anchored
    <3>4. Fresh(k)' = Fresh(k)
      BY <3>1, <3>2, ConstantFacts DEF Fresh
    <3>5. Spent(k)' = Spent(k)
      BY <3>1, <3>2, ConstantFacts DEF Spent, Carried
    <3> QED BY <2>1, <2>2, <3>1, <3>3, <3>4, <3>5 DEF Budget
  <2> QED BY <2>3, <2>4
<1>4. \A w \in Workers : RunOK(w)'
  BY Types DEF RunOK
<1>5. MailRuns' = MailRuns /\ \A v \in Users : Mailing(v)' = Mailing(v)
  BY DEF MailRuns, MailRun, Mailing, Pending
<1>6. Cardinality(MailRuns)' <= 1 + faults' /\ \A v \in Users : ConsentOK(v)'
  BY <1>5, Types DEF ConsentOK
<1> QED BY <1>2, <1>3, <1>4, <1>6 DEF ChannelInv

LEMMA DeletePushKeeps ==
  ASSUME ChannelInv, NEW s \in Subscriptions, DeletePush(s) PROVE ChannelInv'
<1> DEFINE dead == {s}
<1>1. owner' = [owner EXCEPT ![s] = "deleted"]
      /\ row' = [k \in Keys |-> IF k.to \in dead THEN NoRow ELSE row[k]]
      /\ UNCHANGED <<feed, consent, worker, sent, late, faults>>
  BY DEF DeletePush, Without
<1>2. dead \in SUBSET Subscriptions /\ \A t \in dead : owner'[t] = "deleted"
  BY <1>1, Types
<1>3. \A t \in Subscriptions \ dead :
        owner'[t] = owner[t] \/ (owner[t] = "unused" /\ owner'[t] \in Users)
  BY <1>1, Types
<1>4. owner' \in [Subscriptions -> Users \cup {"unused", "deleted"}]
  BY <1>1, Types
<1> HIDE DEF dead
<1> QED BY <1>1, <1>2, <1>3, <1>4, OwnersKeep

LEMMA SavePushKeeps ==
  ASSUME ChannelInv, NEW u \in Users, NEW s \in Subscriptions,
         NEW previous \in Subscriptions \cup {None}, SavePush(u, s, previous)
  PROVE  ChannelInv'
<1> DEFINE dead == {previous} \ {None}
<1>1. owner[s] = "unused" /\ (previous # None => owner[previous] \in Users \ {u})
      /\ owner' = [t \in Subscriptions |-> IF t = s THEN u
                                           ELSE IF t = previous THEN "deleted" ELSE owner[t]]
      /\ row' = [k \in Keys |-> IF k.to = previous THEN NoRow ELSE row[k]]
      /\ UNCHANGED <<feed, consent, worker, sent, late, faults>>
  BY DEF SavePush, Without
<1>2. \A k \in Keys : k.to # None
  BY KeyFacts, ConstantFacts
<1>3. row' = [k \in Keys |-> IF k.to \in dead THEN NoRow ELSE row[k]]
  BY <1>1, <1>2
<1>4. dead \in SUBSET Subscriptions /\ s \notin dead
  BY <1>1, ConstantFacts
<1>5. \A t \in dead : owner'[t] = "deleted"
  BY <1>1, <1>4
<1>6. \A t \in Subscriptions \ dead :
        owner'[t] = owner[t] \/ (owner[t] = "unused" /\ owner'[t] \in Users)
  BY <1>1, <1>4, ConstantFacts
<1>7. owner' \in [Subscriptions -> Users \cup {"unused", "deleted"}]
  BY <1>1, Types
<1> HIDE DEF dead
<1> QED BY <1>1, <1>3, <1>4, <1>5, <1>6, <1>7, OwnersKeep

\* The parts that other copies, runs and users have in a step of run w.
Unmoved(j) ==
  /\ row'[j] = row[j] /\ sent'[j] = sent[j] /\ Pending(j)' = Pending(j)
  /\ (Fresh(j)' <=> Fresh(j)) /\ (Spent(j)' <=> Spent(j))
  /\ Anchored(j)'

LEMMA UnmovedKeeps ==
  ASSUME ChannelInv, faults' \in Nat, faults' >= faults, NEW j \in Keys, Unmoved(j)
  PROVE  RowFits(row'[j]) /\ Anchored(j)' /\ Budget(j)'
<1> DEFINE n == sent[j] + Cardinality(Pending(j))
<1>1. n \in Nat /\ n <= faults + 1 /\ (~Spent(j) => n <= faults)
      /\ (Fresh(j) => sent[j] = 0 /\ Pending(j) = {}) /\ faults \in Nat
  BY BudgetNumber, Types
<1>2. sent'[j] + Cardinality(Pending(j))' = n
  BY DEF Unmoved
<1> HIDE DEF n
<1>3. n <= faults' + 1 /\ (~Spent(j) => n <= faults')
  BY <1>1, Slack
<1>4. Budget(j)'
  BY <1>1, <1>2, <1>3 DEF Budget, Unmoved
<1> QED BY <1>4, Types DEF Unmoved

(* A claim: the copies were not carried by anybody, now they are by w.     *)
LEMMA ClaimedCopies ==
  ASSUME ChannelInv, NEW w \in Workers, NEW ks \in SUBSET Keys,
         worker[w].jobs = {}, \A k \in ks : Claimable(k),
         \A k \in ks : RowAllowed(AfterClaim(ks, w)[k]),
         row' = AfterClaim(ks, w),
         worker' = [worker EXCEPT ![w].jobs = {k \in ks : Deliverable(k)}],
         UNCHANGED <<feed, owner, consent, sent, late>>,
         faults' \in 0 .. MaxFaults, faults' \in Nat, faults' >= faults
  PROVE  /\ ChannelTypeOK'
         /\ \A k \in Keys : RowFits(row'[k]) /\ Anchored(k)' /\ Budget(k)'
<1>1. worker[w] = Idle /\ worker[w] \in Claims
  BY Types DEF RunOK
<1>2. worker'[w].jobs = {k \in ks : Deliverable(k)} /\ worker'[w].answer = Idle.answer
      /\ worker' \in [Workers -> Claims] /\ \A v \in Workers \ {w} : worker'[v] = worker[v]
  BY <1>1, Types DEF Claims
<1>3. \A k \in Keys : Idle.answer[k] = None
  BY DEF Idle
<1>4. ASSUME NEW k \in Keys PROVE row'[k] \in Rows /\ RowFits(row'[k]) /\ Anchored(k)' /\ Budget(k)'
  <2>0. RowFits(row[k]) /\ Anchored(k) /\ faults \in Nat
    BY Types
  <2>1. CASE k \notin ks
    <3>1. row'[k] = row[k]
      BY <2>1 DEF AfterClaim
    <3>2. \A v \in Workers : k \in worker'[v].jobs <=> k \in worker[v].jobs
      BY <1>2, <2>1
    <3>3. \A v \in Workers : k \in worker[v].jobs => worker'[v] = worker[v]
      BY <1>2
    <3>4. Pending(k)' = Pending(k)
      BY <3>2, <3>3 DEF Pending
    <3>5. Carried(k)' <=> Carried(k)
      BY <3>1, <3>2, <3>3, LiveOwner DEF Carried
    <3>6. Unmoved(k)
      BY <2>0, <3>1, <3>4, <3>5 DEF Unmoved, Fresh, Spent, Anchored
    <3> QED BY <2>0, <3>1, <3>6, UnmovedKeeps DEF RowFits
  <2>2. CASE k \in ks
    <3> DEFINE n == sent[k] + Cardinality(Pending(k))
               m == sent[k] + Cardinality(Pending(k)')
    <3>1. Claimable(k) /\ row[k] # NoRow
      BY <2>2, ConstantFacts DEF Claimable, NoRow, Waiting
    <3>2. ~Spent(k)
      BY <2>0, <3>1 DEF Spent, Carried, Claimable, RowFits, Terminal, Waiting
    <3>3. n \in Nat /\ n <= faults
      BY <3>2, BudgetNumber
    <3>4. Pending(k)' \subseteq Pending(k) \cup {w}
      BY <1>2 DEF Pending
    <3>5. CASE Deliverable(k)
      <4>1. row'[k] = Claimed(row[k], w)
        BY <2>2, <3>5 DEF AfterClaim
      <4>2. row[k].state \in Waiting \cup {"PROCESSING"}
        BY <3>1 DEF Claimable
      <4>3. RowFits(row'[k]) /\ row'[k].live /\ row'[k].token = w /\ row'[k].state = "PROCESSING"
        BY <2>0, <4>1, <4>2, ClaimedFits
      <4>4. k \in worker'[w].jobs /\ worker'[w].answer[k] = None
        BY <1>2, <1>3, <2>2, <3>5
      <4>5. Spent(k)'
        BY <4>3, <4>4 DEF Spent, Carried
      <4>6. row'[k] # NoRow
        BY <4>3 DEF NoRow
      <4>7. Anchored(k)' /\ ~Fresh(k)'
        BY <2>0, <3>1, <4>6 DEF Anchored, Fresh
      <4>8. m \in Nat /\ m <= n + 1
        <5>1. IsFiniteSet(Pending(k)) /\ sent[k] \in Nat
          BY PendingFinite, Types
        <5>2. Cardinality(Pending(k)') \in Nat /\ Cardinality(Pending(k)) \in Nat
              /\ Cardinality(Pending(k)') <= Cardinality(Pending(k)) + 1
          BY <3>4, <5>1, OneMore
        <5> QED BY <5>1, <5>2
      <4> HIDE DEF n, m
      <4>9. m <= faults' + 1
        <5>1. m <= faults + 1
          BY <2>0, <3>3, <4>8
        <5> QED BY <2>0, <4>8, <5>1, Slack
      <4> QED BY <4>3, <4>5, <4>7, <4>9 DEF Budget, m, RowFits
    <3>6. CASE ~Deliverable(k)
      <4>1. row'[k] = [row[k] EXCEPT !.state = "CANCELED"] /\ RowAllowed(row'[k])
        BY <2>2, <3>6 DEF AfterClaim, Ineligible
      <4>2. row'[k].state = "CANCELED" /\ row'[k].token = row[k].token
        BY <2>0, <4>1 DEF RowFits, Rows
      <4>3. row[k].state \in Waiting
        <5>1. row[k].state # "PROCESSING"
          <6>1. row'[k].token = None
            BY <4>1, <4>2 DEF RowAllowed
          <6>2. RowAllowed(row[k])
            BY <2>0 DEF RowFits
          <6> QED BY <4>2, <6>1, <6>2 DEF RowAllowed
        <5> QED BY <3>1, <5>1 DEF Claimable
      <4>a. RowFits(row'[k])
        <5> DEFINE r == row[k]
        <5>1. RowFits(r) /\ r.state \in Waiting /\ row'[k] = [r EXCEPT !.state = "CANCELED"]
          BY <2>0, <4>1, <4>3
        <5> HIDE DEF r
        <5>2. RowFits([r EXCEPT !.state = "CANCELED"])
          BY <5>1, WithdrawnFits
        <5> QED BY <5>1, <5>2
      <4>4. RowFits(row'[k]) /\ Spent(k)' /\ row'[k] # NoRow
        BY <4>a, <4>2 DEF Spent, Terminal, NoRow
      <4>5. Anchored(k)' /\ ~Fresh(k)'
        BY <2>0, <3>1, <4>4 DEF Anchored, Fresh
      <4>6. Pending(k)' \subseteq Pending(k)
        BY <1>2, <3>6 DEF Pending
      <4>7. m \in Nat /\ m <= n
        BY <4>6, PendingFinite, SmallerSet, Types
      <4> HIDE DEF n, m
      <4>b. m <= faults
        BY <2>0, <3>3, <4>7
      <4>8. m <= faults' + 1
        BY <4>7, <4>b, <2>0, Slack
      <4> QED BY <4>4, <4>5, <4>8 DEF Budget, m, RowFits
    <3> QED BY <3>5, <3>6
  <2> QED BY <2>1, <2>2
<1>5. row' \in [Keys -> Rows]
  <2>1. row' = [k \in Keys |-> row'[k]]
    BY DEF AfterClaim
  <2> QED BY <2>1, <1>4
<1> QED BY <1>2, <1>4, <1>5, Types DEF ChannelTypeOK, FeedType

LEMMA ClaimMailKeeps ==
  ASSUME ChannelInv, NEW w \in Workers, ClaimMail(w) PROVE ChannelInv'
<1>1. PICK k \in Mails : /\ Claim(w, {k})
                         /\ IF \E v \in Workers \ {w} : MailRun(v) THEN Fault ELSE faults' = faults
  BY DEF ClaimMail
<1>2. faults' \in 0 .. MaxFaults /\ faults' \in Nat /\ faults' >= faults
      /\ ((\E v \in Workers \ {w} : MailRun(v)) => faults' = faults + 1)
  BY <1>1, Types, ConstantFacts DEF Fault
<1>3. worker[w].jobs = {} /\ Claimable(k) /\ UNCHANGED <<feed, owner, consent, sent, late>>
      /\ k \in Keys
  BY <1>1, KeyFacts DEF Claim
<1>4. CASE RowAllowed(AfterClaim({k}, w)[k])
  <2> DEFINE mine == {j \in {k} : Deliverable(j)}
  <2>1. row' = AfterClaim({k}, w) /\ worker' = [worker EXCEPT ![w].jobs = mine]
    BY <1>1, <1>4 DEF Claim
  <2>2. /\ ChannelTypeOK'
        /\ \A j \in Keys : RowFits(row'[j]) /\ Anchored(j)' /\ Budget(j)'
    BY <1>2, <1>3, <1>4, <2>1, ClaimedCopies
  <2>3. worker[w] = Idle /\ worker[w] \in Claims
    BY <1>3, Types DEF RunOK
  <2>4. worker'[w] = [Idle EXCEPT !.jobs = mine] /\ \A v \in Workers \ {w} : worker'[v] = worker[v]
    <3>1. worker \in [Workers -> Claims] /\ worker' = [worker EXCEPT ![w] = [worker[w] EXCEPT !.jobs = mine]]
      BY <2>1, Types
    <3> QED BY <2>3, <3>1
  <2>5. mine = {} \/ mine = {k}
    OBVIOUS
  <2>6. worker'[w].jobs = mine /\ (mine = {} => worker'[w] = Idle)
    BY <2>4 DEF Idle
  <2>7. \A v \in Workers : RunOK(v)'
    BY <1>3, <2>4, <2>5, <2>6, Types DEF RunOK
  <2>8. Cardinality(MailRuns)' <= 1 + faults'
    <3>1. MailRuns' \subseteq MailRuns \cup {w}
      BY <2>4 DEF MailRuns, MailRun
    <3>2. CASE \E v \in Workers \ {w} : MailRun(v)
      <4>1. IsFiniteSet(MailRuns) /\ Cardinality(MailRuns) <= 1 + faults /\ faults \in Nat
            /\ faults' = faults + 1
        BY <1>2, <3>2, PendingFinite, Types
      <4>2. Cardinality(MailRuns') <= Cardinality(MailRuns) + 1
            /\ Cardinality(MailRuns') \in Nat /\ Cardinality(MailRuns) \in Nat
        BY <3>1, <4>1, OneMore
      <4>3. Cardinality(MailRuns') <= 1 + (faults + 1)
        BY <4>1, <4>2
      <4> QED BY <4>1, <4>3
    <3>3. CASE ~\E v \in Workers \ {w} : MailRun(v)
      <4>1. MailRuns' \subseteq {} \cup {w}
        BY <2>4, <3>3 DEF MailRuns, MailRun
      <4>2. IsFiniteSet({}) /\ Cardinality({}) = 0
        BY FS_EmptySet
      <4>3. Cardinality(MailRuns') <= Cardinality({}) + 1 /\ Cardinality(MailRuns') \in Nat
        BY <4>1, <4>2, OneMore
      <4>4. Cardinality(MailRuns') <= 1
        BY <4>2, <4>3
      <4> QED BY <4>3, <4>4, <1>2
    <3> QED BY <3>2, <3>3
  <2>9. ASSUME NEW u \in Users PROVE ConsentOK(u)'
    <3>1. CASE consent[u] = "open"
      BY <1>3, <3>1, Types DEF ConsentOK
    <3>2. CASE consent[u] # "open"
      <4>1. Mailing(u)' \subseteq Mailing(u)
        <5>1. \A j \in Mails : j.user = u => ~(j \in mine)
          BY <3>2, KeyFacts DEF Deliverable, EmailAllowed, Mails, Key
        <5>2. SUFFICES ASSUME NEW v \in Workers, NEW j \in Mails, j.user = u, v \in Pending(j)'
                       PROVE  v \in Pending(j)
          BY DEF Mailing, Pending
        <5>3. v # w
          BY <5>1, <5>2, <2>6 DEF Pending
        <5> QED BY <5>2, <5>3, <2>4 DEF Pending
      <4>2. Cardinality(Mailing(u)') <= Cardinality(Mailing(u)) /\ Cardinality(Mailing(u)') \in Nat
            /\ Cardinality(Mailing(u)) \in Nat
        BY <4>1, PendingFinite, SmallerSet
      <4>3. late[u] + Cardinality(Mailing(u)) <= 1 + faults /\ late[u] \in Nat
        BY <3>2, Types DEF ConsentOK
      <4>4. late'[u] + Cardinality(Mailing(u)') <= 1 + faults' /\ consent'[u] # "open"
        BY <1>2, <1>3, <3>2, <4>2, <4>3, Types
      <4> QED BY <4>4 DEF ConsentOK
    <3> QED BY <3>1, <3>2
  <2> QED BY <2>2, <2>7, <2>8, <2>9 DEF ChannelInv
<1>5. CASE ~RowAllowed(AfterClaim({k}, w)[k])
  <2>1. UNCHANGED <<row, feed, owner, consent, worker, sent, late>>
    BY <1>1, <1>3, <1>5 DEF Claim
  <2>2. \A j \in Keys : QuietRow(j)
    BY <2>1 DEF QuietRow
  <2> QED BY <1>2, <2>1, <2>2, Types, QuietKeeps DEF FeedType
<1> QED BY <1>4, <1>5

LEMMA ClaimPushesKeeps ==
  ASSUME ChannelInv, NEW w \in Workers, ClaimPushes(w) PROVE ChannelInv'
<1>1. PICK ks \in SUBSET {k \in Keys \ Mails : row[k] # NoRow} : Claim(w, ks) /\ faults' = faults
  BY DEF ClaimPushes
<1>2. faults' \in 0 .. MaxFaults /\ faults' \in Nat /\ faults' >= faults
  BY <1>1, Types
<1>3. worker[w].jobs = {} /\ (\A k \in ks : Claimable(k)) /\ UNCHANGED <<feed, owner, consent, sent, late>>
      /\ ks \in SUBSET Keys /\ ks \cap Mails = {}
  BY <1>1 DEF Claim
<1>4. CASE \A k \in ks : RowAllowed(AfterClaim(ks, w)[k])
  <2> DEFINE mine == {j \in ks : Deliverable(j)}
  <2>1. row' = AfterClaim(ks, w) /\ worker' = [worker EXCEPT ![w].jobs = mine]
    BY <1>1, <1>4 DEF Claim
  <2>2. /\ ChannelTypeOK'
        /\ \A j \in Keys : RowFits(row'[j]) /\ Anchored(j)' /\ Budget(j)'
    BY <1>2, <1>3, <1>4, <2>1, ClaimedCopies
  <2>3. worker[w] = Idle /\ worker[w] \in Claims
    BY <1>3, Types DEF RunOK
  <2>4. worker'[w] = [Idle EXCEPT !.jobs = mine] /\ \A v \in Workers \ {w} : worker'[v] = worker[v]
    <3>1. worker \in [Workers -> Claims] /\ worker' = [worker EXCEPT ![w] = [worker[w] EXCEPT !.jobs = mine]]
      BY <2>1, Types
    <3> QED BY <2>3, <3>1
  <2>5. mine \cap Mails = {}
    BY <1>3
  <2> HIDE DEF mine
  <2>6. worker'[w].jobs = mine /\ (mine = {} => worker'[w] = Idle)
    BY <2>4 DEF Idle
  <2>7. \A v \in Workers : RunOK(v)'
    <3>1. RunOK(w)'
      BY <2>5, <2>6 DEF RunOK
    <3>2. ASSUME NEW v \in Workers, v # w PROVE RunOK(v)'
      <4>1. worker'[v] = worker[v] /\ RunOK(v)
        BY <2>4, <3>2, Types
      <4> QED BY <4>1 DEF RunOK
    <3> QED BY <3>1, <3>2
  <2>8. MailRuns' = MailRuns
    BY <1>3, <2>4, <2>5, <2>6 DEF MailRuns, MailRun
  <2>9. \A u \in Users : Mailing(u)' = Mailing(u)
    <3>1. \A v \in Workers, j \in Mails : v \in Pending(j)' <=> v \in Pending(j)
      BY <1>3, <2>4, <2>5, <2>6 DEF Pending
    <3> QED BY <3>1 DEF Mailing
  <2>10. \A u \in Users : ConsentOK(u)'
    BY <1>1, <1>3, <2>9, Types DEF ConsentOK
  <2> QED BY <1>1, <2>2, <2>7, <2>8, <2>10, Types DEF ChannelInv
<1>5. CASE ~\A k \in ks : RowAllowed(AfterClaim(ks, w)[k])
  <2>1. UNCHANGED <<row, feed, owner, consent, worker, sent, late>>
    BY <1>1, <1>3, <1>5 DEF Claim
  <2>2. \A j \in Keys : QuietRow(j)
    BY <2>1 DEF QuietRow
  <2> QED BY <1>2, <2>1, <2>2, Types, QuietKeeps DEF FeedType
<1> QED BY <1>4, <1>5

(* A copy reaches its server at most once for the claim that carries it.   *)
LEMMA SendKeeps ==
  ASSUME ChannelInv, NEW w \in Workers, NEW k \in Keys, Send(w, k) PROVE ChannelInv'
<1>1. PICK a \in Answers :
       /\ worker' = [worker EXCEPT ![w].answer[k] = a]
       /\ \/ /\ a = "delivered" /\ faults' = faults
             /\ sent' = [sent EXCEPT ![k] = @ + 1]
          \/ /\ a \in {"retry", "refused"} /\ Fault
             /\ sent' = [sent EXCEPT ![k] = @ + 1]
          \/ a # "delivered" /\ UNCHANGED <<sent, faults>>
       /\ late' = [late EXCEPT ![k.user] =
            IF sent' # sent /\ k \in Mails /\ ~EmailAllowed(k.user) THEN @ + 1 ELSE @]
  BY DEF Send
<1>2. k \in worker[w].jobs /\ worker[w].answer[k] = None /\ w \in Pending(k)
      /\ UNCHANGED <<row, feed, owner, consent>>
  BY DEF Send, Pending
<1>3. a # None
  BY <1>1, ConstantFacts DEF Answers
<1>4. worker \in [Workers -> Claims] /\ worker[w] \in Claims /\ Answers \subseteq Answers \cup {None}
  BY Types
<1>5. /\ worker'[w].jobs = worker[w].jobs
      /\ worker'[w].answer = [worker[w].answer EXCEPT ![k] = a]
      /\ \A v \in Workers \ {w} : worker'[v] = worker[v]
      /\ \A v \in Workers : worker'[v].jobs = worker[v].jobs
      /\ worker'[w].answer[k] = a
      /\ worker' \in [Workers -> Claims]
  BY <1>1, <1>4 DEF Claims
<1>6. \A j \in Keys : j # k => \A v \in Workers : worker'[v].answer[j] = worker[v].answer[j]
  BY <1>4, <1>5 DEF Claims
<1>7. /\ sent' \in [Keys -> Nat] /\ \A j \in Keys \ {k} : sent'[j] = sent[j]
      /\ faults' \in 0 .. MaxFaults /\ faults' \in Nat /\ faults' >= faults
      /\ \/ sent'[k] = sent[k] /\ faults' = faults
         \/ sent'[k] = sent[k] + 1 /\ (faults' = faults + 1 \/ a = "delivered")
  BY <1>1, Types, ConstantFacts DEF Fault
<1>8. k.user \in Users
  BY KeyFacts
<1>9. /\ late' \in [Users -> Nat]
      /\ \A u \in Users : u # k.user => late'[u] = late[u]
      /\ \A u \in Users : late'[u] = late[u]
            \/ (u = k.user /\ k \in Mails /\ consent[u] # "open" /\ late'[u] = late[u] + 1)
  BY <1>1, <1>8, Types DEF EmailAllowed
<1>10. ChannelTypeOK'
  BY <1>2, <1>5, <1>7, <1>9, Types DEF ChannelTypeOK, FeedType
<1>11. ASSUME NEW j \in Keys PROVE RowFits(row'[j]) /\ Anchored(j)' /\ Budget(j)'
  <2>1. CASE j # k
    <3>1. Pending(j)' = Pending(j)
      BY <1>5, <1>6, <2>1 DEF Pending
    <3>2. Carried(j)' <=> Carried(j)
      BY <1>2, <1>5, <1>6, <2>1, LiveOwner DEF Carried
    <3>3. Unmoved(j)
      BY <1>2, <1>7, <2>1, <3>1, <3>2, Types DEF Unmoved, Fresh, Spent, Anchored
    <3> QED BY <1>7, <3>3, UnmovedKeeps
  <2>2. CASE j = k
    <3> DEFINE n == sent[k] + Cardinality(Pending(k))
               m == sent'[k] + Cardinality(Pending(k)')
    <3>1. Pending(k)' \subseteq Pending(k) \ {w}
      BY <1>3, <1>5 DEF Pending
    <3>2. n \in Nat /\ n <= faults + 1 /\ (~Spent(k) => n <= faults) /\ ~Fresh(k) /\ faults \in Nat
      BY <1>2, BudgetNumber, Types
    <3>3. /\ Cardinality(Pending(k)') \in Nat /\ Cardinality(Pending(k)) \in Nat
          /\ Cardinality(Pending(k)') + 1 <= Cardinality(Pending(k))
      BY <1>2, <3>1, PendingFinite, OneLess
    <3>4. sent[k] \in Nat /\ sent'[k] \in Nat
      BY <1>7, Types
    <3>5. m \in Nat /\ (m + 1 <= n \/ (m <= n /\ (faults' = faults + 1 \/ a = "delivered")))
      BY <1>7, <3>3, <3>4
    <3>6. ~Fresh(k)' /\ Anchored(k)' /\ RowFits(row'[k])
      BY <1>2, <3>2, Types DEF Fresh, Anchored
    <3>7. a = "delivered" /\ Spent(k) => Spent(k)'
      BY <1>2, <1>5, LiveOwner DEF Spent, Carried
    <3> HIDE DEF n, m
    <3>8. m <= faults' + 1 /\ (~Spent(k)' => m <= faults')
      <4>0. m \in Nat /\ faults' \in Nat /\ faults' >= faults
        BY <1>7, <3>5
      <4>1. CASE m + 1 <= n
        <5>1. m <= faults
          BY <3>2, <4>0, <4>1
        <5> QED BY <3>2, <4>0, <5>1, Slack
      <4>2. CASE m <= n /\ faults' = faults + 1
        <5>1. m <= faults + 1
          BY <3>2, <4>0, <4>2
        <5> QED BY <3>2, <4>0, <4>2, <5>1, Slack
      <4>3. CASE m <= n /\ a = "delivered"
        <5>1. m <= faults + 1 /\ (~Spent(k) => m <= faults)
          BY <3>2, <4>0, <4>3
        <5> QED BY <3>2, <3>7, <4>0, <4>3, <5>1, Slack
      <4> QED BY <3>5, <4>1, <4>2, <4>3
    <3> QED BY <2>2, <3>6, <3>8 DEF Budget, m
  <2> QED BY <2>1, <2>2
<1>12. \A v \in Workers : RunOK(v)'
  BY <1>2, <1>5, Types DEF RunOK
<1>13. MailRuns' = MailRuns
  BY <1>5 DEF MailRuns, MailRun
<1>14. Cardinality(MailRuns)' <= 1 + faults'
  BY <1>7, <1>13, PendingFinite, Types
<1>15. ASSUME NEW u \in Users PROVE ConsentOK(u)'
  <2>1. Mailing(u)' \subseteq Mailing(u)
    <3>1. \A j \in Mails : Pending(j)' \subseteq Pending(j)
      BY <1>2, <1>3, <1>5, <1>6, KeyFacts DEF Pending
    <3> QED BY <3>1 DEF Mailing, Pending
  <2>2. k \in Mails /\ k.user = u => w \in Mailing(u) /\ Mailing(u)' \subseteq Mailing(u) \ {w}
    <3>1. SUFFICES ASSUME k \in Mails, k.user = u
                   PROVE  w \in Mailing(u) /\ w \notin Mailing(u)'
      BY <2>1
    <3>2. w \in Mailing(u)
      BY <1>2, <3>1 DEF Mailing
    <3>3. worker[w].jobs = {k}
      BY <1>2, <3>1, Types DEF RunOK
    <3>4. w \notin Mailing(u)'
      BY <1>3, <1>5, <3>3 DEF Mailing, Pending
    <3> QED BY <3>2, <3>4
  <2> DEFINE before == late[u] + Cardinality(Mailing(u))
             after == late'[u] + Cardinality(Mailing(u)')
  <2>3. /\ ConsentOK(u) /\ late[u] \in Nat /\ late'[u] \in Nat /\ consent'[u] = consent[u]
        /\ faults \in Nat /\ faults' \in Nat /\ faults' >= faults
    BY <1>2, <1>7, <1>9, Types
  <2>4. CASE late'[u] = late[u]
    <3>1. CASE consent[u] = "open"
      BY <2>3, <2>4, <3>1 DEF ConsentOK
    <3>2. CASE consent[u] # "open"
      <4>1. Cardinality(Mailing(u)') \in Nat /\ Cardinality(Mailing(u)) \in Nat
            /\ Cardinality(Mailing(u)') <= Cardinality(Mailing(u))
        BY <2>1, PendingFinite, SmallerSet
      <4>2. before <= faults + 1
        BY <2>3, <3>2, <4>1 DEF ConsentOK
      <4>3. after \in Nat /\ after <= before /\ before \in Nat
        BY <2>3, <2>4, <4>1
      <4> HIDE DEF before, after
      <4>4. after <= faults + 1
        BY <2>3, <4>2, <4>3
      <4>5. after <= faults' + 1
        BY <2>3, <4>3, <4>4, Slack
      <4> QED BY <2>3, <3>2, <4>5 DEF ConsentOK, after
    <3> QED BY <3>1, <3>2
  <2>5. CASE late'[u] # late[u]
    <3>1. u = k.user /\ k \in Mails /\ consent[u] # "open" /\ late'[u] = late[u] + 1
      BY <1>9, <2>5
    <3>2. Cardinality(Mailing(u)') \in Nat /\ Cardinality(Mailing(u)) \in Nat
          /\ Cardinality(Mailing(u)') + 1 <= Cardinality(Mailing(u))
      BY <2>2, <3>1, PendingFinite, OneLess
    <3>3. before <= faults + 1
      BY <2>3, <3>1, <3>2 DEF ConsentOK
    <3>4. after \in Nat /\ after <= before /\ before \in Nat
      BY <2>3, <3>1, <3>2
    <3> HIDE DEF before, after
    <3>5. after <= faults + 1
      BY <2>3, <3>3, <3>4
    <3>6. after <= faults' + 1
      BY <2>3, <3>4, <3>5, Slack
    <3> QED BY <2>3, <3>1, <3>6 DEF ConsentOK, after
  <2> QED BY <2>4, <2>5
<1> QED BY <1>10, <1>11, <1>12, <1>14, <1>15 DEF ChannelInv

(* A run gives up what it has claimed, without handing more to a server.   *)
LEMMA LessRuns ==
  ASSUME ChannelInv, NEW w \in Workers, worker' = [worker EXCEPT ![w] = Idle],
         UNCHANGED <<consent, late>>, faults' \in Nat, faults' >= faults
  PROVE  /\ worker' \in [Workers -> Claims]
         /\ \A v \in Workers : RunOK(v)'
         /\ Cardinality(MailRuns)' <= 1 + faults'
         /\ \A u \in Users : ConsentOK(u)'
         /\ \A k \in Keys : Pending(k)' \subseteq Pending(k)
<1>1. Idle \in Claims /\ Idle.jobs = {}
  BY DEF Idle, Claims
<1>2. worker'[w] = Idle /\ \A v \in Workers \ {w} : worker'[v] = worker[v]
  BY Types
<1>3. worker' \in [Workers -> Claims]
  BY <1>1, Types
<1>4. \A v \in Workers : RunOK(v)'
  BY <1>1, <1>2, Types DEF RunOK
<1>5. \A k \in Keys : Pending(k)' \subseteq Pending(k)
  BY <1>1, <1>2 DEF Pending
<1>6. MailRuns' \subseteq MailRuns
  BY <1>1, <1>2 DEF MailRuns, MailRun
<1>7. Cardinality(MailRuns') <= Cardinality(MailRuns) /\ Cardinality(MailRuns') \in Nat
      /\ Cardinality(MailRuns) \in Nat
  BY <1>6, PendingFinite, SmallerSet
<1>8. Cardinality(MailRuns)' <= 1 + faults'
  BY <1>7, Types
<1>9. ASSUME NEW u \in Users PROVE ConsentOK(u)'
  <2>1. Mailing(u)' \subseteq Mailing(u)
    BY <1>5, KeyFacts DEF Mailing
  <2>2. Cardinality(Mailing(u)') <= Cardinality(Mailing(u)) /\ Cardinality(Mailing(u)') \in Nat
        /\ Cardinality(Mailing(u)) \in Nat
    BY <2>1, PendingFinite, SmallerSet
  <2>3. ConsentOK(u) /\ late[u] \in Nat /\ faults \in Nat
    BY Types
  <2> QED BY <2>2, <2>3 DEF ConsentOK
<1> QED BY <1>3, <1>4, <1>5, <1>8, <1>9

LEMMA CrashRunKeeps ==
  ASSUME ChannelInv, NEW w \in Workers, CrashRun(w) PROVE ChannelInv'
<1>1. /\ worker' = [worker EXCEPT ![w] = Idle]
      /\ UNCHANGED <<row, feed, owner, consent, sent, late>>
      /\ faults' = faults + 1 /\ faults' \in 0 .. MaxFaults /\ faults' \in Nat
  BY Types, ConstantFacts DEF CrashRun, Fault
<1>2. /\ worker' \in [Workers -> Claims]
      /\ \A v \in Workers : RunOK(v)'
      /\ Cardinality(MailRuns)' <= 1 + faults'
      /\ \A u \in Users : ConsentOK(u)'
      /\ \A k \in Keys : Pending(k)' \subseteq Pending(k)
  <2>1. UNCHANGED <<consent, late>> /\ faults' >= faults
    BY <1>1, Types
  <2> QED BY <1>1, <2>1, LessRuns
<1>3. ChannelTypeOK'
  BY <1>1, <1>2, Types DEF ChannelTypeOK, FeedType
<1>4. ASSUME NEW k \in Keys PROVE RowFits(row'[k]) /\ Anchored(k)' /\ Budget(k)'
  <2>1. RowFits(row'[k]) /\ Anchored(k)' /\ (Fresh(k)' <=> Fresh(k))
    BY <1>1, Types DEF Anchored, Fresh
  <2>2. Cardinality(Pending(k)') <= Cardinality(Pending(k)) /\ Cardinality(Pending(k)') \in Nat
        /\ Cardinality(Pending(k)) \in Nat
    BY <1>2, PendingFinite, SmallerSet
  <2>3. sent[k] + Cardinality(Pending(k)) <= faults + 1 /\ (Fresh(k) => sent[k] = 0 /\ Pending(k) = {})
        /\ sent[k] \in Nat /\ faults \in Nat /\ sent'[k] = sent[k]
    BY <1>1, BudgetNumber, Types
  <2>4. sent'[k] + Cardinality(Pending(k)') <= faults'
    BY <1>1, <2>2, <2>3
  <2>5. sent'[k] + Cardinality(Pending(k)') <= faults' + 1
    BY <1>1, <2>2, <2>3
  <2>6. Fresh(k)' => sent'[k] = 0 /\ Pending(k)' = {}
    BY <1>2, <2>1, <2>3
  <2> QED BY <2>1, <2>4, <2>5, <2>6 DEF Budget
<1> QED BY <1>2, <1>3, <1>4 DEF ChannelInv

(* Recording the answers: what may be claimed again was not accepted, or   *)
(* its answer was lost.                                                    *)
LEMMA RecordKeeps ==
  ASSUME ChannelInv, NEW w \in Workers, Record(w) PROVE ChannelInv'
<1> DEFINE mine == worker[w].jobs
<1>1. PICK fifth \in SUBSET MayDrop(w) :
       /\ owner' = [s \in Subscriptions |-> IF s \in Dropped(w) \cup fifth THEN "deleted" ELSE owner[s]]
       /\ row' = [k \in Keys |->
            IF k.to \in Dropped(w) \cup fifth THEN NoRow
            ELSE IF k \in mine /\ Holds(w, k) THEN Finished(row[k], worker[w].answer[k])
            ELSE row[k]]
  BY DEF Record
<1> DEFINE dead == Dropped(w) \cup fifth
<1>2. /\ \A k \in mine : worker[w].answer[k] # None
      /\ worker' = [worker EXCEPT ![w] = Idle]
      /\ UNCHANGED <<feed, consent, sent, late, faults>>
  BY DEF Record
<1>3. /\ worker' \in [Workers -> Claims]
      /\ \A v \in Workers : RunOK(v)'
      /\ Cardinality(MailRuns)' <= 1 + faults'
      /\ \A u \in Users : ConsentOK(u)'
  <2>1. UNCHANGED <<consent, late>> /\ faults' \in Nat /\ faults' >= faults
    BY <1>2, Types
  <2> QED BY <1>2, <2>1, LessRuns
<1>4. worker'[w] = Idle /\ Idle.jobs = {} /\ \A v \in Workers \ {w} : worker'[v] = worker[v]
  BY <1>2, Types DEF Idle
<1>5. \A k \in Keys : Pending(k)' = Pending(k)
  BY <1>2, <1>4 DEF Pending
<1>6. dead \subseteq Subscriptions
  BY DEF Dropped, MayDrop
<1>7. worker[w] \in Claims
  BY Types
<1> HIDE DEF dead
<1>8. ASSUME NEW k \in Keys PROVE row'[k] \in Rows /\ RowFits(row'[k]) /\ Anchored(k)' /\ Budget(k)'
  <2>0. RowFits(row[k]) /\ Anchored(k) /\ Budget(k) /\ faults \in Nat
    BY Types
  <2>1. CASE k.to \in dead
    <3>1. row'[k] = NoRow /\ k.to \in Subscriptions /\ owner'[k.to] = "deleted"
      BY <1>1, <1>6, <2>1 DEF dead
    <3>2. RowFits(row'[k]) /\ Anchored(k)' /\ ~Fresh(k)' /\ Spent(k)'
      BY <3>1, NewFits DEF Anchored, Fresh, Spent
    <3>3. sent'[k] + Cardinality(Pending(k)') <= faults' + 1
      BY <1>2, <1>5, BudgetNumber, Types
    <3> QED BY <3>2, <3>3 DEF Budget, RowFits
  <2>2. CASE k.to \notin dead /\ k \in mine /\ Holds(w, k)
    <3>1. row'[k] = Finished(row[k], worker[w].answer[k])
      BY <1>1, <2>2 DEF dead
    <3>2. worker[w].answer[k] \in Answers
      BY <1>2, <1>7, <2>2 DEF Claims
    <3>3. row[k].state = "PROCESSING" /\ row[k].token = w
      BY <2>2 DEF Holds
    <3>4. /\ RowFits(row'[k]) /\ row'[k].state \in Waiting \cup Terminal
          /\ row'[k].state \in Waiting => worker[w].answer[k] \in {"retry", "deferred"}
      BY <2>0, <3>1, <3>2, <3>3, FinishedFits
    <3>5. row'[k] # NoRow /\ row[k] # NoRow
      BY <3>3, <3>4 DEF NoRow, Waiting, Terminal
    <3>6. ~Fresh(k)' /\ Anchored(k)'
      <4>1. k.to \in Subscriptions => owner'[k.to] = owner[k.to]
        BY <1>1, <2>2 DEF dead
      <4> QED BY <2>0, <3>5, <4>1 DEF Fresh, Anchored
    <3>7. row'[k].state \in Terminal => Spent(k)'
      BY DEF Spent
    <3>8. row'[k].state \in Waiting => ~Spent(k)
      <4>1. worker[w].answer[k] \in {"retry", "deferred"} => ~Carried(k)
        BY <3>3, ConstantFacts DEF Carried, Answers
      <4>2. row[k].state \notin Terminal /\ row[k] # NoRow
        BY <3>3, <3>5 DEF Terminal
      <4> QED BY <3>4, <4>1, <4>2 DEF Spent
    <3>9. sent'[k] + Cardinality(Pending(k)') <= faults' + 1
          /\ (row'[k].state \in Waiting => sent'[k] + Cardinality(Pending(k)') <= faults')
      BY <1>2, <1>5, <3>8, BudgetNumber, Types
    <3> QED BY <3>4, <3>6, <3>7, <3>9 DEF Budget, RowFits
  <2>3. CASE k.to \notin dead /\ ~(k \in mine /\ Holds(w, k))
    <3>1. row'[k] = row[k]
      BY <1>1, <2>3 DEF dead
    <3>2. k.to \in Subscriptions => owner'[k.to] = owner[k.to]
      BY <1>1, <2>3 DEF dead
    <3>3. Carried(k)' <=> Carried(k)
      <4>1. CASE row[k].live
        <5>1. row[k].token \in Workers /\ row[k].state = "PROCESSING"
          BY <4>1, LiveOwner
        <5>2. row[k].token = w => k \notin worker[w].jobs
          BY <2>3, <5>1 DEF Holds
        <5> QED BY <1>4, <3>1, <5>1, <5>2 DEF Carried
      <4>2. CASE ~row[k].live
        BY <3>1, <4>2 DEF Carried
      <4> QED BY <4>1, <4>2
    <3>4. Unmoved(k)
      BY <1>2, <1>5, <2>0, <3>1, <3>2, <3>3 DEF Unmoved, Fresh, Spent, Anchored
    <3> QED BY <1>2, <2>0, <3>1, <3>4, UnmovedKeeps DEF RowFits
  <2> QED BY <2>1, <2>2, <2>3
<1>9. row' \in [Keys -> Rows]
  <2>1. row' = [k \in Keys |-> row'[k]]
    BY <1>1
  <2> QED BY <2>1, <1>8
<1>10. owner' \in [Subscriptions -> Users \cup {"unused", "deleted"}]
  BY <1>1, Types
<1>11. ChannelTypeOK'
  BY <1>2, <1>3, <1>9, <1>10, Types DEF ChannelTypeOK, FeedType
<1> QED BY <1>2, <1>3, <1>8, <1>11 DEF ChannelInv

-----------------------------------------------------------------------------
LEMMA ChannelStarts == ChannelInit => ChannelInv
<1> SUFFICES ASSUME ChannelInit PROVE ChannelInv
  OBVIOUS
<1>1. Idle \in Claims /\ Idle.jobs = {} /\ NoRow \in Rows
  BY NewFits DEF Idle, Claims, RowFits
<1>2. /\ row = [k \in Keys |-> NoRow] /\ owner = [s \in Subscriptions |-> "unused"]
      /\ worker = [w \in Workers |-> Idle] /\ sent = [k \in Keys |-> 0]
      /\ late = [u \in Users |-> 0] /\ faults = 0
      /\ feed = [m \in Messages |-> [u \in Users |-> "none"]]
      /\ consent \in [Users -> {"open", "optedOut", "blocked"}]
  BY DEF ChannelInit
<1>3. ChannelTypeOK
  BY <1>1, <1>2, ConstantFacts DEF ChannelTypeOK
<1>4. /\ \A k \in Keys : Pending(k) = {}
      /\ MailRuns = {} /\ \A u \in Users : Mailing(u) = {}
  <2>1. \A k \in Keys : Pending(k) = {}
    BY <1>1, <1>2 DEF Pending
  <2>2. MailRuns = {}
    BY <1>1, <1>2 DEF MailRuns, MailRun
  <2> QED BY <2>1, <2>2, KeyFacts DEF Mailing
<1>5. Cardinality({}) = 0
  BY FS_EmptySet
<1>6. ASSUME NEW k \in Keys PROVE RowFits(row[k]) /\ Anchored(k) /\ Budget(k)
  <2>1. RowFits(row[k]) /\ Anchored(k)
    BY <1>2, NewFits DEF Anchored
  <2>2. sent[k] + Cardinality(Pending(k)) = 0
    <3>1. sent[k] = 0 /\ Pending(k) = {}
      BY <1>2, <1>4
    <3> QED BY <1>5, <3>1
  <2>3. Budget(k)
    BY <1>2, <1>4, <2>2 DEF Budget
  <2> QED BY <2>1, <2>3
<1>7. \A w \in Workers : RunOK(w)
  BY <1>1, <1>2 DEF RunOK
<1>8. Cardinality(MailRuns) <= 1 + faults
  BY <1>2, <1>4, <1>5
<1>9. ASSUME NEW u \in Users PROVE ConsentOK(u)
  <2>1. late[u] = 0 /\ Mailing(u) = {}
    BY <1>2, <1>4
  <2>2. late[u] + Cardinality(Mailing(u)) = 0
    BY <1>5, <2>1
  <2> QED BY <1>2, <2>1, <2>2 DEF ConsentOK
<1> QED BY <1>3, <1>6, <1>7, <1>8, <1>9 DEF ChannelInv

LEMMA ChannelKeeps == ASSUME ChannelInv, ChannelNext PROVE ChannelInv'
<1>1. CASE \E k \in Keys : ExpireCopy(k) \/ LeaseExpires(k)
  BY <1>1, ExpireKeeps, LeaseKeeps
<1>2. CASE \E w \in Workers : ClaimMail(w) \/ ClaimPushes(w) \/ Record(w) \/ CrashRun(w)
  BY <1>2, ClaimMailKeeps, ClaimPushesKeeps, RecordKeeps, CrashRunKeeps
<1>3. CASE \E w \in Workers, k \in Keys : Send(w, k)
  BY <1>3, SendKeeps
<1>4. CASE \E u \in Users : \E c \in {"open", "optedOut", "blocked"} : SetConsent(u, c)
  BY <1>4, ConsentKeeps
<1>5. CASE \E u \in Users : \E s \in Subscriptions, previous \in Subscriptions \cup {None} :
              SavePush(u, s, previous)
  BY <1>5, SavePushKeeps
<1>6. CASE \E s \in Subscriptions : DeletePush(s)
  BY <1>6, DeletePushKeeps
<1> QED BY <1>1, <1>2, <1>3, <1>4, <1>5, <1>6 DEF ChannelNext

(* What the invariant promises.                                            *)
LEMMA ChannelPromises == ASSUME ChannelInv PROVE CopiesOnce /\ OptOutWins
<1>1. ASSUME NEW k \in Keys PROVE sent[k] <= 1 + faults
  <2>1. Cardinality(Pending(k)) \in Nat /\ sent[k] \in Nat /\ faults \in Nat
    BY PendingFinite, Types
  <2> QED BY <2>1, BudgetNumber
<1>2. ASSUME NEW u \in Users PROVE late[u] <= 1 + faults
  <2>1. Cardinality(Mailing(u)) \in Nat /\ late[u] \in Nat /\ faults \in Nat /\ ConsentOK(u)
    BY PendingFinite, Types
  <2> QED BY <2>1 DEF ConsentOK
<1> QED BY <1>1, <1>2 DEF CopiesOnce, OptOutWins
=============================================================================
