------------------------ MODULE NotificationChannels ------------------------
(***************************************************************************)
(* E-mail and Web Push copies of bot notifications: the outbox             *)
(* notification_deliveries, the push subscriptions its rows hang on, the   *)
(* notification feed, and the workers that deliver what is due.            *)
(*                                                                         *)
(* A row is named by its dedupe key: a message, its recipient and the      *)
(* address, which is EMAIL or a push subscription; a revocation is the     *)
(* push that takes a delivered one back.  A step of a worker is one        *)
(* committed transaction or one call to a mail or push server.  The clock  *)
(* is left out: a backoff, an expiry or a lease may be over at any time.   *)
(***************************************************************************)
EXTENDS Naturals, FiniteSets

CONSTANTS
  Users, Messages,
  Channels,       \* the channels the configuration enables
  Subscriptions,  \* ids of push subscriptions, never reused
  Workers,        \* runs of deliver_notification_channels_task
  MaxAttempts,    \* attempts after which a copy has failed
  MaxFaults,      \* bound on crashes, lost answers, lost leases and locks
  None

ASSUME ChannelConstants ==
  /\ MaxAttempts \in Nat \ {0}
  /\ MaxFaults \in Nat
  /\ Channels \subseteq {"EMAIL", "PUSH"}
  /\ "EMAIL" \notin Subscriptions
  /\ "unused" \notin Users /\ "deleted" \notin Users
  /\ None \notin Users \cup Workers \cup Subscriptions
  /\ None \notin {"EMAIL", "delivered", "retry", "refused", "gone", "deferred"}
  /\ IsFiniteSet(Workers)

VARIABLES
  row,      \* row[k]: the notification_deliveries row of dedupe key k
  feed,     \* feed[m][u]: the notification_feed_items row of m for u
  owner,    \* owner[s]: the user of push subscription s; the endpoint is its device
  consent,  \* consent[u]: what u accepts
  worker,   \* worker[w]: the rows run w has claimed, and what it knows of them
  sent,     \* sent[k]: how often a server accepted k
  late,     \* late[u]: mails accepted for u since u opted out
  faults

channelVars == <<row, feed, owner, consent, worker, sent, late, faults>>

-----------------------------------------------------------------------------
Key(m, u, to) == [msg |-> m, user |-> u, to |-> to, revokes |-> FALSE]
Revocation(k) == [k EXCEPT !.revokes = TRUE]
Mails == {Key(m, u, "EMAIL") : m \in Messages, u \in Users}
Pushes == {Key(m, u, s) : m \in Messages, u \in Users, s \in Subscriptions}
Keys == Mails \cup Pushes \cup {Revocation(k) : k \in Pushes}

Waiting == {"PENDING", "RETRY_WAITING"}
Rows == [state   : {"none", "PROCESSING", "SENT", "CANCELED", "FAILED"} \cup Waiting,
         token   : Workers \cup {None},
         live    : BOOLEAN,
         attempt : 0 .. MaxAttempts]

NoRow == [state |-> "none", token |-> None, live |-> FALSE, attempt |-> 0]
NewRow == [NoRow EXCEPT !.state = "PENDING"]

\* Answers as the sender classifies them; `retry' and `refused' may hide a delivery.
Answers == {"delivered", "retry", "refused", "gone", "deferred"}
Claims == [jobs : SUBSET Keys, answer : [Keys -> Answers \cup {None}]]
Idle == [jobs |-> {}, answer |-> [k \in Keys |-> None]]

ChannelInit ==
  /\ row = [k \in Keys |-> NoRow]
  /\ feed = [m \in Messages |-> [u \in Users |-> "none"]]
  /\ owner = [s \in Subscriptions |-> "unused"]
  /\ consent \in [Users -> {"open", "optedOut", "blocked"}]
  /\ worker = [w \in Workers |-> Idle]
  /\ sent = [k \in Keys |-> 0]
  /\ late = [u \in Users |-> 0]
  /\ faults = 0

\* A crash, a lost answer, a lease or a run lock that did not hold.
Fault == faults < MaxFaults /\ faults' = faults + 1

\* CHECK ck_notification_delivery_processing_fence.
RowAllowed(r) == r.state = "PROCESSING" <=> r.token # None

Without(r, s) == [k \in Keys |-> IF k.to = s THEN NoRow ELSE r[k]]

-----------------------------------------------------------------------------
(* Queueing and withdrawing copies.                                        *)

EmailAllowed(u) == consent[u] = "open"
PushAllowed(u) == consent[u] # "blocked"

CopiesOf(m, us) ==
  {k \in Mails : k.msg = m /\ k.user \in us /\ "EMAIL" \in Channels /\ EmailAllowed(k.user)}
    \cup {k \in Pushes : k.msg = m /\ k.user \in us /\ "PUSH" \in Channels
                           /\ owner[k.to] = k.user /\ PushAllowed(k.user)}

\* ON CONFLICT DO NOTHING: a replay leaves the rows that are there.
Queued(m, us) ==
  [k \in Keys |-> IF k \in CopiesOf(m, us) /\ row[k] = NoRow THEN NewRow ELSE row[k]]

\* enqueue, in one transaction.
Enqueue(m, us) ==
  /\ row' = Queued(m, us)
  /\ feed' = [feed EXCEPT ![m] =
       [u \in Users |-> IF u \in us /\ @[u] = "none" THEN "shown" ELSE @[u]]]

CanceledRows(m) ==
  [k \in Keys |-> IF k.msg = m /\ ~k.revokes /\ row[k].state \in Waiting
                    THEN [row[k] EXCEPT !.state = "CANCELED"] ELSE row[k]]

HiddenFeed(m) ==
  [feed EXCEPT ![m] = [u \in Users |-> IF @[u] = "shown" THEN "hidden" ELSE @[u]]]

CancelPending(m) == row' = CanceledRows(m)
HideFeed(m) == feed' = HiddenFeed(m)

\* Fault: a push that is being sent is not revoked.
ToRevokeSent(m) == {k \in Pushes : k.msg = m /\ row[k].state = "SENT"}
ToRevoke(m) == {k \in Pushes : k.msg = m /\ row[k].state \in {"SENT", "PROCESSING"}}

\* recall, in one transaction: cancel, hide, and queue the revocations.
Recall(m) ==
  /\ HideFeed(m)
  /\ row' = [k \in Keys |->
       IF \E p \in ToRevoke(m) : k = Revocation(p) /\ row[k] = NoRow
         THEN NewRow ELSE CanceledRows(m)[k]]

-----------------------------------------------------------------------------
(* Delivering.                                                             *)

\* _maintain: the lifetime of a copy is over.
ExpireCopy(k) ==
  /\ row[k].state \in Waiting \/ (row[k].state = "PROCESSING" /\ ~row[k].live)
  /\ row' = [row EXCEPT ![k] = [@ EXCEPT !.state = "CANCELED", !.token = None, !.live = FALSE]]
  /\ UNCHANGED <<feed, owner, consent, worker, sent, late, faults>>

LeaseExpires(k) ==
  /\ row[k].live
  /\ row' = [row EXCEPT ![k].live = FALSE]
  /\ IF k \in worker[row[k].token].jobs THEN Fault ELSE faults' = faults
  /\ UNCHANGED <<feed, owner, consent, worker, sent, late>>

\* Fault: a row that is being sent may be claimed as well.
ClaimableAlways(k) == row[k].state \in Waiting \cup {"PROCESSING"}
Claimable(k) == row[k].state \in Waiting \/ (row[k].state = "PROCESSING" /\ ~row[k].live)

\* Fault: consent is only checked when a copy is queued.
DeliverableUnchecked(k) == TRUE
\* A revocation also reaches a user blocked after the message.
Deliverable(k) ==
  k.revokes \/ IF k.to = "EMAIL" THEN EmailAllowed(k.user) ELSE PushAllowed(k.user)

Claimed(r, w) == [r EXCEPT !.state = "PROCESSING", !.token = w, !.live = TRUE]
\* The token and the lease of a claim that is over are left in the row.
Ineligible(r) == [r EXCEPT !.state = "CANCELED"]

AfterClaim(ks, w) ==
  [k \in Keys |-> IF k \notin ks THEN row[k]
                  ELSE IF Deliverable(k) THEN Claimed(row[k], w) ELSE Ineligible(row[k])]

\* One transaction claims one mail, or a batch of pushes; the CHECK constraint
\* of one row rolls all of it back and ends the run.
Claim(w, ks) ==
  /\ worker[w].jobs = {}
  /\ ks # {} /\ \A k \in ks : Claimable(k)
  /\ IF \A k \in ks : RowAllowed(AfterClaim(ks, w)[k])
       THEN /\ row' = AfterClaim(ks, w)
            /\ worker' = [worker EXCEPT ![w].jobs = {k \in ks : Deliverable(k)}]
       ELSE UNCHANGED <<row, worker>>
  /\ UNCHANGED <<feed, owner, consent, sent, late>>

MailRun(w) == worker[w].jobs \cap Mails # {}

\* The bulk run lock lets one run deliver mail; its lease may be lost.
ClaimMail(w) ==
  \E k \in Mails :
    /\ Claim(w, {k})
    /\ IF \E v \in Workers \ {w} : MailRun(v) THEN Fault ELSE faults' = faults

\* Pushes have no run lock: SKIP LOCKED keeps two claims apart.
ClaimPushes(w) ==
  \E ks \in SUBSET {k \in Keys \ Mails : row[k] # NoRow} : Claim(w, ks) /\ faults' = faults

\* The server accepts the copy; the answer may be lost.  The push service also
\* says that a device is gone, the mail server's permit that a mail must wait.
Send(w, k) ==
  /\ k \in worker[w].jobs
  /\ worker[w].answer[k] = None
  /\ \E a \in Answers :
       /\ a = "gone" => k \notin Mails
       /\ a = "deferred" => k \in Mails
       /\ worker' = [worker EXCEPT ![w].answer[k] = a]
       /\ \/ /\ a = "delivered" /\ faults' = faults
             /\ sent' = [sent EXCEPT ![k] = @ + 1]
          \/ /\ a \in {"retry", "refused"} /\ Fault
             /\ sent' = [sent EXCEPT ![k] = @ + 1]
          \/ a # "delivered" /\ UNCHANGED <<sent, faults>>
       /\ late' = [late EXCEPT ![k.user] =
            IF sent' # sent /\ k \in Mails /\ ~EmailAllowed(k.user) THEN @ + 1 ELSE @]
  /\ UNCHANGED <<row, feed, owner, consent>>

Holds(w, k) == row[k].state = "PROCESSING" /\ row[k].token = w

Retries(r) == r.attempt + 1 < MaxAttempts

Released(r, state) == [r EXCEPT !.state = state, !.token = None, !.live = FALSE]

\* _finish and the release after a rate deferral.
Finished(r, a) ==
  IF a = "deferred"
    THEN Released(r, IF r.attempt = 0 THEN "PENDING" ELSE "RETRY_WAITING")
    ELSE [Released(r, IF a = "delivered" THEN "SENT"
                      ELSE IF a = "retry" /\ Retries(r)
                        THEN "RETRY_WAITING" ELSE "FAILED")
            EXCEPT !.attempt = @ + 1]

\* Subscriptions a batch removes: gone, or refused for the fifth time.
Dropped(w) == {s \in Subscriptions : \E k \in worker[w].jobs :
                 k.to = s /\ worker[w].answer[k] = "gone"}
MayDrop(w) == {s \in Subscriptions : \E k \in worker[w].jobs :
                 k.to = s /\ worker[w].answer[k] = "refused"}

\* All answers are in: one transaction records them.
Record(w) ==
  LET mine == worker[w].jobs IN
  /\ mine # {}
  /\ \A k \in mine : worker[w].answer[k] # None
  /\ \E fifth \in SUBSET MayDrop(w) :
       LET dead == Dropped(w) \cup fifth IN
       /\ owner' = [s \in Subscriptions |-> IF s \in dead THEN "deleted" ELSE owner[s]]
       /\ row' = [k \in Keys |->
            IF k.to \in dead THEN NoRow
            ELSE IF k \in mine /\ Holds(w, k) THEN Finished(row[k], worker[w].answer[k])
            ELSE row[k]]
  /\ worker' = [worker EXCEPT ![w] = Idle]
  /\ UNCHANGED <<feed, consent, sent, late, faults>>

CrashRun(w) ==
  /\ worker[w].jobs # {}
  /\ worker' = [worker EXCEPT ![w] = Idle]
  /\ Fault
  /\ UNCHANGED <<row, feed, owner, consent, sent, late>>

-----------------------------------------------------------------------------
(* What users do.                                                          *)

\* Preferences, the unsubscribe link, and the administrator's block.
SetConsent(u, c) ==
  /\ consent[u] # c
  /\ consent' = [consent EXCEPT ![u] = c]
  /\ late' = IF c = "open" THEN [late EXCEPT ![u] = 0] ELSE late
  /\ UNCHANGED <<row, feed, owner, worker, sent, faults>>

\* A browser subscribes for u: with a fresh id, after the row of the same browser
\* and another user, if there is one, is deleted with everything queued for it.
SavePush(u, s, previous) ==
  /\ owner[s] = "unused"
  /\ previous # None => owner[previous] \in Users \ {u}
  /\ owner' = [t \in Subscriptions |-> IF t = s THEN u
                                       ELSE IF t = previous THEN "deleted" ELSE owner[t]]
  /\ row' = Without(row, previous)
  /\ UNCHANGED <<feed, consent, worker, sent, late, faults>>

DeletePush(s) ==
  /\ owner[s] \in Users
  /\ owner' = [owner EXCEPT ![s] = "deleted"]
  /\ row' = Without(row, s)
  /\ UNCHANGED <<feed, consent, worker, sent, late, faults>>

ChannelNext ==
  \/ \E k \in Keys : ExpireCopy(k) \/ LeaseExpires(k)
  \/ \E w \in Workers :
       \/ ClaimMail(w) \/ ClaimPushes(w) \/ Record(w) \/ CrashRun(w)
       \/ \E k \in Keys : Send(w, k)
  \/ \E u \in Users :
       \/ \E c \in {"open", "optedOut", "blocked"} : SetConsent(u, c)
       \/ \E s \in Subscriptions, previous \in Subscriptions \cup {None} : SavePush(u, s, previous)
  \/ \E s \in Subscriptions : DeletePush(s)

-----------------------------------------------------------------------------
(* Properties.                                                             *)

ChannelTypeOK ==
  /\ row \in [Keys -> Rows]
  /\ feed \in [Messages -> [Users -> {"none", "shown", "hidden"}]]
  /\ owner \in [Subscriptions -> Users \cup {"unused", "deleted"}]
  /\ consent \in [Users -> {"open", "optedOut", "blocked"}]
  /\ worker \in [Workers -> Claims]
  /\ sent \in [Keys -> Nat]
  /\ late \in [Users -> Nat]
  /\ faults \in 0 .. MaxFaults

(* The outbox: however runs overlap, a copy is accepted by its server once, *)
(* and once more at most for each crash, lost answer, lost lease or lock.   *)
CopiesOnce == \A k \in Keys : sent[k] <= 1 + faults

(* "An opt-out always wins over an already queued message": at most the one *)
(* mail that a run had claimed before still leaves, and one more for each   *)
(* fault.                                                                   *)
OptOutWins == \A u \in Users : late[u] <= 1 + faults

(* CHECK ck_notification_delivery_processing_fence holds of every row that  *)
(* the queue offers and a run would cancel: it never fails the run.         *)
CancelingIsAllowed ==
  \A k \in Keys : Claimable(k) /\ ~Deliverable(k) => RowAllowed(Ineligible(row[k]))
=============================================================================
