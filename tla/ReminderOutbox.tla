--------------------------- MODULE ReminderOutbox ---------------------------
(***************************************************************************)
(* E-mail reminders that a subscription ends: the hourly task that writes  *)
(* the reminders of a subscription into subscription_email_reminders, and  *)
(* the runs, one a minute, that deliver the due ones under a Redis run     *)
(* lock and a fence on each row.                                           *)
(*                                                                         *)
(* One user with one subscription.  A reminder is named by the expiry it   *)
(* was written for and by its threshold.  The clock counts the days on     *)
(* which something is due; leases and backoffs may be over at any time.    *)
(***************************************************************************)
EXTENDS Integers, FiniteSets

CONSTANTS
  Workers,     \* delivery runs
  MaxDay,      \* the last day: every expiry is at most this
  Thresholds,  \* REMINDER_DAYS_BEFORE
  MaxFaults,   \* bound on crashes, lost answers, lost leases and locks
  None

ASSUME ReminderConstants ==
  /\ IsFiniteSet(Workers)
  /\ MaxDay \in Nat
  /\ Thresholds \subseteq Nat
  /\ MaxFaults \in Nat
  /\ None \notin Workers

VARIABLES
  now,
  expire,     \* subscriptions.expire_at
  consent,    \* the day the user switched reminders on, or None
  fit,        \* every other condition on the user and the subscription
  row,        \* row[id]: the subscription_email_reminders row
  runLock,    \* the run that holds the Redis lock
  worker,     \* worker[w]: where run w is
  mailed,     \* mailed[id]: how often the mail server accepted reminder id
  backwards,  \* backwards[id]: how often it did after a later reminder of the same expiry
  late,       \* unwanted mails accepted since the user last changed anything
  faults

userVars == <<expire, consent, fit>>
mailVars == <<mailed, backwards, late>>
vars == <<now, userVars, row, runLock, worker, mailVars, faults>>

-----------------------------------------------------------------------------
Reminders == [expire : 0 .. MaxDay, before : Thresholds]
Due(id) == id.expire - id.before

\* WAITING is PENDING and RETRY_WAITING: attempt_count tells them apart and
\* nothing depends on which it is.
Terminal == {"SENT", "CANCELED", "FAILED"}
Rows == [state : {"none", "WAITING", "PROCESSING"} \cup Terminal,
         token : Workers \cup {None},
         live  : BOOLEAN]

NoRow == [state |-> "none", token |-> None, live |-> FALSE]

Answers == {"sent", "retry", "refused", "deferred"}
Runs == [pc     : {"idle", "claim", "prepare", "send", "sending"},
         id     : Reminders \cup {None},
         fenced : BOOLEAN,
         answer : Answers \cup {None}]

At(step) == [pc |-> step, id |-> None, fenced |-> TRUE, answer |-> None]
Idle == At("idle")

Init ==
  /\ now = 0
  /\ expire \in 0 .. MaxDay
  /\ consent \in {0, None}
  /\ fit = TRUE
  /\ row = [id \in Reminders |-> NoRow]
  /\ runLock = None
  /\ worker = [w \in Workers |-> Idle]
  /\ mailed = [id \in Reminders |-> 0]
  /\ backwards = [id \in Reminders |-> 0]
  /\ late = 0
  /\ faults = 0

Fault == faults < MaxFaults /\ faults' = faults + 1

-----------------------------------------------------------------------------
(* Conditions on a reminder.                                               *)

\* Fault: consent is only looked at when a reminder is written.
WantedOnce(id) == fit /\ expire = id.expire
Wanted(id) == fit /\ consent # None /\ consent <= Due(id) /\ expire = id.expire

Later(id, other) == other.expire = id.expire /\ Due(other) > Due(id)

\* Fault: an overdue reminder is sent beside the one that replaced it.
SupersededNever(id) == FALSE
Superseded(id) == \E other \in Reminders :
                    Later(id, other) /\ row[other] # NoRow /\ Due(other) <= now

\* Fault: a reminder that is being sent may be claimed as well.
ClaimableAlways(id) == row[id].state \in {"WAITING", "PROCESSING"}
Claimable(id) == row[id].state = "WAITING" \/ (row[id].state = "PROCESSING" /\ ~row[id].live)

\* Fault: the token and the lease stay in the row.
ReleasedClaimed(r, state) == [r EXCEPT !.state = state]
Released(r, state) == [r EXCEPT !.state = state, !.token = None, !.live = FALSE]

-----------------------------------------------------------------------------
(* What happens around the outbox.                                         *)

Tick ==
  /\ now < MaxDay
  /\ now' = now + 1
  /\ UNCHANGED <<userVars, row, runLock, worker, mailVars, faults>>

\* A renewal, a bonus or the administrator moves the expiry.
MoveExpiry(e) ==
  /\ e # expire
  /\ expire' = e
  /\ late' = 0
  /\ UNCHANGED <<now, consent, fit, row, runLock, worker, mailed, backwards, faults>>

\* Switching on keeps the day of an earlier opt-in; an unfit user cannot.
SetConsent(on) ==
  /\ on => fit
  /\ consent' = IF ~on THEN None ELSE IF consent = None THEN now ELSE consent
  /\ late' = 0
  /\ UNCHANGED <<now, expire, fit, row, runLock, worker, mailed, backwards, faults>>

SetFit ==
  /\ fit' = ~fit
  /\ late' = 0
  /\ UNCHANGED <<now, expire, consent, row, runLock, worker, mailed, backwards, faults>>

\* generate: every threshold that is not overdue, once for each expiry.
Generate ==
  /\ consent # None /\ fit
  /\ \A id \in Reminders : id.expire = expire => row[id] = NoRow
  /\ \E id \in Reminders : id.expire = expire /\ Due(id) >= now
  /\ row' = [id \in Reminders |-> IF id.expire = expire /\ Due(id) >= now
                                    THEN [NoRow EXCEPT !.state = "WAITING"] ELSE row[id]]
  /\ UNCHANGED <<now, userVars, runLock, worker, mailVars, faults>>

-----------------------------------------------------------------------------
(* A delivery run.                                                         *)

\* Fault: a reminder that was being sent is left alone.
UndeliverableWaiting(id) == id.expire <= now /\ row[id].state = "WAITING"
Undeliverable(id) == id.expire <= now /\ Claimable(id)

\* The run lock is taken without waiting; sweep_undeliverable comes first.
StartRun(w) ==
  /\ worker[w] = Idle
  /\ runLock = None
  /\ runLock' = w
  /\ worker' = [worker EXCEPT ![w] = At("claim")]
  /\ row' = [id \in Reminders |-> IF Undeliverable(id) THEN Released(row[id], "CANCELED") ELSE row[id]]
  /\ UNCHANGED <<now, userVars, mailVars, faults>>

\* Nothing is due, the mail account is off, or a limit of the run is reached.
EndRun(w) ==
  /\ worker[w].pc = "claim"
  /\ worker' = [worker EXCEPT ![w] = Idle]
  /\ runLock' = IF runLock = w THEN None ELSE runLock
  /\ UNCHANGED <<now, userVars, row, mailVars, faults>>

ClaimDue(w, id) ==
  /\ worker[w].pc = "claim"
  /\ Claimable(id)
  /\ Due(id) <= now /\ id.expire > now
  /\ Wanted(id) /\ ~Superseded(id)
  /\ row' = [row EXCEPT ![id] = [@ EXCEPT !.state = "PROCESSING", !.token = w, !.live = TRUE]]
  /\ worker' = [worker EXCEPT ![w] = [At("prepare") EXCEPT !.id = id]]
  /\ UNCHANGED <<now, userVars, runLock, mailVars, faults>>

Holds(w) == LET r == row[worker[w].id] IN r.state = "PROCESSING" /\ r.token = w
HoldsLive(w) == Holds(w) /\ row[worker[w].id].live

\* The row is left as it is unless the run still holds it.
WriteResult(w, result) ==
  row' = [row EXCEPT ![worker[w].id] = IF Holds(w) THEN result ELSE @]

\* prepare_delivery checks the claim and every condition again under row locks.
Prepare(w) ==
  LET id == worker[w].id IN
  /\ worker[w].pc = "prepare"
  /\ IF HoldsLive(w) /\ Wanted(id) /\ ~Superseded(id) /\ id.expire > now
       THEN /\ worker' = [worker EXCEPT ![w].pc = "send"]
            /\ UNCHANGED row
       ELSE /\ worker' = [worker EXCEPT ![w] = At("claim")]
            /\ IF HoldsLive(w) THEN WriteResult(w, Released(row[id], "CANCELED")) ELSE UNCHANGED row
  /\ UNCHANGED <<now, userVars, runLock, mailVars, faults>>

\* The user has opted out, is blocked, or has another expiry by now.
Unwanted(id) == consent = None \/ ~fit \/ expire # id.expire

\* A later reminder of the same expiry has left already.
Overtaken(id) == \E other \in Reminders : Later(id, other) /\ mailed[other] > 0

Accepted(id) ==
  /\ mailed' = [mailed EXCEPT ![id] = @ + 1]
  /\ late' = IF Unwanted(id) THEN late + 1 ELSE late
  /\ backwards' = IF Overtaken(id) THEN [backwards EXCEPT ![id] = @ + 1] ELSE backwards

\* No row is locked during the SMTP call; the answer to an accepted mail may be lost.
SendMail(w) ==
  /\ worker[w].pc = "send"
  /\ \E a \in Answers :
       /\ worker' = [worker EXCEPT ![w].pc = "sending", ![w].answer = a]
       /\ \/ a = "sent" /\ Accepted(worker[w].id) /\ faults' = faults
          \/ a \in {"retry", "refused"} /\ Accepted(worker[w].id) /\ Fault
          \/ a # "sent" /\ UNCHANGED <<mailVars, faults>>
  /\ UNCHANGED <<now, userVars, row, runLock>>

\* A heartbeat during the call finds the claim gone: the run must not write.
LoseFence(w) ==
  /\ worker[w].pc \in {"send", "sending"}
  /\ worker[w].fenced /\ ~HoldsLive(w)
  /\ worker' = [worker EXCEPT ![w].fenced = FALSE]
  /\ UNCHANGED <<now, userVars, row, runLock, mailVars, faults>>

\* release_unattempted after a deferral, mark_sent, or release_failed.
Result(r, a) ==
  Released(r, CASE a = "sent" -> "SENT" [] a = "refused" -> "FAILED"
                [] a \in {"retry", "deferred"} -> "WAITING")

Record(w) ==
  LET me == worker[w] IN
  /\ me.pc = "sending"
  /\ IF me.fenced THEN WriteResult(w, Result(row[me.id], me.answer)) ELSE UNCHANGED row
  /\ worker' = [worker EXCEPT ![w] = At("claim")]
  /\ UNCHANGED <<now, userVars, runLock, mailVars, faults>>

\* The deadline of the run passed before the call.
GiveBack(w) ==
  /\ worker[w].pc = "send"
  /\ WriteResult(w, Released(row[worker[w].id], "WAITING"))
  /\ worker' = [worker EXCEPT ![w] = At("claim")]
  /\ UNCHANGED <<now, userVars, runLock, mailVars, faults>>

\* The heartbeat of the run lock cancels a run that lost it, but not a mail that
\* is being sent.
Interrupt(w) ==
  /\ runLock # w
  /\ worker[w].pc \in {"claim", "prepare"}
  /\ worker' = [worker EXCEPT ![w] = Idle]
  /\ UNCHANGED <<now, userVars, row, runLock, mailVars, faults>>

CrashRun(w) ==
  /\ worker[w].pc # "idle"
  /\ Fault
  /\ worker' = [worker EXCEPT ![w] = Idle]
  /\ UNCHANGED <<now, userVars, row, runLock, mailVars>>

\* A lease that is not renewed is over; one that is can only be lost by a fault.
LockExpires ==
  /\ runLock # None
  /\ IF worker[runLock] = Idle THEN faults' = faults ELSE Fault
  /\ runLock' = None
  /\ UNCHANGED <<now, userVars, row, worker, mailVars>>

Orphaned(id) == worker[row[id].token].id # id

LeaseExpires(id) ==
  /\ row[id].live
  /\ IF Orphaned(id) THEN faults' = faults ELSE Fault
  /\ row' = [row EXCEPT ![id].live = FALSE]
  /\ UNCHANGED <<now, userVars, runLock, worker, mailVars>>

-----------------------------------------------------------------------------
WorkerStep(w) ==
  \/ EndRun(w) \/ Prepare(w) \/ SendMail(w) \/ Record(w) \/ GiveBack(w)
  \/ \E id \in Reminders : ClaimDue(w, id)

Next ==
  \/ Tick \/ SetFit \/ Generate \/ LockExpires
  \/ \E e \in 0 .. MaxDay : MoveExpiry(e)
  \/ \E on \in BOOLEAN : SetConsent(on)
  \/ \E id \in Reminders : LeaseExpires(id)
  \/ \E w \in Workers : \/ WorkerStep(w) \/ StartRun(w)
                        \/ LoseFence(w) \/ Interrupt(w) \/ CrashRun(w)

Spec == Init /\ [][Next]_vars

\* Time passes; a run that is alive goes on, the scheduler starts the next one, and
\* nobody renews what a dead run held.
Fairness ==
  /\ WF_vars(Tick)
  /\ WF_vars(\E w \in Workers : StartRun(w))
  /\ \A w \in Workers : WF_vars(WorkerStep(w))
  /\ WF_vars(LockExpires /\ faults' = faults)
  /\ \A id \in Reminders : WF_vars(LeaseExpires(id) /\ faults' = faults)

FairSpec == Spec /\ Fairness

-----------------------------------------------------------------------------
(* Properties.                                                             *)

(* Every column and program counter has a value the code gives it, and a row *)
(* satisfies ck_subscription_email_reminder_processing_fence.                *)
TypeOK ==
  /\ now \in 0 .. MaxDay
  /\ expire \in 0 .. MaxDay
  /\ consent \in 0 .. MaxDay \cup {None}
  /\ fit \in BOOLEAN
  /\ row \in [Reminders -> Rows]
  /\ \A id \in Reminders : row[id].state = "PROCESSING" <=> row[id].token # None
  /\ runLock \in Workers \cup {None}
  /\ worker \in [Workers -> Runs]
  /\ mailed \in [Reminders -> Nat]
  /\ backwards \in [Reminders -> Nat]
  /\ late \in Nat
  /\ faults \in 0 .. MaxFaults

(* The user gets a reminder once, and never after a later one of the same   *)
(* expiry, except once more for each crash, lost answer, lost lease or lost *)
(* run lock.  The budget is that of each reminder: a run that lost its lock *)
(* goes on until its next heartbeat, and may be overtaken more than once.   *)
RemindedOnce ==
  \A id \in Reminders : mailed[id] <= 1 + faults /\ backwards[id] <= faults

(* After an opt-out, a block or a renewal at most the one mail that had     *)
(* passed its last check still leaves, and one more for each fault.         *)
ChangesWin == late <= 1 + faults

(* Every reminder that was written is sent, canceled or failed in the end:  *)
(* neither a dead run nor a user who opted out leaves one open for ever.    *)
EveryReminderSettles ==
  \A id \in Reminders :
    row[id].state \in {"WAITING", "PROCESSING"} ~> row[id].state \in Terminal
=============================================================================
