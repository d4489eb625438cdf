----------------------------- MODULE Broadcast ------------------------------
(***************************************************************************)
(* Broadcasts: the administrator's requests to start, cancel and delete    *)
(* one, the tasks that send it to Telegram chats and take it back, and the *)
(* copies they queue and recall through NotificationChannels.              *)
(*                                                                         *)
(* The broker may run a task it was given at any time and any number of    *)
(* times; the advisory lock of the broadcast serialises them and is        *)
(* released by a crash.  Cancelling takes no lock.                         *)
(***************************************************************************)
EXTENDS NotificationChannels

CONSTANTS
  news,       \* the broadcast, one of Messages
  Tasks,      \* concurrent executions of send_broadcast_task, delete_broadcast_task
  BatchSize   \* chats a batch writes to before it looks for a cancellation

ASSUME BroadcastConstants ==
  /\ news \in Messages
  /\ BatchSize \in Nat \ {0}
  /\ None \notin Tasks \cup {"SENT", "FAILED"}
  /\ IsFiniteSet(Users)

VARIABLES
  status,    \* broadcasts.status, "none" before StartBroadcast
  message,   \* message[u]: the status of u's broadcast_messages row
  stats,     \* broadcasts.success_count and failed_count
  queued,    \* the tasks the broker was given
  lock,      \* the task that holds the advisory lock
  task,      \* task[t]: where execution t is
  cancel,    \* where the administrator's cancellation is
  chat,      \* chat[u]: how often Telegram accepted the broadcast for u
  overrun    \* messages accepted since the broadcast was canceled

broadcastVars == <<status, message, stats, queued, lock, task, cancel, chat, overrun>>
vars == <<channelVars, broadcastVars>>

-----------------------------------------------------------------------------
Statuses == {"none", "PROCESSING", "COMPLETED", "CANCELED", "DELETED", "ERROR"}
MessageStatuses == {"none", "PENDING", "SENT", "FAILED", "DELETED"}
SendSteps == {"read", "copy", "init", "check", "sending", "finish"}
DeleteSteps == {"deleteRead", "recall", "delete", "deleted"}

\* `users' is the audience, then what is left of it; `result' the batch's answers.
Executions == [pc     : {"idle", "send", "unsend"} \cup SendSteps \cup DeleteSteps,
               users  : SUBSET Users,
               batch  : SUBSET Users,
               result : [Users -> {"SENT", "FAILED", None}],
               final  : Statuses]

Stopped == [pc |-> "idle", users |-> {}, batch |-> {}, result |-> [u \in Users |-> None],
            final |-> "none"]

Init ==
  /\ ChannelInit
  /\ status = "none"
  /\ message = [u \in Users |-> "none"]
  /\ stats = [success |-> 0, failed |-> 0]
  /\ queued = {}
  /\ lock = None
  /\ task = [t \in Tasks |-> Stopped]
  /\ cancel = "idle"
  /\ chat = [u \in Users |-> 0]
  /\ overrun = 0

At(t, step) == task[t].pc = step
Goto(t, step) == task' = [task EXCEPT ![t].pc = step]
Ends(t) == task' = [task EXCEPT ![t] = Stopped] /\ lock' = None

-----------------------------------------------------------------------------
(* The administrator.                                                      *)

\* StartBroadcast commits the row, then hands the task to the broker.
StartBroadcast ==
  /\ status = "none"
  /\ status' = "PROCESSING"
  /\ UNCHANGED <<channelVars, message, stats, queued, lock, task, cancel, chat, overrun>>

Dispatch ==
  /\ status # "none"
  /\ "send" \notin queued
  /\ queued' = queued \cup {"send"}
  /\ UNCHANGED <<channelVars, status, message, stats, lock, task, cancel, chat, overrun>>

DeleteBroadcast ==
  /\ status \notin {"none", "DELETED"}
  /\ "delete" \notin queued
  /\ queued' = queued \cup {"delete"}
  /\ UNCHANGED <<channelVars, status, message, stats, lock, task, cancel, chat, overrun>>

\* CancelBroadcast reads the status, then writes CANCELED, without a lock.
ReadForCancel ==
  /\ cancel = "idle"
  /\ status = "PROCESSING"
  /\ cancel' = "write"
  /\ UNCHANGED <<channelVars, status, message, stats, queued, lock, task, chat, overrun>>

WriteCanceled ==
  /\ cancel = "write"
  /\ status' = "CANCELED"
  /\ overrun' = 0
  /\ cancel' = "pending"
  /\ UNCHANGED <<channelVars, message, stats, queued, lock, task, chat>>

CancelCopies ==
  /\ cancel = "pending"
  /\ CancelPending(news)
  /\ cancel' = "feed"
  /\ UNCHANGED <<feed, owner, consent, worker, sent, late, faults, status, message, stats,
                 queued, lock, task, chat, overrun>>

HideCanceled ==
  /\ cancel = "feed"
  /\ HideFeed(news)
  /\ cancel' = "idle"
  /\ UNCHANGED <<row, owner, consent, worker, sent, late, faults, status, message, stats,
                 queued, lock, task, chat, overrun>>

-----------------------------------------------------------------------------
(* send_broadcast_task.                                                    *)

StartTask(t, kind) ==
  /\ At(t, "idle")
  /\ kind \in queued
  /\ Goto(t, IF kind = "send" THEN "send" ELSE "unsend")
  /\ UNCHANGED <<channelVars, status, message, stats, queued, lock, cancel, chat, overrun>>

\* Fault: the lock is not taken.
AcquireNothing(t) ==
  /\ At(t, "send") \/ At(t, "unsend")
  /\ lock' = t
  /\ Goto(t, IF At(t, "send") THEN "read" ELSE "deleteRead")
  /\ UNCHANGED <<channelVars, status, message, stats, queued, cancel, chat, overrun>>

Acquire(t) ==
  /\ At(t, "send") \/ At(t, "unsend")
  /\ lock = None
  /\ lock' = t
  /\ Goto(t, IF At(t, "send") THEN "read" ELSE "deleteRead")
  /\ UNCHANGED <<channelVars, status, message, stats, queued, cancel, chat, overrun>>

\* All persisted state is read again under the lock; `audience' are the users
\* of the audience now, with and without a Telegram chat.
ReadForSend(t) ==
  /\ At(t, "read")
  /\ IF status = "PROCESSING" THEN Goto(t, "copy") /\ lock' = lock ELSE Ends(t)
  /\ UNCHANGED <<channelVars, status, message, stats, queued, cancel, chat, overrun>>

\* copy_to_channels never raises: without a channel, or when its transaction
\* fails, nothing is queued.
CopyToChannels(t) ==
  /\ At(t, "copy")
  /\ \E audience, chats \in SUBSET Users :
       /\ chats \subseteq audience
       /\ Enqueue(news, audience) \/ UNCHANGED <<row, feed>>
       /\ task' = [task EXCEPT ![t] =
            IF chats = {} THEN [@ EXCEPT !.pc = "finish", !.final = "COMPLETED"]
            ELSE [@ EXCEPT !.pc = "init", !.users = chats]]
  /\ UNCHANGED <<owner, consent, worker, sent, late, faults, status, message, stats, queued,
                 lock, cancel, chat, overrun>>

HasMessages == \E u \in Users : message[u] # "none"

\* InitializeBroadcastMessages, unless an earlier execution has done it.
InitializeMessages(t) ==
  /\ At(t, "init")
  /\ LET rows == IF HasMessages THEN message
                 ELSE [u \in Users |-> IF u \in task[t].users THEN "PENDING" ELSE "none"]
     IN /\ message' = rows
        /\ task' = [task EXCEPT ![t].pc = "check",
                                ![t].users = {u \in @ : rows[u] = "PENDING"}]
  /\ UNCHANGED <<channelVars, status, stats, queued, lock, cancel, chat, overrun>>

\* Fault: a cancellation is not looked for.
StopsNever == FALSE
Stops == status = "CANCELED"

\* Before every batch; the last one ends the broadcast.
CheckCanceled(t) ==
  /\ At(t, "check")
  /\ \/ /\ task[t].users = {}
        /\ task' = [task EXCEPT ![t].pc = "finish", ![t].final = "COMPLETED"]
     \/ /\ task[t].users # {} /\ Stops
        /\ task' = [task EXCEPT ![t].pc = "finish", ![t].final = "CANCELED"]
     \/ /\ task[t].users # {} /\ ~Stops
        /\ \E b \in SUBSET task[t].users :
             /\ b # {} /\ Cardinality(b) <= BatchSize
             /\ task' = [task EXCEPT ![t].pc = "sending", ![t].batch = b]
  /\ UNCHANGED <<channelVars, status, message, stats, queued, lock, cancel, chat, overrun>>

\* send_one: Telegram accepts the message, refuses it, or the answer is lost.
SendOne(t, u) ==
  /\ At(t, "sending")
  /\ u \in task[t].batch
  /\ task[t].result[u] = None
  /\ \E r \in {"SENT", "FAILED"} :
       /\ task' = [task EXCEPT ![t].result[u] = r]
       /\ \/ /\ chat' = [chat EXCEPT ![u] = @ + 1]
             /\ overrun' = IF status = "CANCELED" THEN overrun + 1 ELSE overrun
          \/ r = "FAILED" /\ UNCHANGED <<chat, overrun>>
  /\ UNCHANGED <<channelVars, status, message, stats, queued, lock, cancel>>

Answered(t, r) == {u \in task[t].batch : task[t].result[u] = r}

\* UpdateBroadcastMessageStatus: the rows and the counters in one transaction.
UpdateStatuses(t) ==
  /\ At(t, "sending")
  /\ \A u \in task[t].batch : task[t].result[u] # None
  /\ message' = [u \in Users |-> IF u \in task[t].batch THEN task[t].result[u] ELSE message[u]]
  /\ stats' = [success |-> stats.success + Cardinality(Answered(t, "SENT")),
               failed |-> stats.failed + Cardinality(Answered(t, "FAILED"))]
  /\ task' = [task EXCEPT ![t] = [Stopped EXCEPT !.pc = "check", !.users = task[t].users \ task[t].batch]]
  /\ UNCHANGED <<channelVars, status, queued, lock, cancel, chat, overrun>>

\* Any exception of a step ends the broadcast as ERROR.
SendRaises(t) ==
  /\ task[t].pc \in SendSteps \ {"finish"}
  /\ task' = [task EXCEPT ![t] = [Stopped EXCEPT !.pc = "finish", !.final = "ERROR"]]
  /\ UNCHANGED <<channelVars, status, message, stats, queued, lock, cancel, chat, overrun>>

\* FinishBroadcast writes the status, whatever it is by now, then the lock is freed.
FinishBroadcast(t) ==
  /\ At(t, "finish")
  /\ status' = task[t].final
  /\ Ends(t)
  /\ UNCHANGED <<channelVars, message, stats, queued, cancel, chat, overrun>>

-----------------------------------------------------------------------------
(* delete_broadcast_task.                                                  *)

ReadForDelete(t) ==
  /\ At(t, "deleteRead")
  /\ IF status = "DELETED" THEN Ends(t) ELSE Goto(t, "recall") /\ lock' = lock
  /\ UNCHANGED <<channelVars, status, message, stats, queued, cancel, chat, overrun>>

\* recall_copies; a failure of the channels is logged and the deletion goes on.
RecallCopies(t) ==
  /\ At(t, "recall")
  /\ \/ Recall(news) /\ faults' = faults
     \/ Fault /\ UNCHANGED <<row, feed>>
  /\ task' = [task EXCEPT ![t].pc = "delete", ![t].users = {u \in Users : message[u] = "SENT"}]
  /\ UNCHANGED <<owner, consent, worker, sent, late, status, message, stats, queued, lock,
                 cancel, chat, overrun>>

\* A batch of messages: Telegram deletes some of them, the rest stay SENT.
DeleteBatch(t) ==
  /\ At(t, "delete")
  /\ \E b \in SUBSET task[t].users, gone \in SUBSET task[t].users :
       /\ b # {} /\ Cardinality(b) <= BatchSize /\ gone \subseteq b
       /\ message' = [u \in Users |-> IF u \in gone THEN "DELETED" ELSE message[u]]
       /\ task' = [task EXCEPT ![t].users = @ \ b]
  /\ UNCHANGED <<channelVars, status, stats, queued, lock, cancel, chat, overrun>>

FinishDeletion(t) ==
  /\ At(t, "delete")
  /\ task[t].users = {}
  /\ status' = "DELETED"
  /\ Ends(t)
  /\ UNCHANGED <<channelVars, message, stats, queued, cancel, chat, overrun>>

\* The process dies, or an exception leaves the deletion: the session that
\* holds the lock is closed and the broker keeps the task.
CrashTask(t) ==
  /\ ~At(t, "idle")
  /\ Fault
  /\ task' = [task EXCEPT ![t] = Stopped]
  /\ lock' = IF lock = t THEN None ELSE lock
  /\ UNCHANGED <<row, feed, owner, consent, worker, sent, late, status, message, stats, queued,
                 cancel, chat, overrun>>

-----------------------------------------------------------------------------
\* A service notification, or a message of the administrator to one user.
NotifyUser(m, u) ==
  /\ m # news
  /\ Enqueue(m, {u})
  /\ UNCHANGED <<owner, consent, worker, sent, late, faults, broadcastVars>>

TaskStep(t) ==
  \/ Acquire(t) \/ ReadForSend(t) \/ CopyToChannels(t) \/ InitializeMessages(t)
  \/ CheckCanceled(t) \/ UpdateStatuses(t) \/ SendRaises(t) \/ FinishBroadcast(t)
  \/ ReadForDelete(t) \/ RecallCopies(t) \/ DeleteBatch(t) \/ FinishDeletion(t)
  \/ \E u \in Users : SendOne(t, u)

Next ==
  \/ StartBroadcast \/ Dispatch \/ DeleteBroadcast
  \/ ReadForCancel \/ WriteCanceled \/ CancelCopies \/ HideCanceled
  \/ \E t \in Tasks :
       TaskStep(t) \/ CrashTask(t) \/ \E kind \in {"send", "delete"} : StartTask(t, kind)
  \/ \E m \in Messages, u \in Users : NotifyUser(m, u)
  \/ ChannelNext /\ UNCHANGED broadcastVars

Spec == Init /\ [][Next]_vars

-----------------------------------------------------------------------------
(* Properties.                                                             *)

(* Every column, queue entry and program counter has a value the code gives it. *)
TypeOK ==
  /\ ChannelTypeOK
  /\ status \in Statuses
  /\ message \in [Users -> MessageStatuses]
  /\ stats \in [success : Nat, failed : Nat]
  /\ queued \subseteq {"send", "delete"}
  /\ lock \in Tasks \cup {None}
  /\ task \in [Tasks -> Executions]
  /\ cancel \in {"idle", "write", "pending", "feed"}
  /\ chat \in [Users -> Nat]
  /\ overrun \in Nat

(* A chat gets the broadcast once, and once more at most for each crash,    *)
(* however often the broker repeats the task; the same holds of the copies. *)
SentOnce == CopiesOnce /\ \A u \in Users : chat[u] <= 1 + faults

(* The counters the administrator is shown are those of the messages, and   *)
(* so no batch is ever counted twice.                                       *)
CountsAddUp ==
  /\ stats.success = Cardinality({u \in Users : message[u] \in {"SENT", "DELETED"}})
  /\ stats.failed = Cardinality({u \in Users : message[u] = "FAILED"})

(* "A cancel request stops sending promptly": after CANCELED is written at  *)
(* most the batch that was under way still leaves.                          *)
CancelStops == overrun <= BatchSize

(* A deleted broadcast whose recall did not fail is shown in no feed, and   *)
(* a revocation is queued for every push of it that a device has, or may    *)
(* still get: the one in flight when it was recalled, the one that waits    *)
(* for a retry since, the one of a repeated task.                           *)
RecallMissesNoPush ==
  status = "DELETED" /\ faults = 0 =>
    /\ \A u \in Users : feed[news][u] # "shown"
    /\ \A k \in Pushes : k.msg = news /\ row[k].state \in Waiting \cup {"PROCESSING", "SENT"} =>
         row[Revocation(k)].state # "none"

(* Deleting a broadcast "takes down the pushes that are shown"              *)
(* (docs/notification-channels.md): once a push's revocation was delivered, *)
(* of which there is one, the push itself no longer reaches the device.     *)
RevokedStaysRevoked ==
  [][\A k \in Pushes :
       k.msg = news /\ row[Revocation(k)].state = "SENT" => sent'[k] = sent[k]]_vars
=============================================================================
