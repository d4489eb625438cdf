--------------------------- MODULE BroadcastProofs ---------------------------
(***************************************************************************)
(* Every behaviour of Broadcast, for any number of users, tasks, runs and  *)
(* messages: the type invariant and the safety properties the runs check.  *)
(* BInv is inductive: ChannelInv of the copies, mutual exclusion by the    *)
(* advisory lock, and what the holder of the lock knows.                   *)
(***************************************************************************)
EXTENDS Broadcast, ChannelProofs

LockSteps == SendSteps \cup DeleteSteps
Resting == {"idle", "send", "unsend"}
Final == {"COMPLETED", "CANCELED", "ERROR"}

Mutex == \A t \in Tasks : task[t].pc \in LockSteps <=> lock = t

\* The snapshot an execution works on is still true.
TaskOK(t) ==
  /\ task[t].pc \in {"copy", "init", "check", "sending"} => status \in {"PROCESSING", "CANCELED"}
  /\ task[t].pc \in {"check", "sending"} => \A u \in task[t].users : message[u] = "PENDING"
  /\ At(t, "sending") => task[t].batch \subseteq task[t].users /\ Cardinality(task[t].batch) <= BatchSize
  /\ At(t, "delete") => \A u \in task[t].users : message[u] = "SENT"
  /\ At(t, "finish") => task[t].final \in Final

\* Whom an execution may still write to has not been written to, but for faults.
ChatOK(t) ==
  /\ At(t, "check") => \A u \in task[t].users : chat[u] <= faults
  /\ At(t, "sending") =>
       \A u \in task[t].users : u \notin task[t].batch \/ task[t].result[u] = None => chat[u] <= faults

Unanswered(t) == {u \in task[t].batch : task[t].result[u] = None}
OverrunOK(t) ==
  status = "CANCELED" /\ At(t, "sending") => overrun + Cardinality(Unanswered(t)) <= BatchSize

Unsent(u) == message[u] \in {"none", "PENDING"}

\* An execution may (still) begin to send, and none has begun.
Resumable ==
  /\ status = "PROCESSING" \/ \E t \in Tasks : task[t].pc \in {"copy", "init"}
  /\ \A t \in Tasks : task[t].pc \notin {"check", "sending", "finish"}

NotStarted ==
  status = "none" => queued = {} /\ (\A t \in Tasks : At(t, "idle")) /\ \A u \in Users : chat[u] = 0

Active == Waiting \cup {"PROCESSING", "SENT"}

\* m is in no feed, and whatever of it may reach a device is revoked.
Recalled(m) ==
  /\ \A u \in Users : feed[m][u] # "shown"
  /\ \A k \in Pushes : k.msg = m /\ row[k].state \in Active => row[Revocation(k)].state # "none"

RecallOK ==
  faults = 0 /\ (status = "DELETED" \/ \E t \in Tasks : At(t, "delete")) => Recalled(news)

BInv ==
  /\ ChannelInv
  /\ TypeOK
  /\ Mutex
  /\ \A t \in Tasks : TaskOK(t) /\ ChatOK(t) /\ OverrunOK(t)
  /\ NotStarted
  /\ CountsAddUp
  /\ overrun <= BatchSize
  /\ \A u \in Users : chat[u] <= 1 + faults
  /\ Resumable => \A u \in Users : Unsent(u) => chat[u] <= faults
  /\ RecallOK

-----------------------------------------------------------------------------
LEMMA Constants ==
  /\ news \in Messages /\ BatchSize \in Nat /\ BatchSize > 0 /\ IsFiniteSet(Users)
  /\ \A t \in Tasks : t # None
BY BroadcastConstants

LEMMA ChannelNone == None # "SENT" /\ None # "FAILED"
BY BroadcastConstants

LEMMA DisjointUnion ==
  ASSUME NEW S, NEW T, IsFiniteSet(S), IsFiniteSet(T), S \cap T = {}
  PROVE  Cardinality(S \cup T) = Cardinality(S) + Cardinality(T)
<1>1. Cardinality(S \cap T) = 0
  BY FS_EmptySet
<1>2. Cardinality(S \cup T) = Cardinality(S) + Cardinality(T) - Cardinality(S \cap T)
  BY FS_Union
<1>3. Cardinality(S) \in Nat /\ Cardinality(T) \in Nat
  BY FS_CardinalityType
<1> QED BY <1>1, <1>2, <1>3

LEMMA BTypes ==
  ASSUME BInv
  PROVE  /\ ChannelInv /\ faults \in Nat /\ faults \in 0 .. MaxFaults
         /\ status \in Statuses /\ message \in [Users -> MessageStatuses]
         /\ stats \in [success : Nat, failed : Nat] /\ queued \subseteq {"send", "delete"}
         /\ lock \in Tasks \cup {None} /\ task \in [Tasks -> Executions]
         /\ cancel \in {"idle", "write", "pending", "feed"}
         /\ chat \in [Users -> Nat] /\ overrun \in Nat
BY Types DEF BInv, TypeOK

LEMMA ChannelTypes == ASSUME ChannelInv' PROVE ChannelTypeOK' /\ faults' \in Nat
BY ConstantFacts DEF ChannelInv, ChannelTypeOK

LEMMA StoppedType == Stopped \in Executions /\ Stopped.pc = "idle"
BY DEF Stopped, Executions, Statuses

Pcs == Resting \cup LockSteps

LEMMA MovedType ==
  ASSUME NEW e \in Executions, NEW p \in Pcs
  PROVE  [e EXCEPT !.pc = p] \in Executions
BY DEF Executions, Pcs, Resting, LockSteps

(* While an execution holds the lock, no other has passed it.              *)
LEMMA OthersRest ==
  ASSUME BInv, NEW t \in Tasks, task[t].pc \in LockSteps
  PROVE  /\ lock = t /\ status # "none"
         /\ \A v \in Tasks \ {t} : task[v].pc \in Resting
<1>1. lock = t
  BY DEF BInv, Mutex
<1>2. \A v \in Tasks \ {t} : task[v].pc \in Resting
  <2>1. \A v \in Tasks \ {t} : task[v] \in Executions /\ task[v].pc \notin LockSteps
    BY <1>1, BTypes DEF BInv, Mutex
  <2> QED BY <2>1 DEF Executions, LockSteps, Resting
<1>3. ~At(t, "idle")
  BY DEF At, LockSteps, SendSteps, DeleteSteps
<1> QED BY <1>1, <1>2, <1>3 DEF BInv, NotStarted

LEMMA RestingOK ==
  ASSUME NEW v \in Tasks, task[v].pc \in Resting PROVE TaskOK(v) /\ ChatOK(v) /\ OverrunOK(v)
BY DEF TaskOK, ChatOK, OverrunOK, At, Resting

-----------------------------------------------------------------------------
(* A step of the holder of the lock: what it must show.                    *)
LEMMA HolderKeeps ==
  ASSUME BInv, NEW t \in Tasks, task[t].pc \in LockSteps,
         NEW e \in Executions, task' = [task EXCEPT ![t] = e],
         \/ e.pc \in LockSteps /\ lock' = lock
         \/ e.pc = "idle" /\ lock' = None,
         UNCHANGED <<queued, cancel>>,
         ChannelInv', faults' >= faults,
         status' \in Statuses \ {"none"}, message' \in [Users -> MessageStatuses],
         stats' \in [success : Nat, failed : Nat],
         chat' \in [Users -> Nat], overrun' \in Nat,
         TaskOK(t)', ChatOK(t)', OverrunOK(t)', CountsAddUp', overrun' <= BatchSize,
         \A u \in Users : chat'[u] <= 1 + faults',
         (status' = "PROCESSING" \/ e.pc \in {"copy", "init"})
           /\ e.pc \notin {"check", "sending", "finish"}
           => \A u \in Users : Unsent(u)' => chat'[u] <= faults',
         faults' = 0 /\ (status' = "DELETED" \/ e.pc = "delete") => Recalled(news)'
  PROVE  BInv'
<1>1. /\ lock = t /\ status # "none"
      /\ \A v \in Tasks \ {t} : task[v].pc \in Resting
  BY OthersRest
<1>2. task'[t] = e /\ \A v \in Tasks \ {t} : task'[v] = task[v]
  BY BTypes
<1>3. TypeOK'
  <2>1. task' \in [Tasks -> Executions]
    BY BTypes
  <2>2. lock' \in Tasks \cup {None}
    BY BTypes
  <2> QED BY <2>1, <2>2, ChannelTypes, BTypes DEF TypeOK
<1>4. Mutex'
  <2>1. \A v \in Tasks \ {t} : task'[v].pc \notin LockSteps
    BY <1>1, <1>2 DEF Resting, LockSteps, SendSteps, DeleteSteps
  <2>2. "idle" \notin LockSteps
    BY DEF LockSteps, SendSteps, DeleteSteps
  <2> QED BY <1>1, <1>2, <2>1, <2>2, Constants DEF Mutex
<1>5. \A v \in Tasks : TaskOK(v)' /\ ChatOK(v)' /\ OverrunOK(v)'
  <2>1. ASSUME NEW v \in Tasks \ {t} PROVE TaskOK(v)' /\ ChatOK(v)' /\ OverrunOK(v)'
    <3>1. task'[v].pc \in Resting
      BY <1>1, <1>2
    <3> QED BY <3>1 DEF TaskOK, ChatOK, OverrunOK, At, Resting
  <2> QED BY <2>1
<1>6. NotStarted'
  BY DEF NotStarted
<1>7. Resumable' => \A u \in Users : Unsent(u)' => chat'[u] <= faults'
  <2>1. Resumable' => (status' = "PROCESSING" \/ e.pc \in {"copy", "init"})
                        /\ e.pc \notin {"check", "sending", "finish"}
    BY <1>1, <1>2 DEF Resumable, Resting
  <2> QED BY <2>1
<1>8. RecallOK'
  BY <1>1, <1>2 DEF RecallOK, At, Resting
<1> QED BY <1>3, <1>4, <1>5, <1>6, <1>7, <1>8 DEF BInv

(* A step that leaves the broadcast and its executions alone.              *)
LEMMA AsideKeeps ==
  ASSUME BInv, UNCHANGED <<status, message, stats, lock, task, chat, overrun>>,
         ChannelInv', faults' >= faults,
         queued' \subseteq {"send", "delete"}, queued' = queued \/ status # "none",
         cancel' \in {"idle", "write", "pending", "feed"},
         faults' = 0 /\ Recalled(news) => Recalled(news)'
  PROVE  BInv'
<1>1. faults \in Nat /\ faults' \in Nat /\ chat \in [Users -> Nat]
  BY BTypes, ChannelTypes
<1>2. TypeOK'
  BY ChannelTypes, BTypes DEF TypeOK
<1>3. Mutex' /\ NotStarted' /\ CountsAddUp' /\ overrun' <= BatchSize
  BY DEF BInv, Mutex, NotStarted, CountsAddUp, At
<1>4. ASSUME NEW t \in Tasks PROVE TaskOK(t)' /\ ChatOK(t)' /\ OverrunOK(t)'
  <2>1. TaskOK(t) /\ ChatOK(t) /\ OverrunOK(t) /\ task[t] \in Executions
    BY BTypes DEF BInv
  <2>2. TaskOK(t)' /\ OverrunOK(t)'
    BY <2>1 DEF TaskOK, OverrunOK, Unanswered, At
  <2>3. ChatOK(t)'
    BY <1>1, <2>1 DEF ChatOK, At, Executions
  <2> QED BY <2>2, <2>3
<1>5. ASSUME NEW u \in Users PROVE chat'[u] <= 1 + faults' /\ (Resumable' /\ Unsent(u)' => chat'[u] <= faults')
  <2>1. chat[u] <= 1 + faults /\ (Resumable /\ Unsent(u) => chat[u] <= faults) /\ chat[u] \in Nat
    BY <1>1 DEF BInv
  <2>2. (Resumable' <=> Resumable) /\ (Unsent(u)' <=> Unsent(u))
    BY DEF Resumable, Unsent
  <2> QED BY <1>1, <2>1, <2>2
<1>6. RecallOK'
  BY <1>1 DEF BInv, RecallOK, At
<1> QED BY <1>2, <1>3, <1>4, <1>5, <1>6 DEF BInv

-----------------------------------------------------------------------------
(* Channel steps do not undo a recall.                                     *)

\* No row of a message begins, and the rows of an address go together.
NoneBegins ==
  /\ UNCHANGED feed
  /\ \A k \in Keys : row'[k].state \in Active => row[k].state \in Active
  /\ \A k, j \in Keys : k.to = j.to /\ row[k].state # "none" /\ row'[k].state = "none"
                          => row'[j].state = "none"

LEMMA NoneBeginsKeeps ==
  ASSUME NoneBegins, NEW m \in Messages, Recalled(m) PROVE Recalled(m)'
<1>1. \A u \in Users : feed'[m][u] # "shown"
  BY DEF NoneBegins, Recalled
<1>2. ASSUME NEW k \in Pushes, k.msg = m, row'[k].state \in Active
      PROVE  row'[Revocation(k)].state # "none"
  <2>1. k \in Keys /\ Revocation(k) \in Keys /\ Revocation(k).to = k.to
    BY KeyFacts
  <2>2. row[Revocation(k)].state # "none"
    BY <1>2, <2>1 DEF NoneBegins, Recalled
  <2>3. row'[k].state # "none"
    BY <1>2 DEF Active, Waiting
  <2> QED BY <2>1, <2>2, <2>3 DEF NoneBegins
<1> QED BY <1>1, <1>2 DEF Recalled

\* Each row moves on its own.
RowMoves(k) ==
  /\ row'[k].state \in Active => row[k].state \in Active
  /\ row'[k].state = "none" => row[k].state = "none"

LEMMA MovesBegin ==
  ASSUME UNCHANGED feed, \A k \in Keys : RowMoves(k) PROVE NoneBegins
BY DEF NoneBegins, RowMoves

\* Rows of dead subscriptions go, the others move.
LEMMA DeadBegin ==
  ASSUME UNCHANGED feed, NEW dead,
         \A k \in Keys : k.to \in dead => row'[k] = NoRow,
         \A k \in Keys : k.to \notin dead => RowMoves(k)
  PROVE  NoneBegins
<1>1. NoRow.state = "none" /\ "none" \notin Active
  BY DEF NoRow, Active, Waiting
<1>2. ASSUME NEW k \in Keys, row'[k].state \in Active PROVE row[k].state \in Active
  BY <1>1, <1>2 DEF RowMoves
<1>3. ASSUME NEW k \in Keys, NEW j \in Keys, k.to = j.to, row[k].state # "none", row'[k].state = "none"
      PROVE  row'[j].state = "none"
  <2>1. k.to \in dead
    BY <1>3 DEF RowMoves
  <2> QED BY <1>1, <1>3, <2>1
<1> QED BY <1>2, <1>3 DEF NoneBegins

LEMMA ClaimMoves ==
  ASSUME ChannelInv, NEW w \in Workers, NEW ks \in SUBSET Keys, Claim(w, ks) PROVE NoneBegins
<1>1. UNCHANGED feed /\ \A k \in ks : Claimable(k)
  BY DEF Claim
<1>2. CASE row' = row
  <2>1. \A k \in Keys : RowMoves(k)
    BY <1>2 DEF RowMoves
  <2> QED BY <1>1, <2>1, MovesBegin
<1>3. CASE row' = AfterClaim(ks, w)
  <2>1. ASSUME NEW k \in Keys PROVE RowMoves(k)
    <3>1. CASE k \notin ks
      BY <1>3, <3>1 DEF RowMoves, AfterClaim
    <3>2. CASE k \in ks
      <4>1. row[k].state \in Active /\ row[k] \in Rows
        BY <1>1, <3>2, Types DEF Claimable, Active
      <4>2. row'[k].state \in {"PROCESSING", "CANCELED"}
        BY <1>3, <3>2, <4>1 DEF AfterClaim, Claimed, Ineligible, Rows
      <4> QED BY <4>1, <4>2 DEF RowMoves
    <3> QED BY <3>1, <3>2
  <2> QED BY <1>1, <2>1, MovesBegin
<1> QED BY <1>2, <1>3 DEF Claim

LEMMA RecordMoves ==
  ASSUME ChannelInv, NEW w \in Workers, Record(w) PROVE NoneBegins
<1> DEFINE mine == worker[w].jobs
<1>1. PICK fifth \in SUBSET MayDrop(w) :
       row' = [k \in Keys |->
            IF k.to \in Dropped(w) \cup fifth THEN NoRow
            ELSE IF k \in mine /\ Holds(w, k) THEN Finished(row[k], worker[w].answer[k])
            ELSE row[k]]
  BY DEF Record
<1> DEFINE dead == Dropped(w) \cup fifth
<1>2. UNCHANGED feed /\ \A k \in mine : worker[w].answer[k] # None
  BY DEF Record
<1>3. worker[w] \in Claims
  BY Types
<1>4. \A k \in Keys : k.to \in dead => row'[k] = NoRow
  BY <1>1
<1>5. ASSUME NEW k \in Keys, k.to \notin dead PROVE RowMoves(k)
  <2>1. CASE k \in mine /\ Holds(w, k)
    <3>1. row'[k] = Finished(row[k], worker[w].answer[k])
      BY <1>1, <1>5, <2>1
    <3>2. worker[w].answer[k] \in Answers
      BY <1>2, <1>3, <2>1 DEF Claims
    <3>3. RowFits(row[k]) /\ row[k].state = "PROCESSING"
      BY <2>1, Types DEF Holds
    <3>4. row'[k].state \in Waiting \cup Terminal
      BY <3>1, <3>2, <3>3, FinishedFits
    <3> QED BY <3>3, <3>4 DEF RowMoves, Active, Waiting, Terminal
  <2>2. CASE ~(k \in mine /\ Holds(w, k))
    <3>1. row'[k] = row[k]
      BY <1>1, <1>5, <2>2
    <3> QED BY <3>1 DEF RowMoves
  <2> QED BY <2>1, <2>2
<1> HIDE DEF dead
<1> QED BY <1>2, <1>4, <1>5, DeadBegin

LEMMA ChannelNextBegins == ASSUME ChannelInv, ChannelNext PROVE NoneBegins /\ faults' >= faults
<1>0. faults \in Nat /\ row \in [Keys -> Rows]
  BY Types
<1>1. ASSUME NEW k \in Keys, ExpireCopy(k) PROVE NoneBegins /\ faults' >= faults
  <2>1. UNCHANGED <<feed, faults>> /\ row[k].state \in Active
        /\ \A j \in Keys : j # k => row'[j] = row[j]
    BY <1>0, <1>1 DEF ExpireCopy, Active
  <2>2. row'[k].state = "CANCELED"
    BY <1>0, <1>1 DEF ExpireCopy, Rows
  <2>3. \A j \in Keys : RowMoves(j)
    BY <2>1, <2>2 DEF RowMoves, Active, Waiting
  <2> QED BY <1>0, <2>1, <2>3, MovesBegin
<1>2. ASSUME NEW k \in Keys, LeaseExpires(k) PROVE NoneBegins /\ faults' >= faults
  <2>1. UNCHANGED feed /\ \A j \in Keys : row'[j].state = row[j].state
    BY <1>0, <1>2 DEF LeaseExpires, Rows
  <2>2. \A j \in Keys : RowMoves(j)
    BY <2>1 DEF RowMoves
  <2>3. faults' >= faults
    BY <1>0, <1>2 DEF LeaseExpires, Fault
  <2> QED BY <2>1, <2>2, <2>3, MovesBegin
<1>3. ASSUME NEW w \in Workers, ClaimMail(w) PROVE NoneBegins /\ faults' >= faults
  <2>1. PICK k \in Mails : Claim(w, {k}) /\ (Fault \/ faults' = faults)
    BY <1>3 DEF ClaimMail
  <2>2. faults' >= faults
    BY <1>0, <2>1 DEF Fault
  <2> QED BY <2>1, <2>2, KeyFacts, ClaimMoves
<1>4. ASSUME NEW w \in Workers, ClaimPushes(w) PROVE NoneBegins /\ faults' >= faults
  <2>1. PICK ks \in SUBSET {k \in Keys \ Mails : row[k] # NoRow} : Claim(w, ks) /\ faults' = faults
    BY <1>4 DEF ClaimPushes
  <2>2. ks \in SUBSET Keys
    OBVIOUS
  <2> QED BY <1>0, <2>1, <2>2, ClaimMoves
<1>5. ASSUME NEW w \in Workers, Record(w) PROVE NoneBegins /\ faults' >= faults
  <2>1. faults' >= faults
    BY <1>0, <1>5 DEF Record
  <2>2. NoneBegins
    BY <1>5, RecordMoves
  <2> QED BY <2>1, <2>2
<1>6. ASSUME NEW w \in Workers, CrashRun(w) PROVE NoneBegins /\ faults' >= faults
  <2>1. \A j \in Keys : RowMoves(j)
    BY <1>6 DEF CrashRun, RowMoves
  <2> QED BY <1>0, <1>6, <2>1, MovesBegin DEF CrashRun, Fault
<1>7. ASSUME NEW w \in Workers, NEW k \in Keys, Send(w, k) PROVE NoneBegins /\ faults' >= faults
  <2>1. UNCHANGED <<row, feed>> /\ faults' >= faults
    BY <1>0, <1>7 DEF Send, Fault
  <2>2. \A j \in Keys : RowMoves(j)
    BY <2>1 DEF RowMoves
  <2> QED BY <2>1, <2>2, MovesBegin
<1>8. ASSUME NEW u \in Users, NEW c \in {"open", "optedOut", "blocked"}, SetConsent(u, c)
      PROVE  NoneBegins /\ faults' >= faults
  <2>1. \A j \in Keys : RowMoves(j)
    BY <1>8 DEF SetConsent, RowMoves
  <2> QED BY <1>0, <1>8, <2>1, MovesBegin DEF SetConsent
<1>9. ASSUME NEW u \in Users, NEW s \in Subscriptions, NEW previous \in Subscriptions \cup {None},
             SavePush(u, s, previous)
      PROVE  NoneBegins /\ faults' >= faults
  <2>1. UNCHANGED <<feed, faults>> /\ row' = Without(row, previous)
    BY <1>9 DEF SavePush
  <2> DEFINE dead == {previous}
  <2>2. \A k \in Keys : k.to \in dead => row'[k] = NoRow
    BY <2>1 DEF Without
  <2>3. \A k \in Keys : k.to \notin dead => RowMoves(k)
    BY <2>1 DEF Without, RowMoves
  <2> HIDE DEF dead
  <2>4. NoneBegins
    BY <2>1, <2>2, <2>3, DeadBegin
  <2> QED BY <1>0, <2>1, <2>4
<1>10. ASSUME NEW s \in Subscriptions, DeletePush(s) PROVE NoneBegins /\ faults' >= faults
  <2>1. UNCHANGED <<feed, faults>> /\ row' = Without(row, s)
    BY <1>10 DEF DeletePush
  <2> DEFINE dead == {s}
  <2>2. \A k \in Keys : k.to \in dead => row'[k] = NoRow
    BY <2>1 DEF Without
  <2>3. \A k \in Keys : k.to \notin dead => RowMoves(k)
    BY <2>1 DEF Without, RowMoves
  <2> HIDE DEF dead
  <2>4. NoneBegins
    BY <2>1, <2>2, <2>3, DeadBegin
  <2> QED BY <1>0, <2>1, <2>4
<1> QED BY <1>1, <1>2, <1>3, <1>4, <1>5, <1>6, <1>7, <1>8, <1>9, <1>10 DEF ChannelNext

-----------------------------------------------------------------------------
(* The administrator, and what happens aside.                              *)

LEMMA StartKeeps == ASSUME BInv, StartBroadcast PROVE BInv'
<1>1. /\ status = "none" /\ status' = "PROCESSING"
      /\ UNCHANGED <<channelVars, message, stats, queued, lock, task, cancel, chat, overrun>>
  BY DEF StartBroadcast
<1>2. ChannelInv' /\ faults' = faults /\ faults \in Nat
  BY <1>1, ChannelStutter, BTypes DEF channelVars
<1>3. (\A t \in Tasks : At(t, "idle")) /\ \A u \in Users : chat[u] = 0
  BY <1>1 DEF BInv, NotStarted
<1>4. TypeOK'
  BY <1>1, <1>2, ChannelTypes, BTypes DEF TypeOK, Statuses
<1>5. Mutex' /\ CountsAddUp' /\ overrun' <= BatchSize /\ \A u \in Users : chat'[u] <= 1 + faults'
  BY <1>1, <1>2 DEF BInv, Mutex, CountsAddUp
<1>6. \A t \in Tasks : TaskOK(t)' /\ ChatOK(t)' /\ OverrunOK(t)'
  BY <1>1, <1>3 DEF TaskOK, ChatOK, OverrunOK, At
<1>7. NotStarted' /\ RecallOK'
  BY <1>1, <1>3 DEF NotStarted, RecallOK, At
<1>8. \A u \in Users : chat'[u] <= faults'
  BY <1>1, <1>2, <1>3
<1> QED BY <1>2, <1>4, <1>5, <1>6, <1>7, <1>8 DEF BInv

LEMMA DispatchKeeps == ASSUME BInv, Dispatch \/ DeleteBroadcast \/ ReadForCancel PROVE BInv'
<1>1. UNCHANGED channelVars /\ UNCHANGED <<status, message, stats, lock, task, chat, overrun>>
  BY DEF Dispatch, DeleteBroadcast, ReadForCancel
<1>2. ChannelInv' /\ faults' = faults /\ faults \in Nat
  BY <1>1, ChannelStutter, BTypes DEF channelVars
<1>3. queued' \subseteq {"send", "delete"} /\ (queued' = queued \/ status # "none")
      /\ cancel' \in {"idle", "write", "pending", "feed"}
  BY BTypes DEF Dispatch, DeleteBroadcast, ReadForCancel
<1>4. Recalled(news)' = Recalled(news)
  BY <1>1 DEF channelVars, Recalled
<1> QED BY <1>1, <1>2, <1>3, <1>4, AsideKeeps

LEMMA CancelCopiesKeeps == ASSUME BInv, CancelCopies PROVE BInv'
<1>1. /\ CancelPending(news) /\ cancel' = "feed"
      /\ UNCHANGED <<feed, owner, consent, worker, sent, late, faults>>
      /\ UNCHANGED <<status, message, stats, queued, lock, task, chat, overrun>>
  BY DEF CancelCopies
<1>2. ChannelInv' /\ faults' >= faults
  BY <1>1, CancelKeeps, Constants, BTypes
<1>3. ASSUME NEW k \in Keys PROVE RowMoves(k)
  <2>1. row'[k] = CanceledRows(news)[k] /\ row[k] \in Rows
    BY <1>1, BTypes, Types DEF CancelPending
  <2>2. row'[k].state = row[k].state \/ (row[k].state \in Waiting /\ row'[k].state = "CANCELED")
    BY <2>1 DEF CanceledRows, Rows
  <2> QED BY <2>2 DEF RowMoves, Active, Waiting
<1>4. Recalled(news) => Recalled(news)'
  BY <1>1, <1>3, MovesBegin, NoneBeginsKeeps, Constants
<1> QED BY <1>1, <1>2, <1>4, BTypes, AsideKeeps

LEMMA HideCanceledKeeps == ASSUME BInv, HideCanceled PROVE BInv'
<1>1. /\ HideFeed(news) /\ cancel' = "idle"
      /\ UNCHANGED <<row, owner, consent, worker, sent, late, faults>>
      /\ UNCHANGED <<status, message, stats, queued, lock, task, chat, overrun>>
  BY DEF HideCanceled
<1>2. ChannelInv' /\ faults' >= faults
  BY <1>1, HideKeeps, Constants, BTypes
<1>3. \A u \in Users : feed'[news][u] # "shown"
  BY <1>1, BTypes, Types, Constants DEF HideFeed, HiddenFeed, FeedType
<1>4. Recalled(news) => Recalled(news)'
  BY <1>1, <1>3 DEF Recalled
<1> QED BY <1>1, <1>2, <1>4, BTypes, AsideKeeps

LEMMA NotifyKeeps ==
  ASSUME BInv, NEW m \in Messages, NEW u \in Users, NotifyUser(m, u) PROVE BInv'
<1>1. /\ m # news /\ Enqueue(m, {u}) /\ {u} \in SUBSET Users
      /\ UNCHANGED <<owner, consent, worker, sent, late, faults>>
      /\ UNCHANGED <<status, message, stats, queued, lock, task, cancel, chat, overrun>>
  BY DEF NotifyUser, broadcastVars
<1>2. ChannelInv' /\ faults' >= faults
  BY <1>1, EnqueueKeeps, BTypes
<1>3. feed'[news] = feed[news]
  BY <1>1, BTypes, Types, Constants DEF Enqueue, FeedType
<1>4. \A k \in Keys : k.msg = news => row'[k] = row[k]
  <2>1. \A k \in CopiesOf(m, {u}) : k.msg = m
    BY DEF CopiesOf
  <2> QED BY <1>1, <2>1 DEF Enqueue, Queued
<1>5. Recalled(news) => Recalled(news)'
  <2>1. \A k \in Pushes : k.msg = news => row'[k] = row[k] /\ row'[Revocation(k)] = row[Revocation(k)]
    BY <1>4, KeyFacts
  <2> QED BY <1>3, <2>1 DEF Recalled
<1> QED BY <1>1, <1>2, <1>5, BTypes, AsideKeeps

LEMMA ChannelsKeep == ASSUME BInv, ChannelNext, UNCHANGED broadcastVars PROVE BInv'
<1>1. UNCHANGED <<status, message, stats, queued, lock, task, cancel, chat, overrun>>
  BY DEF broadcastVars
<1>2. ChannelInv' /\ NoneBegins /\ faults' >= faults
  BY BTypes, ChannelKeeps, ChannelNextBegins
<1>3. Recalled(news) => Recalled(news)'
  BY <1>2, NoneBeginsKeeps, Constants
<1> QED BY <1>1, <1>2, <1>3, BTypes, AsideKeeps

LEMMA StutterKeeps == ASSUME BInv, UNCHANGED vars PROVE BInv'
<1>1. UNCHANGED channelVars
      /\ UNCHANGED <<status, message, stats, queued, lock, task, cancel, chat, overrun>>
  BY DEF vars, broadcastVars
<1>2. ChannelInv' /\ faults' = faults /\ faults \in Nat
  BY <1>1, ChannelStutter, BTypes DEF channelVars
<1>3. Recalled(news)' = Recalled(news)
  BY <1>1 DEF channelVars, Recalled
<1> QED BY <1>1, <1>2, <1>3, BTypes, AsideKeeps

(* Cancelling meets a batch that is under way.                             *)
LEMMA WriteCanceledKeeps == ASSUME BInv, WriteCanceled PROVE BInv'
<1>1. /\ status' = "CANCELED" /\ overrun' = 0 /\ cancel' = "pending"
      /\ UNCHANGED channelVars /\ UNCHANGED <<message, stats, queued, lock, task, chat>>
  BY DEF WriteCanceled
<1>2. ChannelInv' /\ faults' = faults /\ faults \in Nat
  BY <1>1, ChannelStutter, BTypes DEF channelVars
<1>3. TypeOK'
  BY <1>1, <1>2, ChannelTypes, BTypes DEF TypeOK, Statuses
<1>4. Mutex' /\ CountsAddUp' /\ overrun' <= BatchSize /\ \A u \in Users : chat'[u] <= 1 + faults'
  BY <1>1, <1>2, Constants DEF BInv, Mutex, CountsAddUp
<1>5. ASSUME NEW t \in Tasks PROVE TaskOK(t)' /\ ChatOK(t)' /\ OverrunOK(t)'
  <2>1. TaskOK(t) /\ ChatOK(t) /\ task[t] \in Executions
    BY BTypes DEF BInv
  <2>2. TaskOK(t)' /\ ChatOK(t)'
    BY <1>1, <1>2, <2>1 DEF TaskOK, ChatOK, At
  <2>3. OverrunOK(t)'
    <3>1. SUFFICES ASSUME At(t, "sending") PROVE 0 + Cardinality(Unanswered(t)) <= BatchSize
      BY <1>1 DEF OverrunOK, At, Unanswered
    <3>2. Unanswered(t) \subseteq task[t].batch /\ task[t].batch \subseteq Users
          /\ Cardinality(task[t].batch) <= BatchSize
      BY <2>1, <3>1 DEF Unanswered, TaskOK, Executions
    <3>3. IsFiniteSet(task[t].batch)
      BY <3>2, Constants, FS_Subset
    <3> QED BY <3>2, <3>3, Constants, SmallerSet
  <2> QED BY <2>2, <2>3
<1>6. NotStarted'
  BY <1>1 DEF NotStarted
<1>7. Resumable' => \A u \in Users : Unsent(u)' => chat'[u] <= faults'
  <2>1. (Resumable' => Resumable) /\ \A u \in Users : Unsent(u)' <=> Unsent(u)
    BY <1>1 DEF Resumable, Unsent
  <2> QED BY <1>1, <1>2, <2>1 DEF BInv
<1>8. RecallOK'
  <2>1. Recalled(news)' = Recalled(news)
    BY <1>1 DEF channelVars, Recalled
  <2> QED BY <1>1, <1>2, <2>1 DEF BInv, RecallOK, At
<1> QED BY <1>2, <1>3, <1>4, <1>5, <1>6, <1>7, <1>8 DEF BInv

-----------------------------------------------------------------------------
(* Tasks before and at the lock.                                           *)

LEMMA StartTaskKeeps ==
  ASSUME BInv, NEW t \in Tasks, NEW kind \in {"send", "delete"}, StartTask(t, kind) \/ Acquire(t)
  PROVE  BInv'
<1> DEFINE to == task'[t].pc
<1>1. /\ task' = [task EXCEPT ![t].pc = to] /\ task[t].pc \in Resting
      /\ to \in {"send", "unsend", "read", "deleteRead"}
      /\ to \in LockSteps => lock = None /\ lock' = t
      /\ to \notin LockSteps => lock' = lock
      /\ UNCHANGED channelVars
      /\ UNCHANGED <<status, message, stats, queued, cancel, chat, overrun>>
  BY BTypes DEF StartTask, Acquire, At, Goto, LockSteps, SendSteps, DeleteSteps, Resting, Executions
<1>2. ChannelInv' /\ faults' = faults /\ faults \in Nat
  BY <1>1, ChannelStutter, BTypes DEF channelVars
<1>3. \A v \in Tasks \ {t} : task'[v] = task[v]
  BY <1>1, BTypes
<1>4. status # "none"
  <2>1. CASE StartTask(t, kind)
    BY <2>1 DEF StartTask, BInv, NotStarted
  <2>2. CASE Acquire(t)
    BY <2>2 DEF Acquire, At, BInv, NotStarted
  <2> QED BY <2>1, <2>2
<1> HIDE DEF to
<1>5. TypeOK'
  <2>1. task' \in [Tasks -> Executions]
    <3>1. to \in Pcs
      BY <1>1 DEF Pcs, Resting, LockSteps, SendSteps, DeleteSteps
    <3>2. task[t] \in Executions /\ task \in [Tasks -> Executions]
      BY BTypes
    <3>3. [task[t] EXCEPT !.pc = to] \in Executions
      BY <3>1, <3>2, MovedType
    <3> QED BY <1>1, <3>2, <3>3
  <2>2. lock' \in Tasks \cup {None}
    BY <1>1, BTypes
  <2> QED BY <1>1, <1>2, <2>1, <2>2, ChannelTypes, BTypes DEF TypeOK
<1>6. Mutex'
  <2>1. task'[t].pc = to /\ task[t].pc \notin LockSteps
    BY <1>1, BTypes DEF to, Resting, LockSteps, SendSteps, DeleteSteps
  <2>2. CASE to \in LockSteps
    <3>1. \A v \in Tasks : task[v].pc \notin LockSteps
      BY <1>1, <2>2, Constants DEF BInv, Mutex
    <3> QED BY <1>1, <1>3, <2>1, <2>2, <3>1 DEF Mutex
  <2>3. CASE to \notin LockSteps
    BY <1>1, <1>3, <2>1, <2>3 DEF BInv, Mutex
  <2> QED BY <2>2, <2>3
<1>7. ASSUME NEW v \in Tasks PROVE TaskOK(v)' /\ ChatOK(v)' /\ OverrunOK(v)'
  <2>1. CASE v = t
    <3>1. task'[t].pc \in {"send", "unsend", "read", "deleteRead"}
      BY <1>1 DEF to
    <3> QED BY <2>1, <3>1 DEF TaskOK, ChatOK, OverrunOK, At
  <2>2. CASE v # t
    <3>1. TaskOK(v) /\ ChatOK(v) /\ OverrunOK(v) /\ task'[v] = task[v]
      BY <1>3, <2>2 DEF BInv
    <3> QED BY <1>1, <1>2, <3>1 DEF TaskOK, ChatOK, OverrunOK, At, Unanswered
  <2> QED BY <2>1, <2>2
<1>8. NotStarted' /\ CountsAddUp' /\ overrun' <= BatchSize /\ \A u \in Users : chat'[u] <= 1 + faults'
  BY <1>1, <1>2, <1>4 DEF BInv, NotStarted, CountsAddUp
<1>9. task'[t].pc \in {"send", "unsend", "read", "deleteRead"}
  BY <1>1 DEF to
<1>10. Resumable' => \A u \in Users : Unsent(u)' => chat'[u] <= faults'
  <2>1. Resumable' => Resumable
    BY <1>1, <1>3, <1>9 DEF Resumable, Resting
  <2>2. \A u \in Users : Unsent(u)' <=> Unsent(u)
    BY <1>1 DEF Unsent
  <2> QED BY <1>1, <1>2, <2>1, <2>2 DEF BInv
<1>11. RecallOK'
  <2>1. Recalled(news)' = Recalled(news)
    BY <1>1 DEF channelVars, Recalled
  <2>2. (\E v \in Tasks : At(v, "delete"))' => \E v \in Tasks : At(v, "delete")
    BY <1>3, <1>9 DEF At
  <2> QED BY <1>1, <1>2, <2>1, <2>2 DEF BInv, RecallOK
<1> QED BY <1>2, <1>5, <1>6, <1>7, <1>8, <1>10, <1>11 DEF BInv

-----------------------------------------------------------------------------
(* The holder of the lock.                                                 *)

LEMMA Frame ==
  ASSUME BInv, UNCHANGED channelVars
  PROVE  ChannelInv' /\ faults' = faults /\ faults' >= faults /\ Recalled(news)' = Recalled(news)
<1>1. ChannelInv' /\ faults' = faults /\ faults \in Nat
  BY ChannelStutter, BTypes DEF channelVars
<1>2. Recalled(news)' = Recalled(news)
  BY DEF channelVars, Recalled
<1> QED BY <1>1, <1>2

(* The task ends: what it knew is gone, the status is what it left.        *)
LEMMA EndKeeps ==
  ASSUME BInv, NEW t \in Tasks, task[t].pc \in LockSteps, Ends(t),
         UNCHANGED <<queued, cancel, message, stats, chat, overrun>>, UNCHANGED channelVars,
         status' \in Statuses \ {"none"}, status' # "PROCESSING",
         status' = "DELETED" => status = "DELETED" \/ At(t, "delete")
  PROVE  BInv'
<1>1. Stopped \in Executions /\ Stopped.pc = "idle" /\ task' = [task EXCEPT ![t] = Stopped]
      /\ lock' = None
  BY StoppedType DEF Ends
<1>2. task'[t] = Stopped
  BY <1>1, BTypes
<1>3. TaskOK(t)' /\ ChatOK(t)' /\ OverrunOK(t)'
  BY <1>1, <1>2 DEF TaskOK, ChatOK, OverrunOK, At
<1>4. CountsAddUp' /\ overrun' <= BatchSize
  BY DEF BInv, CountsAddUp
<1>5. ChannelInv' /\ faults' = faults /\ faults' >= faults /\ Recalled(news)' = Recalled(news)
  BY Frame
<1>6. \A u \in Users : chat'[u] <= 1 + faults'
  BY <1>5 DEF BInv
<1>7. faults' = 0 /\ status' = "DELETED" => Recalled(news)'
  BY <1>5 DEF BInv, RecallOK
<1> QED BY <1>1, <1>3, <1>4, <1>5, <1>6, <1>7, BTypes, HolderKeeps

LEMMA ReadForSendKeeps == ASSUME BInv, NEW t \in Tasks, ReadForSend(t) PROVE BInv'
<1>1. At(t, "read") /\ task[t].pc \in LockSteps /\ UNCHANGED channelVars
      /\ UNCHANGED <<status, message, stats, queued, cancel, chat, overrun>>
  BY DEF ReadForSend, At, LockSteps, SendSteps
<1>2. status # "none"
  BY <1>1, OthersRest
<1>3. CASE status = "PROCESSING"
  <2> DEFINE e == [task[t] EXCEPT !.pc = "copy"]
  <2>1. task' = [task EXCEPT ![t] = e] /\ lock' = lock
    BY <1>3 DEF ReadForSend, Goto
  <2>2. e \in Executions /\ e.pc = "copy" /\ task'[t] = e
    BY <2>1, BTypes DEF Executions, SendSteps
  <2> HIDE DEF e
  <2>3. e.pc \in LockSteps
    BY <2>2 DEF LockSteps, SendSteps
  <2>4. TaskOK(t)' /\ ChatOK(t)' /\ OverrunOK(t)'
    BY <1>1, <1>3, <2>2 DEF TaskOK, ChatOK, OverrunOK, At
  <2>5. CountsAddUp' /\ overrun' <= BatchSize
    BY <1>1 DEF BInv, CountsAddUp
  <2>6. ChannelInv' /\ faults' = faults /\ faults' >= faults /\ Recalled(news)' = Recalled(news)
    BY <1>1, Frame
  <2>7. \A u \in Users : chat'[u] <= 1 + faults'
    BY <1>1, <2>6 DEF BInv
  <2>8. \A u \in Users : Unsent(u)' => chat'[u] <= faults'
    <3>1. Resumable
      <4>1. \A v \in Tasks : task[v].pc \in Resting \cup {"read"}
        BY <1>1, OthersRest DEF At
      <4> QED BY <1>3, <4>1 DEF Resumable, Resting
    <3> QED BY <1>1, <2>6, <3>1 DEF BInv, Unsent
  <2>9. status' \in Statuses \ {"none"} /\ status' # "DELETED" /\ e.pc # "delete"
    BY <1>1, <1>2, <1>3, <2>2, BTypes
  <2> QED BY <1>1, <2>1, <2>2, <2>3, <2>4, <2>5, <2>6, <2>7, <2>8, <2>9, BTypes, HolderKeeps
<1>4. CASE status # "PROCESSING"
  <2>1. Ends(t)
    BY <1>4 DEF ReadForSend
  <2> QED BY <1>1, <1>2, <1>4, <2>1, BTypes, EndKeeps
<1> QED BY <1>3, <1>4

(* The copies are queued while the broadcast is being sent.                *)
LEMMA CopyKeeps == ASSUME BInv, NEW t \in Tasks, CopyToChannels(t) PROVE BInv'
<1>1. At(t, "copy") /\ task[t].pc \in LockSteps
      /\ UNCHANGED <<owner, consent, worker, sent, late, faults>>
      /\ UNCHANGED <<status, message, stats, queued, lock, cancel, chat, overrun>>
  BY DEF CopyToChannels, At, LockSteps, SendSteps
<1>2. PICK audience \in SUBSET Users, chats \in SUBSET Users :
       /\ Enqueue(news, audience) \/ UNCHANGED <<row, feed>>
       /\ task' = [task EXCEPT ![t] =
            IF chats = {} THEN [@ EXCEPT !.pc = "finish", !.final = "COMPLETED"]
            ELSE [@ EXCEPT !.pc = "init", !.users = chats]]
  BY DEF CopyToChannels
<1> DEFINE e == IF chats = {} THEN [task[t] EXCEPT !.pc = "finish", !.final = "COMPLETED"]
                ELSE [task[t] EXCEPT !.pc = "init", !.users = chats]
<1>3. task' = [task EXCEPT ![t] = e]
  BY <1>2
<1>4. e \in Executions /\ task'[t] = e /\ e.pc \in {"finish", "init"}
      /\ (e.pc = "finish" => e.final = "COMPLETED")
  <2> DEFINE old == task[t]
             pcs == {"idle", "send", "unsend"} \cup SendSteps \cup DeleteSteps
  <2>0. /\ Executions = [pc : pcs, users : SUBSET Users, batch : SUBSET Users,
                          result : [Users -> {"SENT", "FAILED", None}], final : Statuses]
        /\ old \in Executions /\ "finish" \in pcs /\ "init" \in pcs
        /\ "COMPLETED" \in Statuses /\ chats \in SUBSET Users
    BY <1>2, BTypes DEF Executions, SendSteps, Statuses
  <2> HIDE DEF old, pcs
  <2>1. [old EXCEPT !.pc = "finish", !.final = "COMPLETED"] \in Executions
    BY <2>0
  <2>2. [old EXCEPT !.pc = "init", !.users = chats] \in Executions
    BY <2>0
  <2>3. e \in Executions
    BY <2>1, <2>2 DEF old
  <2>4. e.pc \in {"finish", "init"} /\ (e.pc = "finish" => e.final = "COMPLETED")
    BY BTypes DEF Executions
  <2> QED BY <1>3, <2>3, <2>4, BTypes
<1> HIDE DEF e
<1>5. ChannelInv' /\ faults \in Nat /\ faults' >= faults
  <2>1. CASE Enqueue(news, audience)
    BY <1>1, <2>1, BTypes, Constants, EnqueueKeeps
  <2>2. CASE UNCHANGED <<row, feed>>
    BY <1>1, <2>2, BTypes, ChannelStutter DEF channelVars
  <2> QED BY <1>2, <2>1, <2>2
<1>6. status \in {"PROCESSING", "CANCELED"}
  BY <1>1 DEF BInv, TaskOK, At
<1>7. e.pc \in LockSteps
  BY <1>4 DEF LockSteps, SendSteps
<1>8. TaskOK(t)' /\ ChatOK(t)' /\ OverrunOK(t)'
  BY <1>1, <1>4, <1>6 DEF TaskOK, ChatOK, OverrunOK, At, Final
<1>9. CountsAddUp' /\ overrun' <= BatchSize /\ \A u \in Users : chat'[u] <= 1 + faults'
  BY <1>1 DEF BInv, CountsAddUp
<1>10. \A u \in Users : Unsent(u)' => chat'[u] <= faults'
  <2>1. Resumable
    <3>1. \A v \in Tasks : task[v].pc \in Resting \cup {"copy"}
      BY <1>1, OthersRest DEF At
    <3> QED BY <1>1, <3>1 DEF Resumable, Resting, At
  <2> QED BY <1>1, <2>1 DEF BInv, Unsent
<1>11. status' \in Statuses \ {"none"} /\ status' # "DELETED" /\ e.pc # "delete"
  BY <1>1, <1>4, <1>6 DEF Statuses
<1> QED BY <1>1, <1>3, <1>4, <1>5, <1>7, <1>8, <1>9, <1>10, <1>11, BTypes, HolderKeeps

LEMMA InitializeKeeps == ASSUME BInv, NEW t \in Tasks, InitializeMessages(t) PROVE BInv'
<1> DEFINE rows == IF HasMessages THEN message
                   ELSE [u \in Users |-> IF u \in task[t].users THEN "PENDING" ELSE "none"]
           e == [task[t] EXCEPT !.pc = "check", !.users = {u \in @ : rows[u] = "PENDING"}]
<1>1. At(t, "init") /\ task[t].pc \in LockSteps /\ UNCHANGED channelVars
      /\ UNCHANGED <<status, stats, queued, lock, cancel, chat, overrun>>
  BY DEF InitializeMessages, At, LockSteps, SendSteps
<1>2. message' = rows /\ task' = [task EXCEPT ![t] = e]
  BY BTypes DEF InitializeMessages
<1>3. /\ e \in Executions /\ task'[t] = e /\ e.pc = "check"
      /\ e.users = {u \in task[t].users : rows[u] = "PENDING"} /\ e.users \subseteq Users
  BY <1>2, BTypes DEF Executions, SendSteps
<1>4. /\ rows \in [Users -> MessageStatuses]
      /\ \A u \in Users : rows[u] = "PENDING" => message[u] \in {"none", "PENDING"}
      /\ \A u \in Users : rows[u] \in {"SENT", "FAILED", "DELETED"} <=> message[u] \in {"SENT", "FAILED", "DELETED"}
      /\ \A u \in Users : rows[u] \in {"SENT", "FAILED", "DELETED"} => rows[u] = message[u]
  <2>1. CASE HasMessages
    BY <2>1, BTypes
  <2>2. CASE ~HasMessages
    <3>1. \A u \in Users : message[u] = "none"
      BY <2>2 DEF HasMessages
    <3> QED BY <2>2, <3>1 DEF MessageStatuses
  <2> QED BY <2>1, <2>2
<1> HIDE DEF rows, e
<1>5. ChannelInv' /\ faults' = faults /\ faults' >= faults /\ Recalled(news)' = Recalled(news)
  BY <1>1, Frame
<1>6. status \in {"PROCESSING", "CANCELED"}
  BY <1>1 DEF BInv, TaskOK, At
<1>7. e.pc \in LockSteps
  BY <1>3 DEF LockSteps, SendSteps
<1>8. Resumable
  <2>1. \A v \in Tasks : task[v].pc \in Resting \cup {"init"}
    BY <1>1, OthersRest DEF At
  <2> QED BY <1>1, <2>1 DEF Resumable, Resting, At
<1>9. \A u \in e.users : message'[u] = "PENDING" /\ chat'[u] <= faults'
  <2>1. \A u \in Users : Unsent(u) => chat[u] <= faults
    BY <1>8 DEF BInv
  <2> QED BY <1>1, <1>2, <1>3, <1>4, <1>5, <2>1 DEF Unsent
<1>10. TaskOK(t)' /\ ChatOK(t)' /\ OverrunOK(t)'
  BY <1>1, <1>3, <1>6, <1>9 DEF TaskOK, ChatOK, OverrunOK, At
<1>11. CountsAddUp'
  <2>1. {u \in Users : message'[u] \in {"SENT", "DELETED"}} = {u \in Users : message[u] \in {"SENT", "DELETED"}}
    BY <1>2, <1>4
  <2>2. {u \in Users : message'[u] = "FAILED"} = {u \in Users : message[u] = "FAILED"}
    BY <1>2, <1>4
  <2> QED BY <1>1, <2>1, <2>2 DEF BInv, CountsAddUp
<1>12. overrun' <= BatchSize /\ \A u \in Users : chat'[u] <= 1 + faults'
  BY <1>1, <1>5 DEF BInv
<1>13. status' \in Statuses \ {"none"} /\ status' # "DELETED" /\ e.pc # "delete"
       /\ message' \in [Users -> MessageStatuses]
  BY <1>1, <1>2, <1>3, <1>4, <1>6 DEF Statuses
<1> QED BY <1>1, <1>2, <1>3, <1>5, <1>7, <1>10, <1>11, <1>12, <1>13, BTypes, HolderKeeps

LEMMA CheckKeeps == ASSUME BInv, NEW t \in Tasks, CheckCanceled(t) PROVE BInv'
<1>1. At(t, "check") /\ task[t].pc \in LockSteps /\ UNCHANGED channelVars
      /\ UNCHANGED <<status, message, stats, queued, lock, cancel, chat, overrun>>
  BY DEF CheckCanceled, At, LockSteps, SendSteps
<1>2. status \in {"PROCESSING", "CANCELED"} /\ (\A u \in task[t].users : message[u] = "PENDING")
      /\ \A u \in task[t].users : chat[u] <= faults
  BY <1>1 DEF BInv, TaskOK, ChatOK, At
<1>3. ChannelInv' /\ faults' = faults /\ faults' >= faults /\ Recalled(news)' = Recalled(news)
  BY <1>1, Frame
<1>4. CountsAddUp' /\ overrun' <= BatchSize /\ \A u \in Users : chat'[u] <= 1 + faults'
  BY <1>1, <1>3 DEF BInv, CountsAddUp
<1>5. status' \in Statuses \ {"none"} /\ status' # "DELETED"
  BY <1>1, <1>2 DEF Statuses
<1>6. \/ \E f \in {"COMPLETED", "CANCELED"} :
             task' = [task EXCEPT ![t] = [task[t] EXCEPT !.pc = "finish", !.final = f]]
      \/ /\ status # "CANCELED"
         /\ \E b \in SUBSET task[t].users :
              /\ Cardinality(b) <= BatchSize
              /\ task' = [task EXCEPT ![t] = [task[t] EXCEPT !.pc = "sending", !.batch = b]]
  BY BTypes DEF CheckCanceled, Stops
<1>7. ASSUME NEW f \in {"COMPLETED", "CANCELED"},
             task' = [task EXCEPT ![t] = [task[t] EXCEPT !.pc = "finish", !.final = f]]
      PROVE  BInv'
  <2> DEFINE e == [task[t] EXCEPT !.pc = "finish", !.final = f]
  <2>1. e \in Executions /\ task'[t] = e /\ e.pc = "finish" /\ e.final = f /\ task' = [task EXCEPT ![t] = e]
    BY <1>7, BTypes DEF Executions, SendSteps, Statuses
  <2> HIDE DEF e
  <2>2. e.pc \in LockSteps
    BY <2>1 DEF LockSteps, SendSteps
  <2>3. TaskOK(t)' /\ ChatOK(t)' /\ OverrunOK(t)'
    BY <2>1 DEF TaskOK, ChatOK, OverrunOK, At, Final
  <2> QED BY <1>1, <1>3, <1>4, <1>5, <2>1, <2>2, <2>3, BTypes, HolderKeeps
<1>8. ASSUME status # "CANCELED", NEW b \in SUBSET task[t].users, Cardinality(b) <= BatchSize,
             task' = [task EXCEPT ![t] = [task[t] EXCEPT !.pc = "sending", !.batch = b]]
      PROVE  BInv'
  <2> DEFINE e == [task[t] EXCEPT !.pc = "sending", !.batch = b]
  <2>0. b \in SUBSET Users
    BY BTypes DEF Executions
  <2>a. /\ e \in Executions /\ e.pc = "sending" /\ e.batch = b /\ e.users = task[t].users
        /\ task' = [task EXCEPT ![t] = e]
    <3>1. task[t] \in Executions
      BY BTypes
    <3>2. e.pc = "sending" /\ e.batch = b /\ e.users = task[t].users
      BY <3>1 DEF Executions
    <3>3. e \in Executions
      BY <2>0, <3>1 DEF Executions, SendSteps
    <3> QED BY <1>8, <3>2, <3>3
  <2> HIDE DEF e
  <2>1. /\ e \in Executions /\ task'[t] = e /\ e.pc = "sending" /\ e.batch = b
        /\ e.users = task[t].users /\ task' = [task EXCEPT ![t] = e]
    BY <2>a, BTypes
  <2>2. e.pc \in LockSteps
    BY <2>1 DEF LockSteps, SendSteps
  <2>3. TaskOK(t)' /\ ChatOK(t)' /\ OverrunOK(t)'
    BY <1>1, <1>2, <1>3, <1>8, <2>1 DEF TaskOK, ChatOK, OverrunOK, At
  <2> QED BY <1>1, <1>3, <1>4, <1>5, <2>1, <2>2, <2>3, BTypes, HolderKeeps
<1> QED BY <1>6, <1>7, <1>8

LEMMA SendOneKeeps ==
  ASSUME BInv, NEW t \in Tasks, NEW u \in Users, SendOne(t, u) PROVE BInv'
<1>1. At(t, "sending") /\ task[t].pc \in LockSteps /\ UNCHANGED channelVars
      /\ u \in task[t].batch /\ task[t].result[u] = None
      /\ UNCHANGED <<status, message, stats, queued, lock, cancel>>
  BY DEF SendOne, At, LockSteps, SendSteps
<1>2. PICK r \in {"SENT", "FAILED"} :
       /\ task' = [task EXCEPT ![t].result[u] = r]
       /\ \/ /\ chat' = [chat EXCEPT ![u] = @ + 1]
             /\ overrun' = IF status = "CANCELED" THEN overrun + 1 ELSE overrun
          \/ UNCHANGED <<chat, overrun>>
  BY DEF SendOne
<1> DEFINE e == [task[t] EXCEPT !.result = [@ EXCEPT ![u] = r]]
<1>3. task' = [task EXCEPT ![t] = e]
  BY <1>2
<1>4. /\ e \in Executions /\ task'[t] = e /\ e.pc = "sending" /\ e.batch = task[t].batch
      /\ e.users = task[t].users /\ e.result = [task[t].result EXCEPT ![u] = r]
  BY <1>1, <1>3, BTypes DEF Executions, At
<1>5. task[t].result \in [Users -> {"SENT", "FAILED", None}]
  BY BTypes DEF Executions
<1> HIDE DEF e
<1>6. ChannelInv' /\ faults' = faults /\ faults' >= faults /\ faults \in Nat
      /\ Recalled(news)' = Recalled(news)
  BY <1>1, Frame, BTypes
<1>7. status \in {"PROCESSING", "CANCELED"} /\ task[t].batch \subseteq task[t].users
      /\ (\A v \in task[t].users : message[v] = "PENDING") /\ Cardinality(task[t].batch) <= BatchSize
      /\ \A v \in task[t].users : v \notin task[t].batch \/ task[t].result[v] = None => chat[v] <= faults
  BY <1>1 DEF BInv, TaskOK, ChatOK, At
<1>8. /\ chat' \in [Users -> Nat] /\ \A v \in Users \ {u} : chat'[v] = chat[v]
      /\ chat'[u] <= chat[u] + 1 /\ chat[u] <= faults
      /\ chat[u] \in Nat
  BY <1>1, <1>2, <1>7, BTypes
<1>9. \A v \in Users : chat'[v] <= 1 + faults'
  BY <1>6, <1>8 DEF BInv
<1>10. ChatOK(t)'
  <2>1. ASSUME NEW v \in e.users, v \notin e.batch \/ e.result[v] = None PROVE chat'[v] <= faults'
    <3>1. v # u
      BY <1>1, <1>4, <1>5, <2>1, ChannelNone
    <3>2. v \in Users /\ e.result[v] = task[t].result[v]
      BY <1>4, <1>5, <2>1, <3>1 DEF Executions
    <3> QED BY <1>4, <1>6, <1>7, <1>8, <2>1, <3>1, <3>2
  <2> QED BY <1>4, <2>1 DEF ChatOK, At
<1>11. TaskOK(t)'
  BY <1>1, <1>4, <1>7 DEF TaskOK, At
<1>12. overrun' \in Nat /\ overrun' <= BatchSize /\ OverrunOK(t)'
  <2>1. Unanswered(t)' \subseteq Unanswered(t) \ {u} /\ u \in Unanswered(t)
    BY <1>1, <1>4, <1>5, ChannelNone DEF Unanswered
  <2>2. IsFiniteSet(Unanswered(t))
    <3>1. Unanswered(t) \subseteq Users
      BY BTypes DEF Unanswered, Executions
    <3> QED BY <3>1, Constants, FS_Subset
  <2>3. /\ Cardinality(Unanswered(t)') \in Nat /\ Cardinality(Unanswered(t)) \in Nat
        /\ Cardinality(Unanswered(t)') + 1 <= Cardinality(Unanswered(t))
    BY <2>1, <2>2, OneLess
  <2>4. status = "CANCELED" => overrun + Cardinality(Unanswered(t)) <= BatchSize
    BY <1>1 DEF BInv, OverrunOK
  <2>5. overrun \in Nat /\ overrun <= BatchSize /\ BatchSize \in Nat
    BY BTypes, Constants DEF BInv
  <2>6. overrun' = overrun \/ (status = "CANCELED" /\ overrun' = overrun + 1)
    BY <1>2
  <2>7. overrun' \in Nat /\ overrun' <= BatchSize
        /\ (status = "CANCELED" => overrun' + Cardinality(Unanswered(t)') <= BatchSize)
    BY <2>3, <2>4, <2>5, <2>6
  <2> QED BY <1>1, <2>7 DEF OverrunOK
<1>13. CountsAddUp' /\ e.pc \in LockSteps
  BY <1>1, <1>4 DEF BInv, CountsAddUp, LockSteps, SendSteps
<1>14. status' \in Statuses \ {"none"} /\ status' # "DELETED"
  BY <1>1, <1>7 DEF Statuses
<1> QED BY <1>1, <1>3, <1>4, <1>6, <1>8, <1>9, <1>10, <1>11, <1>12, <1>13, <1>14, BTypes, HolderKeeps

(* A batch is counted once: its messages were pending.                     *)
LEMMA UpdateKeeps == ASSUME BInv, NEW t \in Tasks, UpdateStatuses(t) PROVE BInv'
<1> DEFINE b == task[t].batch
           e == [Stopped EXCEPT !.pc = "check", !.users = task[t].users \ b]
<1>1. At(t, "sending") /\ task[t].pc \in LockSteps /\ UNCHANGED channelVars
      /\ (\A u \in b : task[t].result[u] # None)
      /\ UNCHANGED <<status, queued, lock, cancel, chat, overrun>>
  BY DEF UpdateStatuses, At, LockSteps, SendSteps
<1>2. /\ message' = [u \in Users |-> IF u \in b THEN task[t].result[u] ELSE message[u]]
      /\ stats' = [success |-> stats.success + Cardinality(Answered(t, "SENT")),
                   failed |-> stats.failed + Cardinality(Answered(t, "FAILED"))]
      /\ task' = [task EXCEPT ![t] = e]
  BY DEF UpdateStatuses
<1>3. status \in {"PROCESSING", "CANCELED"} /\ b \subseteq task[t].users
      /\ (\A v \in task[t].users : message[v] = "PENDING")
      /\ \A v \in task[t].users : v \notin b \/ task[t].result[v] = None => chat[v] <= faults
  BY <1>1 DEF BInv, TaskOK, ChatOK, At
<1>4. task[t].users \subseteq Users /\ task[t].result \in [Users -> {"SENT", "FAILED", None}]
  BY BTypes DEF Executions
<1>5. \A u \in b : u \in Users /\ message[u] = "PENDING" /\ task[t].result[u] \in {"SENT", "FAILED"}
  BY <1>1, <1>3, <1>4
<1>6. e \in Executions /\ e.pc = "check" /\ e.users = task[t].users \ b /\ task'[t] = e
  BY <1>2, <1>4, StoppedType, BTypes DEF Executions, SendSteps, Stopped
<1> HIDE DEF e
<1>7. ChannelInv' /\ faults' = faults /\ faults' >= faults /\ Recalled(news)' = Recalled(news)
  BY <1>1, Frame
<1>8. message' \in [Users -> MessageStatuses]
  BY <1>2, <1>5, BTypes DEF MessageStatuses
<1>9. \A u \in e.users : message'[u] = "PENDING" /\ chat'[u] <= faults'
  BY <1>1, <1>2, <1>3, <1>4, <1>6, <1>7
<1>10. TaskOK(t)' /\ ChatOK(t)' /\ OverrunOK(t)'
  BY <1>1, <1>3, <1>6, <1>9 DEF TaskOK, ChatOK, OverrunOK, At
<1>11. /\ stats'.success = stats.success + Cardinality(Answered(t, "SENT"))
       /\ stats'.failed = stats.failed + Cardinality(Answered(t, "FAILED"))
       /\ Cardinality(Answered(t, "SENT")) \in Nat /\ Cardinality(Answered(t, "FAILED")) \in Nat
       /\ stats' \in [success : Nat, failed : Nat]
  <2>1. Answered(t, "SENT") \subseteq Users /\ Answered(t, "FAILED") \subseteq Users
    BY <1>3, <1>4 DEF Answered
  <2>2. Cardinality(Answered(t, "SENT")) \in Nat /\ Cardinality(Answered(t, "FAILED")) \in Nat
    BY <2>1, Constants, FS_Subset, FS_CardinalityType
  <2> QED BY <1>2, <2>2, BTypes
<1>12. CountsAddUp'
  <2> DEFINE S == {u \in Users : message[u] \in {"SENT", "DELETED"}}
             F == {u \in Users : message[u] = "FAILED"}
  <2>1. {u \in Users : message'[u] \in {"SENT", "DELETED"}} = S \cup Answered(t, "SENT")
        /\ S \cap Answered(t, "SENT") = {}
    BY <1>2, <1>5 DEF Answered
  <2>2. {u \in Users : message'[u] = "FAILED"} = F \cup Answered(t, "FAILED")
        /\ F \cap Answered(t, "FAILED") = {}
    BY <1>2, <1>5 DEF Answered
  <2>3. IsFiniteSet(S) /\ IsFiniteSet(F) /\ IsFiniteSet(Answered(t, "SENT")) /\ IsFiniteSet(Answered(t, "FAILED"))
    <3>1. S \subseteq Users /\ F \subseteq Users /\ Answered(t, "SENT") \subseteq Users
          /\ Answered(t, "FAILED") \subseteq Users
      BY <1>3, <1>4 DEF Answered
    <3> QED BY <3>1, Constants, FS_Subset
  <2>4. stats.success = Cardinality(S) /\ stats.failed = Cardinality(F)
    BY DEF BInv, CountsAddUp
  <2> HIDE DEF S, F
  <2>5. Cardinality(S \cup Answered(t, "SENT")) = Cardinality(S) + Cardinality(Answered(t, "SENT"))
    BY <2>1, <2>3, DisjointUnion
  <2>6. Cardinality(F \cup Answered(t, "FAILED")) = Cardinality(F) + Cardinality(Answered(t, "FAILED"))
    BY <2>2, <2>3, DisjointUnion
  <2> QED BY <1>11, <2>1, <2>2, <2>4, <2>5, <2>6 DEF CountsAddUp
<1>13. overrun' <= BatchSize /\ (\A u \in Users : chat'[u] <= 1 + faults') /\ e.pc \in LockSteps
  BY <1>1, <1>6, <1>7 DEF BInv, LockSteps, SendSteps
<1>14. status' \in Statuses \ {"none"} /\ status' # "DELETED"
  BY <1>1, <1>3 DEF Statuses
<1> QED BY <1>1, <1>2, <1>6, <1>7, <1>8, <1>10, <1>11, <1>12, <1>13, <1>14, BTypes, HolderKeeps

LEMMA RaisesKeeps == ASSUME BInv, NEW t \in Tasks, SendRaises(t) PROVE BInv'
<1> DEFINE e == [Stopped EXCEPT !.pc = "finish", !.final = "ERROR"]
<1>1. task[t].pc \in LockSteps /\ task[t].pc # "delete" /\ UNCHANGED channelVars
      /\ task' = [task EXCEPT ![t] = e]
      /\ UNCHANGED <<status, message, stats, queued, lock, cancel, chat, overrun>>
  BY DEF SendRaises, LockSteps, SendSteps
<1>2. e \in Executions /\ e.pc = "finish" /\ e.final = "ERROR" /\ task'[t] = e
  BY <1>1, StoppedType, BTypes DEF Executions, SendSteps, Stopped, Statuses
<1> HIDE DEF e
<1>3. ChannelInv' /\ faults' = faults /\ faults' >= faults /\ Recalled(news)' = Recalled(news)
  BY <1>1, Frame
<1>4. TaskOK(t)' /\ ChatOK(t)' /\ OverrunOK(t)' /\ e.pc \in LockSteps
  BY <1>2 DEF TaskOK, ChatOK, OverrunOK, At, Final, LockSteps, SendSteps
<1>5. CountsAddUp' /\ overrun' <= BatchSize /\ \A u \in Users : chat'[u] <= 1 + faults'
  BY <1>1, <1>3 DEF BInv, CountsAddUp
<1>6. status' \in Statuses \ {"none"}
  BY <1>1, OthersRest, BTypes
<1>7. faults' = 0 /\ status' = "DELETED" => Recalled(news)'
  BY <1>1, <1>3 DEF BInv, RecallOK
<1> QED BY <1>1, <1>2, <1>3, <1>4, <1>5, <1>6, <1>7, BTypes, HolderKeeps

LEMMA FinishKeeps == ASSUME BInv, NEW t \in Tasks, FinishBroadcast(t) PROVE BInv'
<1>1. At(t, "finish") /\ status' = task[t].final /\ Ends(t) /\ UNCHANGED channelVars
      /\ UNCHANGED <<message, stats, queued, cancel, chat, overrun>>
      /\ task[t].pc \in LockSteps
  BY DEF FinishBroadcast, At, LockSteps, SendSteps
<1>2. status' \in Final
  BY <1>1 DEF BInv, TaskOK, At
<1>3. status' \in Statuses \ {"none"} /\ status' # "PROCESSING" /\ status' # "DELETED"
  BY <1>2 DEF Final, Statuses
<1> QED BY <1>1, <1>3, EndKeeps

LEMMA ReadForDeleteKeeps == ASSUME BInv, NEW t \in Tasks, ReadForDelete(t) PROVE BInv'
<1>1. At(t, "deleteRead") /\ task[t].pc \in LockSteps /\ UNCHANGED channelVars
      /\ UNCHANGED <<status, message, stats, queued, cancel, chat, overrun>>
  BY DEF ReadForDelete, At, LockSteps, DeleteSteps
<1>2. CASE status = "DELETED"
  <2>1. Ends(t) /\ status' \in Statuses \ {"none"} /\ status' # "PROCESSING"
    BY <1>1, <1>2, BTypes DEF ReadForDelete
  <2> QED BY <1>1, <1>2, <2>1, EndKeeps
<1>3. CASE status # "DELETED"
  <2> DEFINE e == [task[t] EXCEPT !.pc = "recall"]
  <2>1. task' = [task EXCEPT ![t] = e] /\ lock' = lock
    BY <1>3 DEF ReadForDelete, Goto
  <2>2. e \in Executions /\ e.pc = "recall" /\ task'[t] = e
    BY <2>1, BTypes DEF Executions, DeleteSteps
  <2> HIDE DEF e
  <2>3. TaskOK(t)' /\ ChatOK(t)' /\ OverrunOK(t)' /\ e.pc \in LockSteps
    BY <2>2 DEF TaskOK, ChatOK, OverrunOK, At, LockSteps, DeleteSteps
  <2>4. ChannelInv' /\ faults' = faults /\ faults' >= faults /\ Recalled(news)' = Recalled(news)
    BY <1>1, Frame
  <2>5. CountsAddUp' /\ overrun' <= BatchSize /\ \A u \in Users : chat'[u] <= 1 + faults'
    BY <1>1, <2>4 DEF BInv, CountsAddUp
  <2>6. status' = "PROCESSING" => \A u \in Users : Unsent(u)' => chat'[u] <= faults'
    <3>1. ASSUME status = "PROCESSING" PROVE Resumable
      <4>1. \A v \in Tasks : task[v].pc \in Resting \cup {"deleteRead"}
        BY <1>1, OthersRest DEF At
      <4> QED BY <3>1, <4>1 DEF Resumable, Resting
    <3> QED BY <1>1, <2>4, <3>1 DEF BInv, Unsent
  <2>7. status' \in Statuses \ {"none"} /\ status' # "DELETED"
    BY <1>1, <1>3, OthersRest, BTypes
  <2> QED BY <1>1, <2>1, <2>2, <2>3, <2>4, <2>5, <2>6, <2>7, BTypes, HolderKeeps
<1> QED BY <1>2, <1>3

(* The recall leaves nothing of the message that is not revoked.           *)
LEMMA RecallDone ==
  ASSUME ChannelInv, ChannelInv', NEW m \in Messages, Recall(m) PROVE Recalled(m)'
<1>1. \A u \in Users : feed'[m][u] # "shown"
  BY Types DEF Recall, HideFeed, HiddenFeed, FeedType
<1>2. ASSUME NEW k \in Pushes, k.msg = m, row'[k].state \in Active
      PROVE  row'[Revocation(k)].state # "none"
  <2>1. /\ k \in Keys /\ ~k.revokes /\ Revocation(k) \in Keys /\ Revocation(k).revokes
        /\ \A p \in Pushes : Revocation(p).revokes
    BY KeyFacts
  <2>2. row'[k] = CanceledRows(m)[k]
    BY <2>1 DEF Recall, ToRevoke
  <2>3. row[k].state \in {"PROCESSING", "SENT"}
    <3>1. row[k] \in Rows
      BY <2>1, Types
    <3> QED BY <1>2, <2>1, <2>2, <3>1 DEF CanceledRows, Active, Waiting, Rows
  <2>4. k \in ToRevoke(m)
    BY <1>2, <2>3 DEF ToRevoke
  <2>5. CASE row[Revocation(k)] = NoRow
    <3>1. row'[Revocation(k)] = NewRow
      BY <2>1, <2>4, <2>5 DEF Recall
    <3> QED BY <3>1, NewFits
  <2>6. CASE row[Revocation(k)] # NoRow
    <3>1. row'[Revocation(k)] = CanceledRows(m)[Revocation(k)]
      BY <2>1, <2>6 DEF Recall
    <3>2. row'[Revocation(k)] = row[Revocation(k)]
      BY <2>1, <3>1 DEF CanceledRows
    <3> QED BY <2>1, <2>6, <3>2, Types DEF RowFits
  <2> QED BY <2>5, <2>6
<1> QED BY <1>1, <1>2 DEF Recalled

LEMMA RecallCopiesKeeps == ASSUME BInv, NEW t \in Tasks, RecallCopies(t) PROVE BInv'
<1> DEFINE e == [task[t] EXCEPT !.pc = "delete", !.users = {u \in Users : message[u] = "SENT"}]
<1>1. At(t, "recall") /\ task[t].pc \in LockSteps /\ task' = [task EXCEPT ![t] = e]
      /\ UNCHANGED <<owner, consent, worker, sent, late>>
      /\ UNCHANGED <<status, message, stats, queued, lock, cancel, chat, overrun>>
  BY BTypes DEF RecallCopies, At, LockSteps, DeleteSteps
<1>2. /\ e \in Executions /\ e.pc = "delete" /\ task'[t] = e
      /\ e.users = {u \in Users : message[u] = "SENT"}
  BY <1>1, BTypes DEF Executions, DeleteSteps
<1> HIDE DEF e
<1>3. \/ Recall(news) /\ faults' = faults
      \/ Fault /\ UNCHANGED <<row, feed>>
  BY DEF RecallCopies
<1>4. ChannelInv' /\ faults \in Nat /\ faults' \in Nat /\ faults' >= faults
      /\ (faults' = 0 => Recalled(news)')
  <2>1. CASE Recall(news) /\ faults' = faults
    <3>1. ChannelInv'
      BY <1>1, <2>1, BTypes, Constants, RecallKeeps
    <3> QED BY <2>1, <3>1, BTypes, Constants, RecallDone
  <2>2. CASE Fault /\ UNCHANGED <<row, feed>>
    <3>1. ChannelInv'
      BY <1>1, <2>2, BTypes, FaultKeeps
    <3> QED BY <2>2, <3>1, BTypes DEF Fault
  <2> QED BY <1>3, <2>1, <2>2
<1>5. TaskOK(t)' /\ ChatOK(t)' /\ OverrunOK(t)' /\ e.pc \in LockSteps
  BY <1>1, <1>2 DEF TaskOK, ChatOK, OverrunOK, At, LockSteps, DeleteSteps
<1>6. CountsAddUp' /\ overrun' <= BatchSize
  BY <1>1 DEF BInv, CountsAddUp
<1>7. ASSUME NEW u \in Users
      PROVE  chat'[u] <= 1 + faults' /\ (status' = "PROCESSING" /\ Unsent(u)' => chat'[u] <= faults')
  <2>1. status = "PROCESSING" => Resumable
    <3>1. \A v \in Tasks : task[v].pc \in Resting \cup {"recall"}
      BY <1>1, OthersRest DEF At
    <3> QED BY <3>1 DEF Resumable, Resting
  <2>2. chat[u] <= 1 + faults /\ (status = "PROCESSING" /\ Unsent(u) => chat[u] <= faults)
        /\ chat[u] \in Nat
    BY <2>1, BTypes DEF BInv
  <2>3. Unsent(u)' <=> Unsent(u)
    BY <1>1 DEF Unsent
  <2> QED BY <1>1, <1>4, <2>2, <2>3
<1>8. status' \in Statuses \ {"none"}
  BY <1>1, OthersRest, BTypes
<1> QED BY <1>1, <1>2, <1>4, <1>5, <1>6, <1>7, <1>8, BTypes, HolderKeeps

LEMMA DeleteBatchKeeps == ASSUME BInv, NEW t \in Tasks, DeleteBatch(t) PROVE BInv'
<1>1. At(t, "delete") /\ task[t].pc \in LockSteps /\ UNCHANGED channelVars
      /\ UNCHANGED <<status, stats, queued, lock, cancel, chat, overrun>>
  BY DEF DeleteBatch, At, LockSteps, DeleteSteps
<1>2. PICK b \in SUBSET task[t].users, gone \in SUBSET task[t].users :
       /\ gone \subseteq b
       /\ message' = [u \in Users |-> IF u \in gone THEN "DELETED" ELSE message[u]]
       /\ task' = [task EXCEPT ![t].users = @ \ b]
  BY DEF DeleteBatch
<1> DEFINE e == [task[t] EXCEPT !.users = @ \ b]
<1>3. \A u \in task[t].users : message[u] = "SENT" /\ u \in Users
  BY <1>1, BTypes DEF BInv, TaskOK, At, Executions
<1>4. e \in Executions /\ e.pc = "delete" /\ e.users = task[t].users \ b /\ task'[t] = e
      /\ task' = [task EXCEPT ![t] = e]
  BY <1>1, <1>2, BTypes DEF Executions, At
<1> HIDE DEF e
<1>5. ChannelInv' /\ faults' = faults /\ faults' >= faults /\ Recalled(news)' = Recalled(news)
  BY <1>1, Frame
<1>6. message' \in [Users -> MessageStatuses]
  BY <1>2, BTypes DEF MessageStatuses
<1>7. TaskOK(t)' /\ ChatOK(t)' /\ OverrunOK(t)' /\ e.pc \in LockSteps
  BY <1>1, <1>2, <1>3, <1>4 DEF TaskOK, ChatOK, OverrunOK, At, LockSteps, DeleteSteps
<1>8. CountsAddUp'
  <2>1. {u \in Users : message'[u] \in {"SENT", "DELETED"}} = {u \in Users : message[u] \in {"SENT", "DELETED"}}
    BY <1>2, <1>3
  <2>2. {u \in Users : message'[u] = "FAILED"} = {u \in Users : message[u] = "FAILED"}
    BY <1>2, <1>3
  <2> QED BY <1>1, <2>1, <2>2 DEF BInv, CountsAddUp
<1>9. overrun' <= BatchSize /\ \A u \in Users : chat'[u] <= 1 + faults'
  BY <1>1, <1>5 DEF BInv
<1>10. status' = "PROCESSING" => \A u \in Users : Unsent(u)' => chat'[u] <= faults'
  <2>1. status = "PROCESSING" => Resumable
    <3>1. \A v \in Tasks : task[v].pc \in Resting \cup {"delete"}
      BY <1>1, OthersRest DEF At
    <3> QED BY <3>1 DEF Resumable, Resting
  <2>2. \A u \in Users : Unsent(u)' => Unsent(u)
    BY <1>2 DEF Unsent
  <2> QED BY <1>1, <1>5, <2>1, <2>2 DEF BInv
<1>11. status' \in Statuses \ {"none"}
  BY <1>1, OthersRest, BTypes
<1>12. faults' = 0 => Recalled(news)'
  BY <1>1, <1>5 DEF BInv, RecallOK
<1> QED BY <1>1, <1>4, <1>5, <1>6, <1>7, <1>8, <1>9, <1>10, <1>11, <1>12, BTypes, HolderKeeps

LEMMA FinishDeletionKeeps == ASSUME BInv, NEW t \in Tasks, FinishDeletion(t) PROVE BInv'
<1>1. At(t, "delete") /\ status' = "DELETED" /\ Ends(t) /\ UNCHANGED channelVars
      /\ UNCHANGED <<message, stats, queued, cancel, chat, overrun>>
      /\ task[t].pc \in LockSteps
  BY DEF FinishDeletion, At, LockSteps, DeleteSteps
<1> QED BY <1>1, EndKeeps DEF Statuses

(* After a crash everything that was sent is within the bound.             *)
LEMMA CrashTaskKeeps == ASSUME BInv, NEW t \in Tasks, CrashTask(t) PROVE BInv'
<1>1. /\ ~At(t, "idle") /\ Fault /\ task' = [task EXCEPT ![t] = Stopped]
      /\ lock' = (IF lock = t THEN None ELSE lock)
      /\ UNCHANGED <<row, feed, owner, consent, worker, sent, late>>
      /\ UNCHANGED <<status, message, stats, queued, cancel, chat, overrun>>
  BY DEF CrashTask
<1>2. ChannelInv' /\ faults' = faults + 1 /\ faults \in Nat
  BY <1>1, BTypes, FaultKeeps DEF Fault
<1>3. task'[t] = Stopped /\ (\A v \in Tasks \ {t} : task'[v] = task[v])
      /\ task' \in [Tasks -> Executions]
  BY <1>1, StoppedType, BTypes
<1>4. \A u \in Users : chat'[u] \in Nat /\ chat'[u] <= faults'
  BY <1>1, <1>2, BTypes DEF BInv
<1>5. TypeOK'
  <2>1. lock' \in Tasks \cup {None}
    BY <1>1, BTypes
  <2> QED BY <1>1, <1>2, <1>3, <2>1, ChannelTypes, BTypes DEF TypeOK
<1>6. Mutex'
  <2>1. task'[t].pc \notin LockSteps
    BY <1>3, StoppedType DEF LockSteps, SendSteps, DeleteSteps
  <2> QED BY <1>1, <1>3, <2>1, Constants DEF BInv, Mutex
<1>7. ASSUME NEW v \in Tasks PROVE TaskOK(v)' /\ ChatOK(v)' /\ OverrunOK(v)'
  <2>1. CASE v = t
    BY <1>3, <2>1, StoppedType DEF TaskOK, ChatOK, OverrunOK, At
  <2>2. CASE v # t
    <3>1. TaskOK(v) /\ OverrunOK(v) /\ task'[v] = task[v]
      BY <1>3, <2>2 DEF BInv
    <3>2. TaskOK(v)' /\ OverrunOK(v)'
      BY <1>1, <3>1 DEF TaskOK, OverrunOK, At, Unanswered
    <3>3. ChatOK(v)'
      BY <1>3, <1>4 DEF ChatOK, At, Executions
    <3> QED BY <3>2, <3>3
  <2> QED BY <2>1, <2>2
<1>8. NotStarted' /\ CountsAddUp' /\ overrun' <= BatchSize
  <2>1. status # "none"
    BY <1>1 DEF BInv, NotStarted
  <2> QED BY <1>1, <2>1 DEF BInv, NotStarted, CountsAddUp
<1>9. \A u \in Users : chat'[u] <= 1 + faults'
  BY <1>2, <1>4
<1>10. RecallOK'
  BY <1>2 DEF RecallOK
<1> QED BY <1>2, <1>4, <1>5, <1>6, <1>7, <1>8, <1>9, <1>10 DEF BInv

-----------------------------------------------------------------------------
LEMMA BInit == Init => BInv
<1> SUFFICES ASSUME Init PROVE BInv
  OBVIOUS
<1>1. /\ status = "none" /\ message = [u \in Users |-> "none"]
      /\ stats = [success |-> 0, failed |-> 0] /\ queued = {} /\ lock = None
      /\ task = [t \in Tasks |-> Stopped] /\ cancel = "idle"
      /\ chat = [u \in Users |-> 0] /\ overrun = 0
  BY DEF Init
<1>2. ChannelInv /\ ChannelTypeOK /\ faults = 0
  BY ChannelStarts DEF Init, ChannelInit, ChannelInv
<1>3. TypeOK
  BY <1>1, <1>2, StoppedType DEF TypeOK, Statuses, MessageStatuses
<1>4. \A t \in Tasks : task[t].pc = "idle"
  BY <1>1, StoppedType
<1>5. Mutex /\ NotStarted
  BY <1>1, <1>4, Constants DEF Mutex, NotStarted, At, LockSteps, SendSteps, DeleteSteps
<1>6. \A t \in Tasks : TaskOK(t) /\ ChatOK(t) /\ OverrunOK(t)
  BY <1>4, RestingOK DEF Resting
<1>7. CountsAddUp
  <2>1. {u \in Users : message[u] \in {"SENT", "DELETED"}} = {} /\ {u \in Users : message[u] = "FAILED"} = {}
    BY <1>1
  <2> QED BY <1>1, <2>1, FS_EmptySet DEF CountsAddUp
<1>8. overrun <= BatchSize /\ \A u \in Users : chat[u] <= faults /\ chat[u] <= 1 + faults
  BY <1>1, <1>2, Constants
<1>9. RecallOK
  BY <1>1, <1>4 DEF RecallOK, At
<1> QED BY <1>2, <1>3, <1>5, <1>6, <1>7, <1>8, <1>9 DEF BInv

LEMMA BStep == BInv /\ [Next]_vars => BInv'
<1> SUFFICES ASSUME BInv, [Next]_vars PROVE BInv'
  OBVIOUS
<1>1. CASE UNCHANGED vars
  BY <1>1, StutterKeeps
<1>2. CASE StartBroadcast \/ Dispatch \/ DeleteBroadcast \/ ReadForCancel
  BY <1>2, StartKeeps, DispatchKeeps
<1>3. CASE WriteCanceled \/ CancelCopies \/ HideCanceled
  BY <1>3, WriteCanceledKeeps, CancelCopiesKeeps, HideCanceledKeeps
<1>4. ASSUME NEW t \in Tasks, TaskStep(t) PROVE BInv'
  <2>1. CASE Acquire(t)
    BY <2>1, StartTaskKeeps
  <2>2. CASE ReadForSend(t) \/ CopyToChannels(t) \/ InitializeMessages(t) \/ CheckCanceled(t)
    BY <2>2, ReadForSendKeeps, CopyKeeps, InitializeKeeps, CheckKeeps
  <2>3. CASE UpdateStatuses(t) \/ SendRaises(t) \/ FinishBroadcast(t) \/ \E u \in Users : SendOne(t, u)
    BY <2>3, UpdateKeeps, RaisesKeeps, FinishKeeps, SendOneKeeps
  <2>4. CASE ReadForDelete(t) \/ RecallCopies(t) \/ DeleteBatch(t) \/ FinishDeletion(t)
    BY <2>4, ReadForDeleteKeeps, RecallCopiesKeeps, DeleteBatchKeeps, FinishDeletionKeeps
  <2> QED BY <1>4, <2>1, <2>2, <2>3, <2>4 DEF TaskStep
<1>5. ASSUME NEW t \in Tasks, CrashTask(t) PROVE BInv'
  BY <1>5, CrashTaskKeeps
<1>6. ASSUME NEW t \in Tasks, NEW kind \in {"send", "delete"}, StartTask(t, kind) PROVE BInv'
  BY <1>6, StartTaskKeeps
<1>7. ASSUME NEW m \in Messages, NEW u \in Users, NotifyUser(m, u) PROVE BInv'
  BY <1>7, NotifyKeeps
<1>8. CASE ChannelNext /\ UNCHANGED broadcastVars
  BY <1>8, ChannelsKeep
<1> QED BY <1>1, <1>2, <1>3, <1>4, <1>5, <1>6, <1>7, <1>8 DEF Next

LEMMA BInvariant == Spec => []BInv
BY BInit, BStep, PTL DEF Spec

(* Every column, queue entry and program counter keeps the values the code *)
(* gives it.                                                               *)
THEOREM TypeCorrect == Spec => []TypeOK
<1>1. BInv => TypeOK
  BY DEF BInv
<1> QED BY <1>1, BInvariant, PTL

(* However runs and repeated tasks overlap, a chat and a server get a copy *)
(* once, and once more at most for each fault.                             *)
THEOREM Once == Spec => []SentOnce
<1>1. BInv => SentOnce
  BY ChannelPromises DEF BInv, SentOnce
<1> QED BY <1>1, BInvariant, PTL

(* An opt-out is overtaken by the one mail under way, and one per fault.   *)
THEOREM OptOut == Spec => []OptOutWins
<1>1. BInv => OptOutWins
  BY ChannelPromises DEF BInv
<1> QED BY <1>1, BInvariant, PTL

(* The administrator's counters are those of the messages.                 *)
THEOREM Counted == Spec => []CountsAddUp
<1>1. BInv => CountsAddUp
  BY DEF BInv
<1> QED BY <1>1, BInvariant, PTL

(* After a cancellation at most the batch under way still leaves.          *)
THEOREM Stopping == Spec => []CancelStops
<1>1. BInv => CancelStops
  BY DEF BInv, CancelStops
<1> QED BY <1>1, BInvariant, PTL

(* A deleted broadcast is in no feed, and every push of it that was        *)
(* delivered or may still be has its revocation queued, unless something   *)
(* failed.  In which order the two arrive it does not say.                 *)
THEOREM Recalling == Spec => []RecallMissesNoPush
<1>1. ASSUME BInv PROVE RecallMissesNoPush
  <2>1. status = "DELETED" /\ faults = 0 => Recalled(news)
    BY <1>1 DEF BInv, RecallOK
  <2> QED BY <2>1 DEF RecallMissesNoPush, Recalled, Active
<1> QED BY <1>1, BInvariant, PTL
=============================================================================
