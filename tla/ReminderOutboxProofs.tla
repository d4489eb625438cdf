------------------------ MODULE ReminderOutboxProofs ------------------------
(***************************************************************************)
(* Theorems about ReminderOutbox, for any number of runs, thresholds, days *)
(* and faults: types, how often and in which order a reminder leaves, and  *)
(* what still leaves after the user changed his mind.                      *)
(***************************************************************************)
EXTENDS ReminderOutbox, Counting

\* Runs that go on although they do not hold the run lock.
Rogue == {w \in Workers : worker[w].pc # "idle" /\ w # runLock}

\* Runs that may still hand reminder id to the mail server.
Pending(id) == {w \in Workers : worker[w].id = id /\ worker[w].pc \in {"prepare", "send"}}

\* Runs past their last check of a reminder that is no longer wanted.
Astray == {w \in Workers : worker[w].pc = "send" /\ Unwanted(worker[w].id)}

\* The run that will close the row, unless something fails.
Carries(w, id) ==
  /\ worker[w].id = id
  /\ \/ worker[w].pc \in {"prepare", "send"}
     \/ worker[w].pc = "sending" /\ worker[w].answer = "sent"
Carried(id) == row[id].live /\ \E w \in Workers : row[id].token = w /\ Carries(w, id)

\* Reminder id cannot be claimed again unless something fails.
Spent(id) == row[id].state \in Terminal \/ Carried(id)

\* Reminder id left after a later one, or is about to.
Behind(id) ==
  \/ backwards[id] > 0
  \/ Overtaken(id) /\ \E w \in Workers : worker[w].pc = "send" /\ worker[w].id = id

\* How often reminder id left and may still leave, and the faults that are in the runs.
Load(id) == mailed[id] + Cardinality(Pending(id))
Rogues == Cardinality(Rogue)

\* Each mail beyond the first costs a fault, and so does an overtaken one: two
\* runs were at work, of which one had lost the lock.
Within(id, n) == Load(id) + Rogues <= n /\ (Behind(id) => Load(id) + 1 <= n)
Budget(id) == Within(id, faults + 1) /\ (~Spent(id) => Within(id, faults))

RowOK(id) ==
  /\ row[id].live => row[id].state = "PROCESSING"
  /\ backwards[id] <= mailed[id]
  /\ mailed[id] > 0 => row[id].state # "none" /\ Due(id) <= now

RunOK(w) ==
  /\ worker[w].pc \in {"prepare", "send", "sending"} =>
       worker[w].id \in Reminders /\ Due(worker[w].id) <= now /\ row[worker[w].id].state # "none"
  /\ worker[w].pc = "sending" => worker[w].answer \in Answers
  /\ ~worker[w].fenced => worker[w].pc \in {"send", "sending"} /\ ~HoldsLive(w)

OutboxInv ==
  /\ TypeOK
  /\ \A id \in Reminders : RowOK(id) /\ Budget(id)
  /\ \A w \in Workers : RunOK(w)
  /\ Rogues <= faults
  /\ late + Cardinality(Astray) <= 1 + faults

-----------------------------------------------------------------------------
(* Types and sizes.                                                        *)

LEMMA SetsFinite ==
  /\ IsFiniteSet(Workers) /\ IsFiniteSet(Rogue) /\ IsFiniteSet(Astray)
  /\ Cardinality(Rogue) \in Nat /\ Cardinality(Astray) \in Nat
  /\ \A id : IsFiniteSet(Pending(id)) /\ Cardinality(Pending(id)) \in Nat
<1>1. IsFiniteSet(Workers)
  BY ReminderConstants
<1>2. ASSUME NEW S \in SUBSET Workers PROVE IsFiniteSet(S) /\ Cardinality(S) \in Nat
  BY <1>1, SmallerSet
<1>3. Rogue \in SUBSET Workers /\ Astray \in SUBSET Workers
  BY DEF Rogue, Astray
<1>4. \A id : Pending(id) \in SUBSET Workers
  BY DEF Pending
<1> HIDE DEF Rogue, Astray, Pending
<1> QED BY <1>1, <1>2, <1>3, <1>4

LEMMA Fields ==
  ASSUME TypeOK
  PROVE  /\ \A w \in Workers :
              /\ worker[w] \in Runs
              /\ worker[w].pc \in {"idle", "claim", "prepare", "send", "sending"}
              /\ worker[w].id \in Reminders \cup {None}
              /\ worker[w].fenced \in BOOLEAN
              /\ worker[w].answer \in Answers \cup {None}
         /\ \A id \in Reminders :
              /\ row[id] \in Rows
              /\ row[id].state \in {"none", "WAITING", "PROCESSING"} \cup Terminal
              /\ row[id].token \in Workers \cup {None}
              /\ row[id].live \in BOOLEAN
BY DEF TypeOK, Runs, Rows

LEMMA ReminderFacts ==
  ASSUME NEW id \in Reminders
  PROVE  id.expire \in 0 .. MaxDay /\ id.expire \in Nat /\ id.before \in Nat /\ Due(id) \in Int
<1>1. MaxDay \in Nat /\ Thresholds \subseteq Nat
  BY ReminderConstants
<1>2. id.expire \in 0 .. MaxDay /\ id.before \in Thresholds
  BY DEF Reminders
<1>3. \A n \in Nat : \A e \in 0 .. n : \A b \in Nat : e \in Nat /\ e - b \in Int
  OBVIOUS
<1>4. id.before \in Nat
  BY <1>1, <1>2
<1> QED BY <1>1, <1>2, <1>3, <1>4 DEF Due

\* A row that a run lets go of.
LEMMA ReleasedFits ==
  ASSUME NEW r \in Rows, NEW s \in Terminal \cup {"WAITING"}
  PROVE  /\ Released(r, s) \in Rows
         /\ Released(r, s).state = s /\ Released(r, s).token = None /\ ~Released(r, s).live
BY DEF Released, Rows, Terminal

LEMMA ResultFits ==
  ASSUME NEW r \in Rows, NEW a \in Answers
  PROVE  \E s \in {"SENT", "FAILED", "WAITING"} :
           /\ Result(r, a) = Released(r, s)
           /\ s = "WAITING" <=> a \in {"retry", "deferred"}
BY DEF Result, Answers

LEMMA ClaimedFits ==
  ASSUME NEW r \in Rows, NEW w \in Workers
  PROVE  LET c == [r EXCEPT !.state = "PROCESSING", !.token = w, !.live = TRUE] IN
         c \in Rows /\ c.state = "PROCESSING" /\ c.token = w /\ c.live
BY DEF Rows

LEMMA RunFits ==
  /\ \A s \in {"idle", "claim"} : At(s) \in Runs /\ At(s).pc = s /\ At(s).fenced = TRUE
  /\ Idle = At("idle")
  /\ \A id \in Reminders :
       LET p == [At("prepare") EXCEPT !.id = id] IN
       p \in Runs /\ p.pc = "prepare" /\ p.id = id /\ p.fenced = TRUE
BY DEF At, Idle, Runs

\* Rows keep their type and the processing fence when one of them is written.
RowsOK == /\ row \in [Reminders -> Rows]
          /\ \A id \in Reminders : row[id].state = "PROCESSING" <=> row[id].token # None

LEMMA RowWritten ==
  ASSUME TypeOK, NEW id \in Reminders, NEW r \in Rows,
         r.state = "PROCESSING" <=> r.token # None,
         row' = [row EXCEPT ![id] = r]
  PROVE  RowsOK'
BY DEF TypeOK, RowsOK

\* Letting go of a row if the run still holds it.
LEMMA LetGo ==
  ASSUME TypeOK, NEW w \in Workers, worker[w].id \in Reminders,
         NEW s \in Terminal \cup {"WAITING"}, WriteResult(w, Released(row[worker[w].id], s))
  PROVE  /\ RowsOK'
         /\ row' = IF Holds(w) THEN [row EXCEPT ![worker[w].id] = Released(row[worker[w].id], s)]
                               ELSE row
<1>1. PICK id \in Reminders : id = worker[w].id
  OBVIOUS
<1>2. row[id] \in Rows /\ row \in [Reminders -> Rows]
  BY DEF TypeOK
<1>3. CASE Holds(w)
  <2>1. row' = [row EXCEPT ![id] = Released(row[id], s)]
    BY <1>1, <1>3 DEF WriteResult
  <2>2. Released(row[id], s) \in Rows /\ Released(row[id], s).state # "PROCESSING"
        /\ Released(row[id], s).token = None
    BY <1>2, ReleasedFits DEF Terminal
  <2> QED BY <1>1, <1>3, <2>1, <2>2, RowWritten
<1>4. CASE ~Holds(w)
  <2>1. row' = row
    BY <1>1, <1>2, <1>4 DEF WriteResult
  <2> QED BY <1>4, <2>1 DEF TypeOK, RowsOK
<1> QED BY <1>3, <1>4

LEMMA TypeStep == OutboxInv /\ [Next]_vars => TypeOK'
<1> SUFFICES ASSUME OutboxInv, [Next]_vars PROVE TypeOK'
  OBVIOUS
<1> USE ReminderConstants
<1>0. TypeOK /\ RowsOK
  BY DEF OutboxInv, TypeOK, RowsOK
<1>1. CASE UNCHANGED vars
  BY <1>0, <1>1 DEF TypeOK, vars, userVars, mailVars
<1>2. CASE Tick
  <2>1. now' \in 0 .. MaxDay
    BY <1>0, <1>2 DEF TypeOK, Tick
  <2> QED BY <1>0, <1>2, <2>1 DEF TypeOK, Tick, userVars, mailVars
<1>3. CASE SetFit
  BY <1>0, <1>3 DEF TypeOK, SetFit
<1>4. CASE Generate
  <2> DEFINE new == [NoRow EXCEPT !.state = "WAITING"]
  <2>1. new \in Rows /\ new.state = "WAITING" /\ new.token = None
    BY DEF NoRow, Rows
  <2> HIDE DEF new
  <2>2. row' = [id \in Reminders |-> IF id.expire = expire /\ Due(id) >= now THEN new ELSE row[id]]
    BY <1>4 DEF Generate, new
  <2>3. RowsOK'
    BY <1>0, <2>1, <2>2 DEF RowsOK
  <2> QED BY <1>0, <1>4, <2>3 DEF TypeOK, RowsOK, Generate, userVars, mailVars
<1>5. CASE LockExpires
  <2>1. faults' \in 0 .. MaxFaults
    BY <1>0, <1>5 DEF TypeOK, LockExpires, Fault
  <2> QED BY <1>0, <1>5, <2>1 DEF TypeOK, LockExpires, userVars, mailVars
<1>6. ASSUME NEW e \in 0 .. MaxDay, MoveExpiry(e) PROVE TypeOK'
  BY <1>0, <1>6 DEF TypeOK, MoveExpiry
<1>7. ASSUME NEW on \in BOOLEAN, SetConsent(on) PROVE TypeOK'
  BY <1>0, <1>7 DEF TypeOK, SetConsent
<1>8. ASSUME NEW id \in Reminders, LeaseExpires(id) PROVE TypeOK'
  <2>1. [row[id] EXCEPT !.live = FALSE] \in Rows
        /\ [row[id] EXCEPT !.live = FALSE].state = row[id].state
        /\ [row[id] EXCEPT !.live = FALSE].token = row[id].token
    BY <1>0, Fields DEF Rows
  <2>2. row' = [row EXCEPT ![id] = [row[id] EXCEPT !.live = FALSE]]
    BY <1>8 DEF LeaseExpires
  <2>3. RowsOK'
    BY <1>0, <2>1, <2>2, RowWritten DEF RowsOK
  <2>4. faults' \in 0 .. MaxFaults
    BY <1>0, <1>8 DEF TypeOK, LeaseExpires, Fault
  <2> QED BY <1>0, <1>8, <2>3, <2>4 DEF TypeOK, RowsOK, LeaseExpires, userVars, mailVars
<1>9. ASSUME NEW w \in Workers, StartRun(w) PROVE TypeOK'
  <2>1. \A id \in Reminders : Released(row[id], "CANCELED") \in Rows
          /\ Released(row[id], "CANCELED").state = "CANCELED"
          /\ Released(row[id], "CANCELED").token = None
    BY <1>0, Fields, ReleasedFits DEF Terminal
  <2>2. row' = [id \in Reminders |-> IF Undeliverable(id) THEN Released(row[id], "CANCELED") ELSE row[id]]
    BY <1>9 DEF StartRun
  <2>3. RowsOK'
    BY <1>0, <2>1, <2>2 DEF RowsOK
  <2> QED BY <1>0, <1>9, <2>3, RunFits DEF TypeOK, RowsOK, StartRun, userVars, mailVars
<1>10. ASSUME NEW w \in Workers, EndRun(w) PROVE TypeOK'
  BY <1>0, <1>10, RunFits DEF TypeOK, EndRun, userVars, mailVars
<1>11. ASSUME NEW w \in Workers, NEW id \in Reminders, ClaimDue(w, id) PROVE TypeOK'
  <2> DEFINE c == [row[id] EXCEPT !.state = "PROCESSING", !.token = w, !.live = TRUE]
  <2>0. row[id] \in Rows /\ w # None
    BY <1>0, Fields
  <2>1. c \in Rows /\ c.state = "PROCESSING" /\ c.token = w
    BY <2>0, ClaimedFits
  <2>2. row' = [row EXCEPT ![id] = c]
    BY <1>11 DEF ClaimDue
  <2> HIDE DEF c
  <2>3. RowsOK'
    BY <1>0, <2>0, <2>1, <2>2, RowWritten
  <2>4. worker' \in [Workers -> Runs]
    BY <1>0, <1>11, RunFits DEF TypeOK, ClaimDue
  <2> QED BY <1>0, <1>11, <2>3, <2>4 DEF TypeOK, RowsOK, ClaimDue, userVars, mailVars
<1>12. ASSUME NEW w \in Workers, worker[w].pc \in {"prepare", "send", "sending"}
       PROVE  worker[w].id \in Reminders /\ worker[w] \in Runs
  BY <1>0, <1>12 DEF OutboxInv, RunOK, TypeOK
<1>13. ASSUME NEW w \in Workers, Prepare(w) PROVE TypeOK'
  <2>1. worker[w].id \in Reminders
    BY <1>12, <1>13 DEF Prepare
  <2>2. UNCHANGED row \/ WriteResult(w, Released(row[worker[w].id], "CANCELED"))
    BY <1>13 DEF Prepare
  <2>3. RowsOK'
    <3>1. CASE UNCHANGED row
      BY <1>0, <3>1 DEF RowsOK
    <3>2. CASE WriteResult(w, Released(row[worker[w].id], "CANCELED"))
      BY <1>0, <2>1, <3>2, LetGo DEF Terminal
    <3> QED BY <2>2, <3>1, <3>2
  <2>4. worker' = [worker EXCEPT ![w].pc = "send"] \/ worker' = [worker EXCEPT ![w] = At("claim")]
    BY <1>13 DEF Prepare
  <2>5. worker' \in [Workers -> Runs]
    <3>1. At("claim") \in Runs
      BY RunFits
    <3>2. [worker[w] EXCEPT !.pc = "send"] \in Runs
      BY <1>12, <1>13 DEF Prepare, Runs
    <3> QED BY <1>0, <2>4, <3>1, <3>2 DEF TypeOK
  <2> QED BY <1>0, <1>13, <2>3, <2>5 DEF TypeOK, RowsOK, Prepare, userVars, mailVars
<1>14. ASSUME NEW w \in Workers, SendMail(w) PROVE TypeOK'
  <2>0. worker[w].id \in Reminders
    BY <1>12, <1>14 DEF SendMail
  <2>1. PICK a \in Answers :
          /\ worker' = [worker EXCEPT ![w].pc = "sending", ![w].answer = a]
          /\ \/ Accepted(worker[w].id) /\ (faults' = faults \/ Fault)
             \/ UNCHANGED <<mailVars, faults>>
    BY <1>14 DEF SendMail
  <2>2. worker' \in [Workers -> Runs]
    <3>1. worker[w] \in Runs
      BY <1>0, Fields
    <3>2. [worker[w] EXCEPT !.pc = "sending", !.answer = a] \in Runs
      BY <3>1 DEF Runs
    <3> QED BY <1>0, <2>1, <3>2 DEF TypeOK
  <2>3. faults' \in 0 .. MaxFaults
    BY <1>0, <2>1 DEF TypeOK, Fault
  <2>4. mailed' \in [Reminders -> Nat] /\ late' \in Nat
    BY <1>0, <2>1 DEF TypeOK, Accepted, mailVars
  <2>5. backwards' \in [Reminders -> Nat]
    <3>1. \/ backwards' = [backwards EXCEPT ![worker[w].id] = backwards[worker[w].id] + 1]
          \/ backwards' = backwards
      BY <2>1 DEF Accepted, mailVars
    <3>2. backwards[worker[w].id] + 1 \in Nat
      BY <1>0, <2>0 DEF TypeOK
    <3> QED BY <1>0, <3>1, <3>2 DEF TypeOK
  <2> QED BY <1>0, <1>14, <2>2, <2>3, <2>4, <2>5 DEF TypeOK, SendMail, userVars
<1>15. ASSUME NEW w \in Workers, LoseFence(w) PROVE TypeOK'
  <2>1. worker' \in [Workers -> Runs]
    <3>1. worker[w] \in Runs
      BY <1>0, Fields
    <3>2. [worker[w] EXCEPT !.fenced = FALSE] \in Runs
      BY <3>1 DEF Runs
    <3> QED BY <1>0, <1>15, <3>2 DEF TypeOK, LoseFence
  <2> QED BY <1>0, <1>15, <2>1 DEF TypeOK, LoseFence, userVars, mailVars
<1>16. ASSUME NEW w \in Workers, Record(w) PROVE TypeOK'
  <2>1. worker[w].id \in Reminders /\ row[worker[w].id] \in Rows /\ worker[w] \in Runs
    BY <1>0, <1>12, <1>16 DEF Record, TypeOK
  <2>2. CASE UNCHANGED row
    <3>1. RowsOK'
      BY <1>0, <2>2 DEF RowsOK
    <3> QED BY <1>0, <1>16, <3>1, RunFits DEF TypeOK, RowsOK, Record, userVars, mailVars
  <2>3. CASE WriteResult(w, Result(row[worker[w].id], worker[w].answer))
    <3>1. worker[w].answer \in Answers
      BY <1>16 DEF Record, OutboxInv, RunOK
    <3>2. PICK s \in {"SENT", "FAILED", "WAITING"} :
              Result(row[worker[w].id], worker[w].answer) = Released(row[worker[w].id], s)
      BY <2>1, <3>1, ResultFits
    <3>3. RowsOK'
      BY <1>0, <2>1, <2>3, <3>2, LetGo DEF Terminal
    <3> QED BY <1>0, <1>16, <3>3, RunFits DEF TypeOK, RowsOK, Record, userVars, mailVars
  <2> QED BY <1>16, <2>2, <2>3 DEF Record
<1>17. ASSUME NEW w \in Workers, GiveBack(w) PROVE TypeOK'
  <2>1. RowsOK'
    BY <1>0, <1>12, <1>17, LetGo DEF GiveBack
  <2> QED BY <1>0, <1>17, <2>1, RunFits DEF TypeOK, RowsOK, GiveBack, userVars, mailVars
<1>18. ASSUME NEW w \in Workers, Interrupt(w) PROVE TypeOK'
  BY <1>0, <1>18, RunFits DEF TypeOK, Interrupt, userVars, mailVars
<1>19. ASSUME NEW w \in Workers, CrashRun(w) PROVE TypeOK'
  <2>1. faults' \in 0 .. MaxFaults
    BY <1>0, <1>19 DEF TypeOK, CrashRun, Fault
  <2> QED BY <1>0, <1>19, <2>1, RunFits DEF TypeOK, CrashRun, userVars, mailVars
<1> QED
  <2>1. CASE Next
    BY <1>2, <1>3, <1>4, <1>5, <1>6, <1>7, <1>8, <1>9, <1>10, <1>11, <1>13, <1>14, <1>15, <1>16,
       <1>17, <1>18, <1>19, <2>1 DEF Next, WorkerStep
  <2> QED BY <1>1, <2>1

-----------------------------------------------------------------------------
(* What a step does to the rows and to the runs.                           *)

\* A step that claims nothing leaves a live row alone or ends its lease, and
\* never takes a row away.
RowQuiet(id) ==
  /\ row'[id].live => row'[id] = row[id]
  /\ row[id].state # "none" => row'[id].state # "none"

Unclaimed ==
  \/ Tick \/ SetFit \/ Generate \/ LockExpires
  \/ \E e \in 0 .. MaxDay : MoveExpiry(e)
  \/ \E on \in BOOLEAN : SetConsent(on)
  \/ \E id \in Reminders : LeaseExpires(id)
  \/ \E w \in Workers :
       \/ EndRun(w) \/ Prepare(w) \/ SendMail(w) \/ Record(w) \/ GiveBack(w)
       \/ StartRun(w) \/ LoseFence(w) \/ Interrupt(w) \/ CrashRun(w)

LEMMA NextCases ==
  ASSUME [Next]_vars
  PROVE  \/ UNCHANGED vars
         \/ Unclaimed
         \/ \E w \in Workers, id \in Reminders : ClaimDue(w, id)
BY DEF Next, Unclaimed, WorkerStep

LEMMA RowsQuiet ==
  ASSUME OutboxInv, Unclaimed, NEW id \in Reminders
  PROVE  RowQuiet(id)
<1>0. TypeOK /\ RowOK(id) /\ row \in [Reminders -> Rows]
  BY DEF OutboxInv, TypeOK
<1>1. CASE row'[id] = row[id]
  BY <1>1 DEF RowQuiet
<1>2. ASSUME NEW s \in Terminal \cup {"WAITING"}, row'[id] = Released(row[id], s)
      PROVE  RowQuiet(id)
  <2>0. row[id] \in Rows /\ s # "none"
    BY <1>0 DEF Terminal
  <2>1. row'[id].state = s /\ ~row'[id].live
    BY <1>2, <2>0, ReleasedFits
  <2> QED BY <2>0, <2>1 DEF RowQuiet
<1>3. ASSUME NEW w \in Workers, worker[w].id \in Reminders, NEW s \in Terminal \cup {"WAITING"},
             WriteResult(w, Released(row[worker[w].id], s))
      PROVE  RowQuiet(id)
  <2>1. row' = IF Holds(w) THEN [row EXCEPT ![worker[w].id] = Released(row[worker[w].id], s)] ELSE row
    BY <1>0, <1>3, LetGo
  <2>2. row'[id] = row[id] \/ row'[id] = Released(row[id], s)
    BY <1>0, <2>1
  <2> QED BY <1>1, <1>2, <2>2
<1>4. ASSUME NEW w \in Workers, worker[w].pc \in {"prepare", "send", "sending"}
      PROVE  worker[w].id \in Reminders
  BY <1>4 DEF OutboxInv, RunOK
<1>5. CASE Generate
  <2>1. row'[id] = row[id] \/ (row[id] = NoRow /\ row'[id] = [NoRow EXCEPT !.state = "WAITING"])
    BY <1>5 DEF Generate
  <2> QED BY <1>1, <2>1 DEF RowQuiet, NoRow
<1>6. ASSUME NEW j \in Reminders, LeaseExpires(j) PROVE RowQuiet(id)
  <2>1. row'[id] = IF id = j THEN [row[id] EXCEPT !.live = FALSE] ELSE row[id]
    BY <1>0, <1>6 DEF LeaseExpires
  <2>2. row[id] \in Rows
    BY <1>0
  <2> QED BY <2>1, <2>2 DEF RowQuiet, Rows
<1>7. ASSUME NEW w \in Workers, StartRun(w) PROVE RowQuiet(id)
  <2>1. row'[id] = row[id] \/ row'[id] = Released(row[id], "CANCELED")
    BY <1>7 DEF StartRun
  <2> QED BY <1>1, <1>2, <2>1 DEF Terminal
<1>8. ASSUME NEW w \in Workers, Prepare(w) PROVE RowQuiet(id)
  <2>1. UNCHANGED row \/ WriteResult(w, Released(row[worker[w].id], "CANCELED"))
    BY <1>8 DEF Prepare
  <2> QED BY <1>1, <1>3, <1>4, <1>8, <2>1 DEF Prepare, Terminal
<1>9. ASSUME NEW w \in Workers, Record(w) PROVE RowQuiet(id)
  <2>1. worker[w].id \in Reminders /\ row[worker[w].id] \in Rows /\ worker[w].answer \in Answers
    BY <1>0, <1>4, <1>9 DEF Record, OutboxInv, RunOK
  <2>2. PICK s \in {"SENT", "FAILED", "WAITING"} :
          Result(row[worker[w].id], worker[w].answer) = Released(row[worker[w].id], s)
    BY <2>1, ResultFits
  <2>3. UNCHANGED row \/ WriteResult(w, Released(row[worker[w].id], s))
    BY <1>9, <2>2 DEF Record
  <2> QED BY <1>1, <1>3, <2>1, <2>2, <2>3 DEF Terminal
<1>10. ASSUME NEW w \in Workers, GiveBack(w) PROVE RowQuiet(id)
  BY <1>3, <1>4, <1>10 DEF GiveBack
<1>11. ASSUME UNCHANGED row PROVE RowQuiet(id)
  BY <1>1, <1>11
<1>12. CASE Tick \/ SetFit \/ LockExpires \/ (\E e \in 0 .. MaxDay : MoveExpiry(e))
            \/ \E on \in BOOLEAN : SetConsent(on)
  BY <1>11, <1>12 DEF Tick, SetFit, LockExpires, MoveExpiry, SetConsent
<1>13. ASSUME NEW w \in Workers, EndRun(w) \/ SendMail(w) \/ LoseFence(w) \/ Interrupt(w) \/ CrashRun(w)
       PROVE  RowQuiet(id)
  BY <1>11, <1>13 DEF EndRun, SendMail, LoseFence, Interrupt, CrashRun
<1> QED BY <1>5, <1>6, <1>7, <1>8, <1>9, <1>10, <1>12, <1>13 DEF Unclaimed

\* A day that is over stays over.
LEMMA DaysPass ==
  ASSUME OutboxInv, [Next]_vars, NEW id \in Reminders, Due(id) <= now
  PROVE  Due(id) <= now'
<1>1. CASE Tick
  <2>1. now \in Int /\ Due(id) \in Int /\ now' = now + 1
    BY <1>1, ReminderConstants, ReminderFacts DEF OutboxInv, TypeOK, Tick
  <2> QED BY <2>1
<1>2. CASE now' = now
  BY <1>2
<1>3. Tick \/ now' = now
  BY DEF Next, WorkerStep, SetFit, Generate, LockExpires, MoveExpiry, SetConsent, LeaseExpires,
         EndRun, Prepare, SendMail, Record, GiveBack, ClaimDue, StartRun, LoseFence, Interrupt,
         CrashRun, vars
<1> QED BY <1>1, <1>2, <1>3

\* A run that a step does not touch still finds its claim gone, or its reminder due.
LEMMA BystanderOK ==
  ASSUME OutboxInv, [Next]_vars, NEW v \in Workers, worker'[v] = worker[v],
         \/ Unclaimed \/ UNCHANGED vars
         \/ \E w \in Workers, id \in Reminders : w # v /\ ClaimDue(w, id)
  PROVE  RunOK(v)'
<1>0. RunOK(v) /\ TypeOK
  BY DEF OutboxInv
<1>1. CASE worker[v].pc \in {"prepare", "send", "sending"}
  <2>1. PICK j \in Reminders : j = worker[v].id
    BY <1>0, <1>1 DEF RunOK
  <2>2. Due(j) <= now /\ row[j].state # "none"
    BY <1>0, <1>1, <2>1 DEF RunOK
  <2>3. Due(j) <= now'
    BY <2>2, DaysPass
  <2>4. row'[j].state # "none" /\ (HoldsLive(v)' => HoldsLive(v))
    <3>1. CASE UNCHANGED vars
      BY <2>1, <2>2, <3>1 DEF vars, HoldsLive, Holds
    <3>2. CASE Unclaimed
      BY <2>1, <2>2, <3>2, RowsQuiet DEF RowQuiet, HoldsLive, Holds
    <3>3. ASSUME NEW w \in Workers, NEW id \in Reminders, w # v, ClaimDue(w, id)
          PROVE  row'[j].state # "none" /\ (HoldsLive(v)' => HoldsLive(v))
      <4>1. row' = [row EXCEPT ![id] = [row[id] EXCEPT !.state = "PROCESSING", !.token = w, !.live = TRUE]]
        BY <3>3 DEF ClaimDue
      <4>2. row[id] \in Rows /\ row \in [Reminders -> Rows]
        BY <1>0 DEF TypeOK
      <4>3. CASE id # j
        BY <2>1, <2>2, <4>1, <4>2, <4>3 DEF HoldsLive, Holds
      <4>4. CASE id = j
        <5>1. row'[j].state = "PROCESSING" /\ row'[j].token = w
          BY <4>1, <4>2, <4>4, ClaimedFits
        <5> QED BY <2>1, <3>3, <5>1 DEF HoldsLive, Holds
      <4> QED BY <4>3, <4>4
    <3> QED BY <3>1, <3>2, <3>3
  <2> QED BY <1>0, <1>1, <2>1, <2>3, <2>4 DEF RunOK
<1>2. CASE worker[v].pc \notin {"prepare", "send", "sending"}
  BY <1>0, <1>2 DEF RunOK
<1> QED BY <1>1, <1>2

LEMMA RunStep ==
  ASSUME OutboxInv, [Next]_vars, NEW v \in Workers
  PROVE  RunOK(v)'
<1>0. RunOK(v) /\ TypeOK /\ worker \in [Workers -> Runs]
  BY DEF OutboxInv, TypeOK
<1>1. CASE worker'[v] \in {At("idle"), At("claim")}
  <2>1. worker'[v].pc \in {"idle", "claim"} /\ worker'[v].fenced = TRUE
    BY <1>1, RunFits
  <2> QED BY <2>1 DEF RunOK
<1>2. CASE worker'[v] = worker[v] /\ Unclaimed
  BY <1>2, BystanderOK
<1>3. CASE UNCHANGED vars
  BY <1>3, BystanderOK DEF vars
<1>4. ASSUME NEW w \in Workers, NEW id \in Reminders, ClaimDue(w, id) PROVE RunOK(v)'
  <2>1. CASE v # w
    <3>1. worker'[v] = worker[v]
      BY <1>0, <1>4, <2>1 DEF ClaimDue
    <3> QED BY <1>4, <2>1, <3>1, BystanderOK
  <2>2. CASE v = w
    <3>1. worker'[v] = [At("prepare") EXCEPT !.id = id]
      BY <1>0, <1>4, <2>2 DEF ClaimDue
    <3>2. worker'[v].pc = "prepare" /\ worker'[v].id = id /\ worker'[v].fenced = TRUE
      BY <3>1, RunFits
    <3>3. row'[id].state = "PROCESSING"
      <4>1. row[id] \in Rows /\ row \in [Reminders -> Rows]
        BY <1>0 DEF TypeOK
      <4> DEFINE c == [row[id] EXCEPT !.state = "PROCESSING", !.token = w, !.live = TRUE]
      <4>2. row'[id] = c
        BY <1>4, <4>1 DEF ClaimDue
      <4>3. c.state = "PROCESSING"
        BY <4>1, ClaimedFits
      <4> HIDE DEF c
      <4> QED BY <4>2, <4>3
    <3>4. Due(id) <= now'
      BY <1>4, DaysPass DEF ClaimDue
    <3> QED BY <3>2, <3>3, <3>4 DEF RunOK
  <2> QED BY <2>1, <2>2
<1>5. ASSUME NEW w \in Workers, w = v, worker[w].pc \in {"prepare", "send", "sending"}, Unclaimed,
             worker'[v].pc \in {"prepare", "send", "sending"}, worker'[v].id = worker[v].id,
             worker'[v].fenced = worker[v].fenced \/ ~HoldsLive(v),
             worker'[v].pc = "sending" => worker'[v].answer \in Answers,
             worker[v].fenced \/ worker'[v].pc # "prepare", worker'[v].pc # "prepare"
      PROVE  RunOK(v)'
  <2>1. PICK j \in Reminders : j = worker[v].id
    BY <1>0, <1>5 DEF RunOK
  <2>2. Due(j) <= now' /\ RowQuiet(j) /\ row[j].state # "none"
    BY <1>0, <1>5, <2>1, DaysPass, RowsQuiet DEF RunOK
  <2>3. HoldsLive(v)' => HoldsLive(v)
    BY <1>5, <2>1, <2>2 DEF RowQuiet, HoldsLive, Holds
  <2>4. row'[j].state # "none"
    BY <2>2 DEF RowQuiet
  <2>5. ~worker'[v].fenced => ~HoldsLive(v)
    BY <1>0, <1>5 DEF RunOK
  <2> QED BY <1>5, <2>1, <2>2, <2>3, <2>4, <2>5 DEF RunOK
<1>6. ASSUME NEW w \in Workers, Prepare(w) \/ SendMail(w) \/ LoseFence(w) PROVE RunOK(v)'
  <2>1. Unclaimed
    BY <1>6 DEF Unclaimed
  <2>2. CASE v # w
    <3>1. worker'[v] = worker[v]
      BY <1>0, <1>6, <2>2 DEF Prepare, SendMail, LoseFence
    <3> QED BY <1>2, <2>1, <3>1
  <2>3. CASE v = w /\ Prepare(w)
    <3>1. worker'[v] = At("claim") \/ worker'[v] = [worker[v] EXCEPT !.pc = "send"]
      BY <1>0, <2>3 DEF Prepare
    <3>2. CASE worker'[v] = [worker[v] EXCEPT !.pc = "send"]
      <4>1. worker'[v].pc = "send" /\ worker'[v].id = worker[v].id
            /\ worker'[v].fenced = worker[v].fenced
        BY <1>0, <3>2 DEF Runs
      <4> QED BY <1>5, <2>1, <2>3, <4>1 DEF Prepare
    <3> QED BY <1>1, <3>1, <3>2
  <2>4. CASE v = w /\ SendMail(w)
    <3>1. PICK a \in Answers : worker' = [worker EXCEPT ![w].pc = "sending", ![w].answer = a]
      BY <2>4 DEF SendMail
    <3>2. worker'[v].pc = "sending" /\ worker'[v].id = worker[v].id /\ worker'[v].answer = a
          /\ worker'[v].fenced = worker[v].fenced
      BY <1>0, <2>4, <3>1 DEF Runs
    <3> QED BY <1>5, <2>1, <2>4, <3>2 DEF SendMail
  <2>5. CASE v = w /\ LoseFence(w)
    <3>1. worker'[v].pc = worker[v].pc /\ worker'[v].id = worker[v].id
          /\ worker'[v].answer = worker[v].answer
      BY <1>0, <2>5 DEF LoseFence, Runs
    <3>2. worker[v].pc = "sending" => worker[v].answer \in Answers
      BY <1>0 DEF RunOK
    <3> QED BY <1>5, <2>1, <2>5, <3>1, <3>2 DEF LoseFence
  <2> QED BY <1>6, <2>2, <2>3, <2>4, <2>5
<1>7. ASSUME NEW w \in Workers,
             EndRun(w) \/ Record(w) \/ GiveBack(w) \/ StartRun(w) \/ Interrupt(w) \/ CrashRun(w)
      PROVE  RunOK(v)'
  <2>1. Unclaimed
    BY <1>7 DEF Unclaimed
  <2>2. worker' = [worker EXCEPT ![w] = At("claim")] \/ worker' = [worker EXCEPT ![w] = At("idle")]
    BY <1>7 DEF EndRun, Record, GiveBack, StartRun, Interrupt, CrashRun, Idle
  <2>3. worker'[v] = worker[v] \/ worker'[v] \in {At("idle"), At("claim")}
    BY <1>0, <2>2
  <2> QED BY <1>1, <1>2, <2>1, <2>3
<1>8. CASE \/ Tick \/ SetFit \/ Generate \/ LockExpires
           \/ \E e \in 0 .. MaxDay : MoveExpiry(e)
           \/ \E on \in BOOLEAN : SetConsent(on)
           \/ \E id \in Reminders : LeaseExpires(id)
  <2>1. Unclaimed
    BY <1>8 DEF Unclaimed
  <2>2. worker' = worker
    BY <1>8 DEF Tick, SetFit, Generate, LockExpires, MoveExpiry, SetConsent, LeaseExpires
  <2> QED BY <1>2, <2>1, <2>2
<1> QED BY <1>3, <1>4, <1>6, <1>7, <1>8, NextCases DEF Unclaimed

\* Only SendMail counts a mail.
LEMMA MailKept ==
  ASSUME [Next]_vars, ~\E w \in Workers : SendMail(w)
  PROVE  mailed' = mailed /\ backwards' = backwards
BY DEF Next, WorkerStep, Tick, SetFit, Generate, LockExpires, MoveExpiry, SetConsent, LeaseExpires,
       EndRun, Prepare, Record, GiveBack, ClaimDue, StartRun, LoseFence, Interrupt, CrashRun,
       vars, mailVars

LEMMA RowStep ==
  ASSUME OutboxInv, [Next]_vars, NEW id \in Reminders
  PROVE  RowOK(id)'
<1>0. RowOK(id) /\ TypeOK /\ row \in [Reminders -> Rows]
      /\ mailed[id] \in Nat /\ backwards[id] \in Nat
  BY DEF OutboxInv, TypeOK
<1>1. /\ row'[id].live => row'[id].state = "PROCESSING"
      /\ row[id].state # "none" => row'[id].state # "none"
  <2>1. CASE UNCHANGED vars
    BY <1>0, <2>1 DEF vars, RowOK
  <2>2. CASE Unclaimed
    BY <1>0, <2>2, RowsQuiet DEF RowQuiet, RowOK
  <2>3. ASSUME NEW w \in Workers, NEW j \in Reminders, ClaimDue(w, j)
        PROVE  /\ row'[id].live => row'[id].state = "PROCESSING"
               /\ row[id].state # "none" => row'[id].state # "none"
    <3>1. row' = [row EXCEPT ![j] = [row[j] EXCEPT !.state = "PROCESSING", !.token = w, !.live = TRUE]]
      BY <2>3 DEF ClaimDue
    <3>2. CASE j # id
      BY <1>0, <3>1, <3>2 DEF RowOK
    <3>3. CASE j = id
      <4> DEFINE c == [row[id] EXCEPT !.state = "PROCESSING", !.token = w, !.live = TRUE]
      <4>1. row[id] \in Rows /\ row'[id] = c
        BY <1>0, <3>1, <3>3
      <4>2. c.state = "PROCESSING"
        BY <4>1, ClaimedFits
      <4> HIDE DEF c
      <4> QED BY <4>1, <4>2
    <3> QED BY <3>2, <3>3
  <2> QED BY <2>1, <2>2, <2>3, NextCases
<1>2. CASE mailed'[id] = mailed[id] /\ backwards'[id] = backwards[id]
  BY <1>0, <1>1, <1>2, DaysPass DEF RowOK
<1>3. ASSUME NEW w \in Workers, SendMail(w) PROVE RowOK(id)'
  <2>1. \/ Accepted(worker[w].id)
        \/ mailed' = mailed /\ backwards' = backwards
    BY <1>3 DEF SendMail, mailVars
  <2>2. CASE Accepted(worker[w].id) /\ worker[w].id = id
    <3>1. mailed'[id] = mailed[id] + 1
      BY <1>0, <2>2 DEF Accepted, TypeOK
    <3>2. backwards'[id] = backwards[id] + 1 \/ backwards'[id] = backwards[id]
      BY <1>0, <2>2 DEF Accepted, TypeOK
    <3>3. backwards'[id] <= mailed'[id]
      <4>1. \A b \in Nat, m \in Nat : b <= m => b <= m + 1 /\ b + 1 <= m + 1
        OBVIOUS
      <4> QED BY <1>0, <3>1, <3>2, <4>1 DEF RowOK
    <3>4. Due(id) <= now' /\ row[id].state # "none"
      BY <1>3, <2>2, DaysPass DEF OutboxInv, RunOK, SendMail
    <3> QED BY <1>1, <3>3, <3>4 DEF RowOK
  <2>3. CASE Accepted(worker[w].id) /\ worker[w].id # id
    <3>1. mailed'[id] = mailed[id] /\ backwards'[id] = backwards[id]
      BY <1>0, <2>3 DEF Accepted, TypeOK
    <3> QED BY <1>2, <3>1
  <2> QED BY <1>2, <2>1, <2>2, <2>3
<1> QED BY <1>2, <1>3, MailKept

-----------------------------------------------------------------------------
(* The budget of a reminder.                                               *)

Sizes(id) == Load(id) \in Nat /\ Rogues \in Nat /\ faults \in Nat

LEMMA SizesOK ==
  ASSUME TypeOK, NEW id \in Reminders
  PROVE  Sizes(id)
<1>1. mailed[id] \in Nat /\ faults \in Nat
  BY ReminderConstants DEF TypeOK
<1>2. Cardinality(Pending(id)) \in Nat /\ Cardinality(Rogue) \in Nat
  BY SetsFinite
<1> HIDE DEF Pending, Rogue
<1> QED BY <1>1, <1>2 DEF Sizes, Load, Rogues

LEMMA SizesAfter ==
  ASSUME TypeOK', NEW id \in Reminders
  PROVE  Sizes(id)'
<1> DEFINE P == Pending(id)'  R == Rogue'
<1>1. mailed'[id] \in Nat /\ faults' \in Nat
  BY ReminderConstants DEF TypeOK
<1>2. P \subseteq Workers /\ R \subseteq Workers
  BY DEF Pending, Rogue
<1>3. Load(id)' = mailed'[id] + Cardinality(P) /\ Rogues' = Cardinality(R)
  BY DEF Load, Rogues
<1> HIDE DEF P, R
<1>4. Cardinality(P) \in Nat /\ Cardinality(R) \in Nat
  BY <1>2, SetsFinite, SmallerSet
<1> QED BY <1>1, <1>3, <1>4 DEF Sizes

\* What a step may do to the numbers.
LEMMA BudgetKeeps ==
  ASSUME NEW id \in Reminders, Sizes(id), Sizes(id)', Budget(id),
         Behind(id)' => Behind(id) \/ Rogues >= 1,
         \/ /\ Load(id)' <= Load(id) /\ Rogues' <= Rogues /\ faults' = faults
            /\ Spent(id) => Spent(id)'
         \/ /\ Load(id)' + 1 <= Load(id) /\ Rogues' <= Rogues /\ faults' = faults
         \/ /\ Load(id)' <= Load(id) /\ Rogues' <= Rogues /\ faults' = faults + 1
         \/ /\ Load(id)' <= Load(id) /\ Rogues' <= Rogues + 1 /\ faults' = faults + 1
            /\ Spent(id) => Spent(id)'
         \/ /\ Load(id)' <= Load(id) + 1 /\ Rogues' <= Rogues /\ faults' = faults
            /\ ~Spent(id) /\ Spent(id)'
  PROVE  Budget(id)'
<1> DEFINE l == Load(id)  r == Rogues  f == faults  b == Behind(id)  s == Spent(id)
           L == Load(id)' R == Rogues' F == faults' B == Behind(id)' S == Spent(id)'
<1>1. l \in Nat /\ r \in Nat /\ f \in Nat /\ L \in Nat /\ R \in Nat /\ F \in Nat
  BY DEF Sizes
<1>2. /\ l + r <= f + 1 /\ (b => l + 1 <= f + 1)
      /\ ~s => l + r <= f /\ (b => l + 1 <= f)
  BY DEF Budget, Within
<1>3. B => b \/ r >= 1
  OBVIOUS
<1>4. \/ L <= l /\ R <= r /\ F = f /\ (s => S)
      \/ L + 1 <= l /\ R <= r /\ F = f
      \/ L <= l /\ R <= r /\ F = f + 1
      \/ L <= l /\ R <= r + 1 /\ F = f + 1 /\ (s => S)
      \/ L <= l + 1 /\ R <= r /\ F = f /\ ~s /\ S
  OBVIOUS
<1>5. Budget(id)' <=> /\ L + R <= F + 1 /\ (B => L + 1 <= F + 1)
                      /\ ~S => L + R <= F /\ (B => L + 1 <= F)
  BY DEF Budget, Within
<1> HIDE DEF l, r, f, b, s, L, R, F, B, S
<1>6. L + R <= F + 1 /\ (B => L + 1 <= F + 1)
  BY <1>1, <1>2, <1>3, <1>4
<1>7. ~S => L + R <= F /\ (B => L + 1 <= F)
  BY <1>1, <1>2, <1>3, <1>4
<1> QED BY <1>5, <1>6, <1>7

\* A run that comes no closer to the mail server, and no further from the lock.
Calmer(v) ==
  /\ worker'[v].pc \in {"prepare", "send"} =>
       /\ worker[v].pc \in {"prepare", "send"}
       /\ worker'[v].pc = "send" => worker[v].pc = "send"
       /\ worker'[v].id = worker[v].id
  /\ worker'[v].pc # "idle" /\ v # runLock' => worker[v].pc # "idle" /\ v # runLock

LEMMA CalmSets ==
  ASSUME \A v \in Workers : Calmer(v)
  PROVE  /\ Rogue' \subseteq Rogue
         /\ \A id : Pending(id)' \subseteq Pending(id)
BY DEF Calmer, Rogue, Pending

LEMMA Calm ==
  ASSUME OutboxInv, NEW id \in Reminders, \A v \in Workers : Calmer(v),
         mailed' = mailed, backwards' = backwards
  PROVE  /\ Load(id)' <= Load(id) /\ Rogues' <= Rogues
         /\ Behind(id)' => Behind(id)
         /\ \A w \in Pending(id) : w \notin Pending(id)' => Load(id)' + 1 <= Load(id)
<1>1. Rogue' \subseteq Rogue /\ Pending(id)' \subseteq Pending(id)
      /\ IsFiniteSet(Rogue) /\ IsFiniteSet(Pending(id)) /\ mailed[id] \in Nat
  BY CalmSets, SetsFinite DEF OutboxInv, TypeOK
<1>2. Behind(id)' => Behind(id)
  BY DEF Behind, Overtaken, Calmer
<1> DEFINE P == Pending(id)  Q == Pending(id)'  R == Rogue  S == Rogue'  m == mailed[id]
<1>3. /\ Load(id) = m + Cardinality(P) /\ Load(id)' = m + Cardinality(Q)
      /\ Rogues = Cardinality(R) /\ Rogues' = Cardinality(S)
  BY DEF Load, Rogues
<1>4. S \subseteq R /\ Q \subseteq P /\ IsFiniteSet(R) /\ IsFiniteSet(P) /\ m \in Nat
  BY <1>1
<1> HIDE DEF P, Q, R, S, m
<1>5. Cardinality(Q) <= Cardinality(P) /\ Cardinality(S) <= Cardinality(R)
      /\ Cardinality(Q) \in Nat /\ Cardinality(P) \in Nat
  BY <1>4, SmallerSet
<1>6. m + Cardinality(Q) <= m + Cardinality(P)
  BY <1>4, <1>5
<1>7. ASSUME NEW w \in P, w \notin Q PROVE m + Cardinality(Q) + 1 <= m + Cardinality(P)
  <2>1. Cardinality(Q) + 1 <= Cardinality(P)
    <3>1. Q \subseteq P \ {w}
      BY <1>4, <1>7
    <3> QED BY <1>4, <1>7, <3>1, OneLess
  <2> QED BY <1>4, <1>5, <2>1
<1> QED BY <1>2, <1>3, <1>5, <1>6, <1>7 DEF P, Q

\* A row that a step leaves alone keeps the run that will close it.
LEMMA SpentKept ==
  ASSUME NEW id, Spent(id), row'[id] = row[id],
         \A w \in Workers : Carries(w, id) /\ row[id].token = w => Carries(w, id)'
  PROVE  Spent(id)'
BY DEF Spent, Carried

\* Steps of the user, the clock and the generator.
LEMMA AroundBudget ==
  ASSUME OutboxInv, TypeOK', NEW id \in Reminders,
         \/ UNCHANGED vars \/ Tick \/ SetFit \/ Generate
         \/ \E e \in 0 .. MaxDay : MoveExpiry(e)
         \/ \E on \in BOOLEAN : SetConsent(on)
  PROVE  Budget(id)'
<1>1. UNCHANGED <<worker, runLock, mailed, backwards, faults>>
  BY DEF vars, mailVars, Tick, SetFit, Generate, MoveExpiry, SetConsent
<1>2. \A v \in Workers : Calmer(v)
  BY <1>1 DEF Calmer
<1>3. Spent(id) => Spent(id)'
  <2>1. row'[id] = row[id] \/ row[id] = NoRow
    BY DEF vars, Tick, SetFit, Generate, MoveExpiry, SetConsent
  <2>2. row[id] = NoRow => ~Spent(id)
    BY DEF NoRow, Spent, Carried, Terminal
  <2>3. \A w \in Workers : Carries(w, id) => Carries(w, id)'
    BY <1>1 DEF Carries
  <2> QED BY <2>1, <2>2, <2>3, SpentKept
<1>4. Sizes(id) /\ Sizes(id)' /\ Budget(id)
  BY SizesOK, SizesAfter DEF OutboxInv
<1> QED BY <1>1, <1>2, <1>3, <1>4, Calm, BudgetKeeps

\* Leases that run out.
LEMMA LeaseBudget ==
  ASSUME OutboxInv, TypeOK', NEW id \in Reminders, NEW j \in Reminders, LeaseExpires(j)
  PROVE  Budget(id)'
<1>1. UNCHANGED <<worker, runLock, mailed, backwards>>
  BY DEF LeaseExpires, mailVars
<1>2. \A v \in Workers : Calmer(v)
  BY <1>1 DEF Calmer
<1>3. Sizes(id) /\ Sizes(id)' /\ Budget(id) /\ row \in [Reminders -> Rows]
  <2>1. Sizes(id) /\ Sizes(id)' /\ Budget(id)
    BY SizesOK, SizesAfter DEF OutboxInv
  <2> QED BY <2>1 DEF OutboxInv, TypeOK
<1>4. CASE faults' = faults + 1
  BY <1>1, <1>2, <1>3, <1>4, Calm, BudgetKeeps
<1>5. CASE faults' = faults /\ (id = j => Orphaned(j))
  <2>1. Spent(id) => Spent(id)'
    <3>1. CASE id # j
      <4>1. row'[id] = row[id]
        BY <1>3, <3>1 DEF LeaseExpires
      <4>2. \A w \in Workers : Carries(w, id) => Carries(w, id)'
        BY <1>1 DEF Carries
      <4> QED BY <4>1, <4>2, SpentKept
    <3>2. CASE id = j
      <4>1. row[id].live /\ row[id].state = "PROCESSING"
        BY <3>2 DEF LeaseExpires, OutboxInv, RowOK
      <4>2. ~Carried(id)
        BY <1>5, <3>2 DEF Orphaned, Carried, Carries
      <4> QED BY <4>1, <4>2 DEF Spent, Terminal
    <3> QED BY <3>1, <3>2
  <2> QED BY <1>1, <1>2, <1>3, <1>5, <2>1, Calm, BudgetKeeps
<1>6. faults' = faults + 1 \/ (faults' = faults /\ Orphaned(j))
  BY DEF LeaseExpires, Fault
<1> QED BY <1>4, <1>5, <1>6

LEMMA LockBudget ==
  ASSUME OutboxInv, TypeOK', NEW id \in Reminders, LockExpires
  PROVE  Budget(id)' /\ Rogues' <= faults'
<1>1. UNCHANGED <<worker, row, mailed, backwards>> /\ runLock' = None
  BY DEF LockExpires, mailVars
<1>2. Sizes(id) /\ Sizes(id)' /\ Budget(id)
  BY SizesOK, SizesAfter DEF OutboxInv
<1>3. Rogue' \subseteq Rogue \cup {runLock} /\ IsFiniteSet(Rogue)
  BY <1>1, SetsFinite DEF Rogue
<1>4. Load(id)' = Load(id) /\ (Behind(id)' => Behind(id))
  <2>1. Pending(id)' = Pending(id)
    BY <1>1 DEF Pending
  <2>2. mailed'[id] = mailed[id]
    BY <1>1
  <2> QED BY <1>1, <2>1, <2>2 DEF Load, Behind, Overtaken
<1>5. Spent(id) => Spent(id)'
  <2>1. \A w \in Workers : Carries(w, id) => Carries(w, id)'
    BY <1>1 DEF Carries
  <2> QED BY <1>1, <2>1, SpentKept
<1>6. Rogues <= faults /\ Load(id)' <= Load(id)
  BY <1>2, <1>4 DEF OutboxInv, Sizes
<1>7. CASE faults' = faults + 1
  <2>1. Rogues' <= Rogues + 1
    BY <1>3, OneMore DEF Rogues
  <2>2. Budget(id)'
    BY <1>2, <1>4, <1>5, <1>6, <1>7, <2>1, BudgetKeeps
  <2> QED BY <1>2, <1>6, <1>7, <2>1, <2>2 DEF Sizes
<1>8. CASE faults' = faults /\ worker[runLock] = Idle
  <2>1. Rogue' \subseteq Rogue
    BY <1>1, <1>8 DEF Rogue, Idle, At
  <2>2. Rogues' <= Rogues
    BY <1>3, <2>1, SmallerSet DEF Rogues
  <2>3. Budget(id)'
    BY <1>2, <1>4, <1>5, <1>6, <1>8, <2>2, BudgetKeeps
  <2> QED BY <1>2, <1>6, <1>8, <2>2, <2>3 DEF Sizes
<1> QED BY <1>7, <1>8 DEF LockExpires, Fault

\* Runs that start, end, notice a lost fence, are interrupted or crash.
LEMMA RunBudget ==
  ASSUME OutboxInv, TypeOK', NEW id \in Reminders, NEW w \in Workers,
         StartRun(w) \/ EndRun(w) \/ LoseFence(w) \/ Interrupt(w) \/ CrashRun(w)
  PROVE  Budget(id)'
<1>1. mailed' = mailed /\ backwards' = backwards
  BY DEF StartRun, EndRun, LoseFence, Interrupt, CrashRun, mailVars
<1>2. Sizes(id) /\ Sizes(id)' /\ Budget(id) /\ worker \in [Workers -> Runs] /\ worker[w] \in Runs
      /\ row \in [Reminders -> Rows]
  <2>1. Sizes(id) /\ Sizes(id)' /\ Budget(id)
    BY SizesOK, SizesAfter DEF OutboxInv
  <2> QED BY <2>1 DEF OutboxInv, TypeOK
<1>3. \A v \in Workers \ {w} : worker'[v] = worker[v]
  BY <1>2 DEF StartRun, EndRun, LoseFence, Interrupt, CrashRun
<1>4. \A v \in Workers : Calmer(v)
  <2>1. \A v \in Workers \ {w} : Calmer(v)
    BY <1>3, ReminderConstants DEF StartRun, EndRun, LoseFence, Interrupt, CrashRun, Calmer
  <2>2. Calmer(w)
    <3>1. CASE StartRun(w)
      <4>1. worker'[w].pc = "claim" /\ runLock' = w
        BY <1>2, <3>1, RunFits DEF StartRun
      <4> QED BY <4>1 DEF Calmer
    <3>2. CASE EndRun(w) \/ Interrupt(w) \/ CrashRun(w)
      <4>1. worker'[w].pc = "idle"
        BY <1>2, <3>2, RunFits DEF EndRun, Interrupt, CrashRun
      <4> QED BY <4>1 DEF Calmer
    <3>3. CASE LoseFence(w)
      <4>1. worker'[w].pc = worker[w].pc /\ worker'[w].id = worker[w].id /\ runLock' = runLock
        BY <1>2, <3>3 DEF LoseFence, Runs
      <4> QED BY <4>1 DEF Calmer
    <3> QED BY <3>1, <3>2, <3>3
  <2> QED BY <2>1, <2>2
<1>5. CASE CrashRun(w)
  <2>1. faults' = faults + 1
    BY <1>5 DEF CrashRun, Fault
  <2> QED BY <1>1, <1>2, <1>4, <2>1, Calm, BudgetKeeps
<1>6. CASE LoseFence(w)
  <2>1. row'[id] = row[id] /\ faults' = faults
    BY <1>6 DEF LoseFence
  <2>2. \A v \in Workers : Carries(v, id) => Carries(v, id)'
    <3>1. worker'[w].pc = worker[w].pc /\ worker'[w].id = worker[w].id
          /\ worker'[w].answer = worker[w].answer
      BY <1>2, <1>6 DEF LoseFence, Runs
    <3> QED BY <1>3, <3>1 DEF Carries
  <2> QED BY <1>1, <1>2, <1>4, <2>1, <2>2, SpentKept, Calm, BudgetKeeps
<1>7. CASE EndRun(w) \/ (Interrupt(w) /\ worker[w].pc = "claim")
  <2>1. row'[id] = row[id] /\ faults' = faults /\ worker[w].pc = "claim"
    BY <1>7 DEF EndRun, Interrupt
  <2>2. \A v \in Workers : Carries(v, id) => Carries(v, id)'
    BY <1>3, <2>1 DEF Carries
  <2> QED BY <1>1, <1>2, <1>4, <2>1, <2>2, SpentKept, Calm, BudgetKeeps
<1>8. CASE StartRun(w)
  <2>1. row'[id] = row[id] \/ row'[id] = Released(row[id], "CANCELED")
    BY <1>8 DEF StartRun
  <2>2. faults' = faults /\ worker[w].pc = "idle"
    BY <1>8, RunFits DEF StartRun
  <2>3. \A v \in Workers : Carries(v, id) => Carries(v, id)'
    BY <1>3, <2>2 DEF Carries
  <2>4. row'[id] = Released(row[id], "CANCELED") => Spent(id)'
    BY <1>2, ReleasedFits DEF Spent, Terminal
  <2> QED BY <1>1, <1>2, <1>4, <2>1, <2>2, <2>3, <2>4, SpentKept, Calm, BudgetKeeps
<1>9. CASE Interrupt(w) /\ worker[w].pc = "prepare"
  <2>1. row'[id] = row[id] /\ faults' = faults /\ worker'[w].pc = "idle"
    BY <1>2, <1>9, RunFits DEF Interrupt
  <2>2. CASE worker[w].id = id
    <3>1. w \in Pending(id) /\ w \notin Pending(id)'
      BY <1>9, <2>1, <2>2 DEF Pending
    <3> QED BY <1>1, <1>2, <1>4, <2>1, <3>1, Calm, BudgetKeeps
  <2>3. CASE worker[w].id # id
    <3>1. \A v \in Workers : Carries(v, id) => Carries(v, id)'
      BY <1>3, <2>3 DEF Carries
    <3> QED BY <1>1, <1>2, <1>4, <2>1, <3>1, SpentKept, Calm, BudgetKeeps
  <2> QED BY <2>2, <2>3
<1> QED BY <1>5, <1>6, <1>7, <1>8, <1>9 DEF Interrupt

LEMMA ClaimBudget ==
  ASSUME OutboxInv, TypeOK', NEW id \in Reminders, NEW w \in Workers, NEW j \in Reminders,
         ClaimDue(w, j)
  PROVE  Budget(id)'
<1>1. /\ mailed' = mailed /\ backwards' = backwards /\ faults' = faults /\ runLock' = runLock
      /\ worker[w].pc = "claim"
  BY DEF ClaimDue, mailVars
<1>2. Sizes(id) /\ Sizes(id)' /\ Budget(id)
  BY SizesOK, SizesAfter DEF OutboxInv
<1>3. worker \in [Workers -> Runs] /\ row \in [Reminders -> Rows] /\ RowOK(j) /\ mailed[id] \in Nat
  BY DEF OutboxInv, TypeOK
<1>4. worker'[w].pc = "prepare" /\ worker'[w].id = j /\ \A v \in Workers \ {w} : worker'[v] = worker[v]
  BY <1>3, RunFits DEF ClaimDue
<1>5. Rogue' \subseteq Rogue
  BY <1>1, <1>4 DEF Rogue
<1>6. Rogues' <= Rogues
  BY <1>5, SetsFinite, SmallerSet DEF Rogues
<1>7. Behind(id)' => Behind(id)
  <2>1. \A v \in Workers : worker'[v].pc = "send" => worker'[v] = worker[v]
    BY <1>4
  <2> QED BY <1>1, <2>1 DEF Behind, Overtaken
<1> DEFINE P == Pending(id)  Q == Pending(id)'  m == mailed[id]
<1>8. Load(id) = m + Cardinality(P) /\ Load(id)' = m + Cardinality(Q) /\ m \in Nat /\ IsFiniteSet(P)
  BY <1>1, <1>3, SetsFinite DEF Load
<1>9. CASE id # j
  <2>1. Q \subseteq P
    BY <1>4, <1>9 DEF Pending
  <2>2. Load(id)' <= Load(id)
    <3> HIDE DEF P, Q, m
    <3>1. Cardinality(Q) <= Cardinality(P) /\ Cardinality(Q) \in Nat /\ Cardinality(P) \in Nat
      BY <1>8, <2>1, SmallerSet
    <3> QED BY <1>8, <3>1
  <2>3. row'[id] = row[id]
    BY <1>3, <1>9 DEF ClaimDue
  <2>4. \A v \in Workers : Carries(v, id) => Carries(v, id)'
    BY <1>1, <1>4 DEF Carries
  <2> QED BY <1>1, <1>2, <1>6, <1>7, <2>2, <2>3, <2>4, SpentKept, BudgetKeeps
<1>10. CASE id = j
  <2>1. Q \subseteq P \cup {w}
    BY <1>4 DEF Pending
  <2>2. Load(id)' <= Load(id) + 1
    <3> HIDE DEF P, Q, m
    <3>1. Cardinality(Q) <= Cardinality(P) + 1 /\ Cardinality(Q) \in Nat /\ Cardinality(P) \in Nat
      BY <1>8, <2>1, OneMore
    <3> QED BY <1>8, <3>1
  <2>3. ~Spent(id)
    BY <1>3, <1>10 DEF ClaimDue, Claimable, Spent, Carried, Terminal, RowOK
  <2>4. Spent(id)'
    <3> DEFINE c == [row[j] EXCEPT !.state = "PROCESSING", !.token = w, !.live = TRUE]
    <3>1. row[j] \in Rows /\ row'[j] = c
      BY <1>3 DEF ClaimDue
    <3>2. c.token = w /\ c.live
      BY <3>1, ClaimedFits
    <3> HIDE DEF c
    <3> QED BY <1>4, <1>10, <3>1, <3>2 DEF Spent, Carried, Carries
  <2> QED BY <1>1, <1>2, <1>6, <1>7, <2>2, <2>3, <2>4, BudgetKeeps
<1> QED BY <1>9, <1>10

\* A run lets its reminder go, or finds it gone.
LEMMA LetGoBudget ==
  ASSUME OutboxInv, TypeOK', NEW id \in Reminders, NEW w \in Workers, NEW j \in Reminders,
         j = worker[w].id, worker' = [worker EXCEPT ![w] = At("claim")],
         UNCHANGED <<mailed, backwards, faults, runLock>>,
         worker[w].pc \in {"prepare", "send", "sending"},
         \A i \in Reminders \ {j} : row'[i] = row[i],
         \/ worker[w].pc = "send"
         \/ row'[j] = row[j] /\ (row[j].token = w => ~Carried(j))
         \/ row'[j].state \in Terminal
  PROVE  Budget(id)'
<1>1. Sizes(id) /\ Sizes(id)' /\ Budget(id)
  BY SizesOK, SizesAfter DEF OutboxInv
<1>2. worker \in [Workers -> Runs]
  BY DEF OutboxInv, TypeOK
<1>3. worker'[w].pc = "claim" /\ \A v \in Workers \ {w} : worker'[v] = worker[v]
  BY <1>2, RunFits
<1>4. \A v \in Workers : Calmer(v)
  BY <1>3 DEF Calmer
<1>5. CASE id # j
  <2>1. \A v \in Workers : Carries(v, id) => Carries(v, id)'
    BY <1>3, <1>5 DEF Carries
  <2>2. row'[id] = row[id]
    BY <1>5
  <2> QED BY <1>1, <1>4, <2>1, <2>2, SpentKept, Calm, BudgetKeeps
<1>6. CASE id = j /\ worker[w].pc = "send"
  <2>1. w \in Pending(id) /\ w \notin Pending(id)'
    BY <1>3, <1>6 DEF Pending
  <2> QED BY <1>1, <1>4, <2>1, Calm, BudgetKeeps
<1>7. CASE id = j /\ row'[j].state \in Terminal
  <2>1. Spent(id)'
    BY <1>7 DEF Spent
  <2> QED BY <1>1, <1>4, <2>1, Calm, BudgetKeeps
<1>8. CASE id = j /\ row'[j] = row[j] /\ (row[j].token = w => ~Carried(j))
  <2>1. Carried(id) => Carried(id)'
    <3>1. ASSUME NEW v \in Workers, row[id].token = v, Carries(v, id), row[id].live
          PROVE  v # w
      BY <1>8, <3>1 DEF Carried
    <3>2. \A v \in Workers \ {w} : Carries(v, id) => Carries(v, id)'
      BY <1>3 DEF Carries
    <3> QED BY <1>8, <3>1, <3>2 DEF Carried
  <2>2. Spent(id) => Spent(id)'
    BY <1>8, <2>1 DEF Spent
  <2> QED BY <1>1, <1>4, <2>2, Calm, BudgetKeeps
<1> QED BY <1>5, <1>6, <1>7, <1>8

LEMMA GiveBackBudget ==
  ASSUME OutboxInv, TypeOK', NEW id \in Reminders, NEW w \in Workers, GiveBack(w)
  PROVE  Budget(id)'
<1>1. PICK j \in Reminders : j = worker[w].id
  BY DEF OutboxInv, RunOK, GiveBack
<1>2. \A i \in Reminders \ {j} : row'[i] = row[i]
  BY <1>1 DEF GiveBack, WriteResult, OutboxInv, TypeOK
<1> QED BY <1>1, <1>2, LetGoBudget DEF GiveBack, mailVars

LEMMA RecordBudget ==
  ASSUME OutboxInv, TypeOK', NEW id \in Reminders, NEW w \in Workers, Record(w)
  PROVE  Budget(id)'
<1>0. TypeOK /\ RunOK(w) /\ row \in [Reminders -> Rows]
  BY DEF OutboxInv, TypeOK
<1>1. PICK j \in Reminders : j = worker[w].id
  BY <1>0 DEF RunOK, Record
<1>2. worker[w].answer \in Answers /\ worker[w].pc = "sending"
      /\ worker' = [worker EXCEPT ![w] = At("claim")]
      /\ UNCHANGED <<mailed, backwards, faults, runLock>>
  BY <1>0 DEF RunOK, Record, mailVars
<1>3. RowOK(j) /\ row[j] \in Rows
  BY <1>0 DEF OutboxInv
<1>4. \A i \in Reminders \ {j} : row'[i] = row[i]
  BY <1>0, <1>1 DEF Record, WriteResult
<1>5. CASE row[j].token = w /\ Carried(j)
  <2>1. worker[w].answer = "sent" /\ row[j].live
    BY <1>2, <1>5 DEF Carried, Carries
  <2>2. Holds(w) /\ HoldsLive(w)
    BY <1>1, <1>3, <1>5, <2>1 DEF Holds, HoldsLive, RowOK
  <2>3. worker[w].fenced
    BY <1>0, <2>2 DEF RunOK
  <2>4. row'[j] = Released(row[j], "SENT")
    BY <1>0, <1>1, <1>2, <2>1, <2>2, <2>3 DEF Record, WriteResult, Result
  <2>5. row'[j].state \in Terminal
    BY <1>3, <2>4, ReleasedFits DEF Terminal
  <2> QED BY <1>1, <1>2, <1>4, <2>5, LetGoBudget
<1>6. CASE ~Holds(w) \/ ~worker[w].fenced
  <2>1. row'[j] = row[j]
    BY <1>0, <1>1, <1>6 DEF Record, WriteResult
  <2>2. CASE row[j].token = w => ~Carried(j)
    BY <1>1, <1>2, <1>4, <2>1, <2>2, LetGoBudget
  <2> QED BY <1>5, <2>2
<1>7. CASE Holds(w) /\ worker[w].fenced /\ ~(row[j].token = w /\ Carried(j))
  <2>1. ~Spent(j)
    BY <1>1, <1>7 DEF Holds, Spent, Terminal
  <2>2. worker \in [Workers -> Runs]
    BY <1>0 DEF TypeOK
  <2>3. worker'[w].pc = "claim" /\ \A v \in Workers \ {w} : worker'[v] = worker[v]
    BY <1>2, <2>2, RunFits
  <2>4. \A v \in Workers : Calmer(v)
    BY <1>2, <2>3 DEF Calmer
  <2>5. Spent(id) => Spent(id)'
    <3>1. CASE id # j
      <4>1. \A v \in Workers : Carries(v, id) => Carries(v, id)'
        BY <1>1, <2>3, <3>1 DEF Carries
      <4> QED BY <1>4, <3>1, <4>1, SpentKept
    <3> QED BY <2>1, <3>1
  <2>6. Sizes(id) /\ Sizes(id)' /\ Budget(id)
    BY SizesOK, SizesAfter DEF OutboxInv
  <2> QED BY <1>2, <2>4, <2>5, <2>6, Calm, BudgetKeeps
<1> QED BY <1>5, <1>6, <1>7

\* Nothing later has left when the second check finds nothing later due.
LEMMA NotOvertaken ==
  ASSUME OutboxInv, NEW id \in Reminders, ~Superseded(id)
  PROVE  ~Overtaken(id)
<1> SUFFICES ASSUME NEW other \in Reminders, Later(id, other), mailed[other] > 0
             PROVE  Superseded(id)
  BY DEF Overtaken
<1>1. row[other].state # "none" /\ Due(other) <= now
  BY DEF OutboxInv, RowOK
<1>2. row[other] # NoRow
  BY <1>1 DEF NoRow
<1> QED BY <1>1, <1>2 DEF Superseded

LEMMA PrepareBudget ==
  ASSUME OutboxInv, TypeOK', NEW id \in Reminders, NEW w \in Workers, Prepare(w)
  PROVE  Budget(id)'
<1>0. TypeOK /\ RunOK(w) /\ row \in [Reminders -> Rows] /\ worker \in [Workers -> Runs]
      /\ mailed[id] \in Nat
  BY DEF OutboxInv, TypeOK
<1>1. PICK j \in Reminders : j = worker[w].id
  BY <1>0 DEF RunOK, Prepare
<1>2. worker[w].pc = "prepare" /\ UNCHANGED <<mailed, backwards, faults, runLock>>
  BY DEF Prepare, mailVars
<1>3. RowOK(j) /\ row[j] \in Rows
  BY <1>0 DEF OutboxInv
<1>4. CASE worker' = [worker EXCEPT ![w] = At("claim")]
  <2>1. \A i \in Reminders \ {j} : row'[i] = row[i]
    BY <1>0, <1>1 DEF Prepare, WriteResult
  <2>2. CASE HoldsLive(w)
    <3>1. row' = row \/ row'[j] = Released(row[j], "CANCELED")
      BY <1>0, <1>1, <2>2 DEF Prepare, WriteResult, HoldsLive
    <3>2. worker'[w] # [worker[w] EXCEPT !.pc = "send"]
      BY <1>0, <1>4 DEF At, Runs
    <3>3. row'[j] = Released(row[j], "CANCELED")
      BY <1>0, <1>1, <2>2, <3>2 DEF Prepare, WriteResult, HoldsLive
    <3>4. row'[j].state \in Terminal
      BY <1>3, <3>3, ReleasedFits DEF Terminal
    <3> QED BY <1>1, <1>2, <1>4, <2>1, <3>4, LetGoBudget
  <2>3. CASE ~HoldsLive(w)
    <3>1. row'[j] = row[j]
      BY <1>0, <2>3 DEF Prepare
    <3>2. row[j].token = w => ~Carried(j)
      BY <1>1, <1>3, <2>3 DEF HoldsLive, Holds, Carried, RowOK
    <3> QED BY <1>1, <1>2, <1>4, <2>1, <3>1, <3>2, LetGoBudget
  <2> QED BY <2>2, <2>3
<1>5. CASE worker' # [worker EXCEPT ![w] = At("claim")]
  <2>1. worker' = [worker EXCEPT ![w].pc = "send"] /\ row' = row /\ ~Superseded(j)
    BY <1>1, <1>5 DEF Prepare
  <2>2. /\ worker'[w].pc = "send" /\ worker'[w].id = j
        /\ \A v \in Workers \ {w} : worker'[v] = worker[v]
    BY <1>0, <1>1, <2>1 DEF Runs
  <2>3. Pending(id)' = Pending(id) /\ Rogue' = Rogue
    BY <1>1, <1>2, <2>2 DEF Pending, Rogue
  <2>4. Load(id)' <= Load(id) /\ Rogues' <= Rogues
    <3>1. Load(id)' = Load(id) /\ Rogues' = Rogues
      BY <1>2, <2>3 DEF Load, Rogues
    <3>2. Load(id) \in Nat /\ Rogues \in Nat
      BY <1>0, SizesOK DEF Sizes
    <3> QED BY <3>1, <3>2
  <2>5. Behind(id)' => Behind(id)
    <3>1. Overtaken(id)' <=> Overtaken(id)
      BY <1>2 DEF Overtaken
    <3>2. ~Overtaken(j)
      BY <2>1, NotOvertaken
    <3>3. \A v \in Workers : worker'[v].pc = "send" /\ worker'[v].id = id =>
             id = j \/ (worker[v].pc = "send" /\ worker[v].id = id)
      BY <2>2
    <3> QED BY <1>2, <3>1, <3>2, <3>3 DEF Behind
  <2>6. \A v \in Workers : Carries(v, id) => Carries(v, id)'
    BY <1>1, <2>2 DEF Carries
  <2>7. Sizes(id) /\ Sizes(id)' /\ Budget(id) /\ row'[id] = row[id]
    BY <2>1, SizesOK, SizesAfter DEF OutboxInv
  <2> QED BY <1>2, <2>4, <2>5, <2>6, <2>7, SpentKept, BudgetKeeps
<1> QED BY <1>4, <1>5

\* Two runs at work: one of them has lost the lock.
LEMMA TwoRuns ==
  ASSUME NEW v \in Workers, NEW w \in Workers, v # w,
         worker[v].pc # "idle", worker[w].pc # "idle"
  PROVE  Rogues >= 1
<1>1. v \in Rogue \/ w \in Rogue
  BY DEF Rogue
<1> QED BY <1>1, SetsFinite, SomeElement DEF Rogues

LEMMA SendBudget ==
  ASSUME OutboxInv, TypeOK', NEW id \in Reminders, NEW w \in Workers, SendMail(w)
  PROVE  Budget(id)'
<1>0. TypeOK /\ RunOK(w) /\ row' = row /\ runLock' = runLock /\ worker[w].pc = "send"
      /\ worker \in [Workers -> Runs] /\ mailed[id] \in Nat /\ mailed \in [Reminders -> Nat]
      /\ backwards \in [Reminders -> Nat]
  BY DEF OutboxInv, TypeOK, SendMail
<1>1. PICK j \in Reminders : j = worker[w].id
  BY <1>0 DEF RunOK
<1>2. PICK a \in Answers :
        /\ worker' = [worker EXCEPT ![w].pc = "sending", ![w].answer = a]
        /\ \/ a = "sent" /\ Accepted(j) /\ faults' = faults
           \/ a \in {"retry", "refused"} /\ Accepted(j) /\ Fault
           \/ a # "sent" /\ UNCHANGED <<mailVars, faults>>
  BY <1>1 DEF SendMail
<1>3. /\ worker'[w].pc = "sending" /\ worker'[w].id = j /\ worker'[w].answer = a
      /\ \A v \in Workers \ {w} : worker'[v] = worker[v]
  BY <1>0, <1>1, <1>2 DEF Runs
<1>4. \A v \in Workers : Calmer(v)
  BY <1>0, <1>3 DEF Calmer
<1>5. Sizes(id) /\ Sizes(id)' /\ Budget(id)
  BY SizesOK, SizesAfter DEF OutboxInv
<1>6. Rogues' <= Rogues
  BY <1>4, CalmSets, SetsFinite, SmallerSet DEF Rogues
<1>7. Accepted(j) \/ UNCHANGED <<mailed, backwards>>
  BY <1>2 DEF mailVars
<1>8. Behind(id)' => Behind(id) \/ Rogues >= 1
  <2>1. CASE UNCHANGED <<mailed, backwards>>
    BY <1>4, <2>1, Calm
  <2>2. CASE Accepted(j)
    <3>1. CASE backwards'[id] > 0
      <4>1. backwards'[id] = backwards[id] \/ (id = j /\ Overtaken(j))
        BY <1>0, <2>2 DEF Accepted
      <4> QED BY <1>0, <1>1, <3>1, <4>1 DEF Behind
    <3>2. CASE Overtaken(id)' /\ \E v \in Workers : worker'[v].pc = "send" /\ worker'[v].id = id
      <4>1. PICK v \in Workers : worker'[v].pc = "send" /\ worker'[v].id = id
        BY <3>2
      <4>2. v # w /\ worker[v].pc = "send"
        BY <1>3, <4>1
      <4> QED BY <1>0, <4>2, TwoRuns
    <3> QED BY <3>1, <3>2 DEF Behind
  <2> QED BY <1>7, <2>1, <2>2
<1> DEFINE P == Pending(id)  Q == Pending(id)'  m == mailed[id]  n == mailed'[id]
<1>9. /\ Load(id) = m + Cardinality(P) /\ Load(id)' = n + Cardinality(Q) /\ m \in Nat
      /\ IsFiniteSet(P) /\ Q \subseteq P /\ (id = j => w \in P /\ Q \subseteq P \ {w})
  <2>1. Q \subseteq P
    BY <1>4, CalmSets
  <2>2. id = j => w \in P /\ Q \subseteq P \ {w}
    BY <1>0, <1>1, <1>3, <2>1 DEF Pending
  <2> QED BY <1>0, <2>1, <2>2, SetsFinite DEF Load
<1>10. n = m \/ (id = j /\ n = m + 1)
  BY <1>0, <1>7 DEF Accepted
<1>11. Load(id)' <= Load(id) /\ (id = j /\ n = m => Load(id)' + 1 <= Load(id))
  <2> HIDE DEF P, Q, m, n
  <2>1. Cardinality(Q) <= Cardinality(P) /\ Cardinality(Q) \in Nat /\ Cardinality(P) \in Nat
    BY <1>9, SmallerSet
  <2>2. id = j => Cardinality(Q) + 1 <= Cardinality(P)
    BY <1>9, OneLess
  <2>3. CASE n = m
    BY <1>9, <2>1, <2>2, <2>3
  <2>4. CASE id = j /\ n = m + 1
    BY <1>9, <2>1, <2>2, <2>4
  <2> QED BY <1>10, <2>3, <2>4
<1>12. CASE faults' = faults + 1
  BY <1>5, <1>6, <1>8, <1>11, <1>12, BudgetKeeps
<1>13. CASE a = "sent" /\ faults' = faults
  <2>1. \A v \in Workers : Carries(v, id) => Carries(v, id)'
    BY <1>1, <1>3, <1>13 DEF Carries
  <2>2. row'[id] = row[id]
    BY <1>0
  <2> QED BY <1>5, <1>6, <1>8, <1>11, <1>13, <2>1, <2>2, SpentKept, BudgetKeeps
<1>14. CASE UNCHANGED <<mailVars, faults>>
  <2>1. n = m /\ faults' = faults
    BY <1>14 DEF mailVars
  <2>2. CASE id = j
    BY <1>5, <1>6, <1>8, <1>11, <2>1, <2>2, BudgetKeeps
  <2>3. CASE id # j
    <3>1. \A v \in Workers : Carries(v, id) => Carries(v, id)'
      BY <1>1, <1>3, <2>3 DEF Carries
    <3>2. row'[id] = row[id]
      BY <1>0
    <3> QED BY <1>5, <1>6, <1>8, <1>11, <2>1, <3>1, <3>2, SpentKept, BudgetKeeps
  <2> QED BY <2>2, <2>3
<1> QED BY <1>2, <1>12, <1>13, <1>14 DEF Fault

LEMMA BudgetStep ==
  ASSUME OutboxInv, TypeOK', [Next]_vars, NEW id \in Reminders
  PROVE  Budget(id)'
<1>1. ASSUME NEW w \in Workers,
             \/ EndRun(w) \/ Prepare(w) \/ SendMail(w) \/ Record(w) \/ GiveBack(w)
             \/ StartRun(w) \/ LoseFence(w) \/ Interrupt(w) \/ CrashRun(w)
      PROVE  Budget(id)'
  BY <1>1, PrepareBudget, SendBudget, RecordBudget, GiveBackBudget, RunBudget
<1>2. CASE LockExpires
  BY <1>2, LockBudget
<1>3. ASSUME NEW j \in Reminders, LeaseExpires(j) PROVE Budget(id)'
  BY <1>3, LeaseBudget
<1>4. CASE \/ UNCHANGED vars \/ Tick \/ SetFit \/ Generate
           \/ \E e \in 0 .. MaxDay : MoveExpiry(e)
           \/ \E on \in BOOLEAN : SetConsent(on)
  BY <1>4, AroundBudget
<1>5. ASSUME NEW w \in Workers, NEW j \in Reminders, ClaimDue(w, j) PROVE Budget(id)'
  BY <1>5, ClaimBudget
<1> QED BY <1>1, <1>2, <1>3, <1>4, <1>5, NextCases DEF Unclaimed

-----------------------------------------------------------------------------
(* Lost locks, and mails that nobody wants any more.                       *)

\* The set of runs without the lock only grows by a fault.
LEMMA RogueStep ==
  ASSUME OutboxInv, TypeOK', [Next]_vars
  PROVE  Rogues' <= faults'
<1>0. Rogues <= faults /\ Rogues \in Nat /\ faults \in Nat /\ worker \in [Workers -> Runs]
  BY SetsFinite, ReminderConstants DEF OutboxInv, TypeOK, Rogues
<1>1. CASE LockExpires
  <2>2. UNCHANGED worker /\ runLock' = None
    BY <1>1 DEF LockExpires
  <2>3. Rogue' \subseteq Rogue \cup {runLock} /\ IsFiniteSet(Rogue)
    BY <2>2, SetsFinite DEF Rogue
  <2>4. CASE faults' = faults + 1
    <3>1. Rogues' <= Rogues + 1 /\ Rogues' \in Nat
      BY <2>3, OneMore DEF Rogues
    <3> QED BY <1>0, <2>4, <3>1
  <2>5. CASE faults' = faults /\ worker[runLock] = Idle
    <3>1. Rogue' \subseteq Rogue
      BY <2>2, <2>5 DEF Rogue, Idle, At
    <3>2. Rogues' <= Rogues /\ Rogues' \in Nat
      BY <2>3, <3>1, SmallerSet DEF Rogues
    <3> QED BY <1>0, <2>5, <3>2
  <2> QED BY <1>1, <2>4, <2>5 DEF LockExpires, Fault
<1>2. CASE ~LockExpires
  <2>1. Rogue' \subseteq Rogue
    <3>1. ASSUME NEW v \in Workers, worker'[v].pc # "idle", v # runLock'
          PROVE  worker[v].pc # "idle" /\ v # runLock
      <4>1. CASE UNCHANGED <<worker, runLock>>
        BY <3>1, <4>1
      <4>2. ASSUME NEW w \in Workers, NEW j \in Reminders, ClaimDue(w, j)
            PROVE  worker[v].pc # "idle" /\ v # runLock
        BY <1>0, <3>1, <4>2 DEF ClaimDue
      <4>3. ASSUME NEW w \in Workers, Prepare(w) \/ SendMail(w) \/ Record(w) \/ GiveBack(w) \/ LoseFence(w)
            PROVE  worker[v].pc # "idle" /\ v # runLock
        <5>1. worker[w].pc # "idle" /\ runLock' = runLock
              /\ \A u \in Workers \ {w} : worker'[u] = worker[u]
          BY <1>0, <4>3 DEF Prepare, SendMail, Record, GiveBack, LoseFence
        <5> QED BY <3>1, <5>1
      <4>4. ASSUME NEW w \in Workers, StartRun(w)
            PROVE  worker[v].pc # "idle" /\ v # runLock
        BY <1>0, <3>1, <4>4, ReminderConstants DEF StartRun
      <4>5. ASSUME NEW w \in Workers, EndRun(w) \/ Interrupt(w) \/ CrashRun(w)
            PROVE  worker[v].pc # "idle" /\ v # runLock
        <5>1. worker' = [worker EXCEPT ![w] = Idle] /\ Idle.pc = "idle"
          BY <4>5, RunFits DEF EndRun, Interrupt, CrashRun
        <5>2. v # w /\ worker'[v] = worker[v]
          BY <1>0, <3>1, <5>1
        <5>3. runLock' = runLock \/ runLock = w
          BY <4>5 DEF EndRun, Interrupt, CrashRun
        <5> QED BY <3>1, <5>2, <5>3
      <4>6. CASE \/ UNCHANGED vars \/ Tick \/ SetFit \/ Generate
                 \/ \E e \in 0 .. MaxDay : MoveExpiry(e)
                 \/ \E on \in BOOLEAN : SetConsent(on)
                 \/ \E id \in Reminders : LeaseExpires(id)
        BY <4>1, <4>6 DEF vars, Tick, SetFit, Generate, MoveExpiry, SetConsent, LeaseExpires
      <4> QED BY <1>2, <4>2, <4>3, <4>4, <4>5, <4>6, NextCases DEF Unclaimed
    <3> QED BY <3>1 DEF Rogue
  <2>2. Rogues' <= Rogues /\ Rogues' \in Nat
    BY <2>1, SetsFinite, SmallerSet DEF Rogues
  <2>3. faults' = faults \/ faults' = faults + 1
    BY <1>2 DEF Next, WorkerStep, Tick, SetFit, Generate, MoveExpiry, SetConsent, LeaseExpires,
       EndRun, Prepare, SendMail, Record, GiveBack, ClaimDue, StartRun, LoseFence, Interrupt,
       CrashRun, vars, Fault
  <2> QED BY <1>0, <2>2, <2>3
<1> QED BY <1>1, <1>2

\* Unless the user changes something, a run past its last check sends a wanted mail.
LEMMA AstrayKept ==
  ASSUME OutboxInv, TypeOK', UNCHANGED userVars, UNCHANGED late, faults' >= faults,
         \A v \in Workers : worker'[v].pc = "send" =>
           worker'[v].id = worker[v].id /\ (worker[v].pc = "send" \/ ~Unwanted(worker[v].id))
  PROVE  late' + Cardinality(Astray') <= 1 + faults'
<1>0. late + Cardinality(Astray) <= 1 + faults /\ late \in Nat /\ faults \in Nat /\ faults' \in Nat
      /\ IsFiniteSet(Astray)
  BY SetsFinite, ReminderConstants DEF OutboxInv, TypeOK
<1>1. \A i : Unwanted(i)' = Unwanted(i)
  BY DEF Unwanted, userVars
<1>2. Astray' \subseteq Astray
  BY <1>1 DEF Astray
<1> DEFINE S == Astray  T == Astray'  l == late  f == faults  g == faults'
<1>3. /\ IsFiniteSet(S) /\ T \subseteq S /\ l + Cardinality(S) <= 1 + f
      /\ l \in Nat /\ f \in Nat /\ g \in Nat /\ g >= f
  BY <1>0, <1>2
<1>4. late' + Cardinality(Astray') = l + Cardinality(T)
  OBVIOUS
<1> HIDE DEF S, T, l, f
<1>5. Cardinality(T) <= Cardinality(S) /\ Cardinality(T) \in Nat /\ Cardinality(S) \in Nat
  BY <1>3, SmallerSet
<1>6. l + Cardinality(T) <= 1 + g
  BY <1>3, <1>5
<1> QED BY <1>4, <1>6

\* When he does, the runs that are at work are the one with the lock and the rogues.
LEMMA AstrayAnew ==
  ASSUME OutboxInv, TypeOK', Rogues' <= faults', late' = 0
  PROVE  late' + Cardinality(Astray') <= 1 + faults'
<1> DEFINE S == Rogue'  T == Astray'  f == faults'
<1>1. IsFiniteSet(S) /\ Cardinality(S) <= f /\ f \in Nat
  <2>1. IsFiniteSet(Workers) /\ S \subseteq Workers
    BY SetsFinite DEF Rogue
  <2>2. f \in Nat
    BY ReminderConstants DEF TypeOK
  <2>3. IsFiniteSet(S)
    BY <2>1, SmallerSet
  <2> QED BY <2>2, <2>3 DEF Rogues
<1>2. T \subseteq S \cup {runLock'}
  BY DEF Astray, Rogue
<1>3. late' + Cardinality(Astray') = 0 + Cardinality(T)
  OBVIOUS
<1> HIDE DEF S, T, f
<1>4. Cardinality(T) \in Nat /\ Cardinality(S) \in Nat /\ Cardinality(T) <= Cardinality(S) + 1
  BY <1>1, <1>2, OneMore
<1>5. 0 + Cardinality(T) <= 1 + f
  BY <1>1, <1>4
<1> QED BY <1>3, <1>5 DEF f

LEMMA SendLate ==
  ASSUME OutboxInv, TypeOK', NEW w \in Workers, SendMail(w)
  PROVE  late' + Cardinality(Astray') <= 1 + faults'
<1>0. /\ late + Cardinality(Astray) <= 1 + faults /\ IsFiniteSet(Astray)
      /\ late \in Nat /\ faults \in Nat /\ late' \in Nat /\ faults' \in Nat
      /\ worker \in [Workers -> Runs] /\ worker[w].pc = "send"
  BY SetsFinite, ReminderConstants DEF OutboxInv, TypeOK, SendMail
<1>1. PICK a \in Answers :
        /\ worker' = [worker EXCEPT ![w].pc = "sending", ![w].answer = a]
        /\ \/ Accepted(worker[w].id) /\ (faults' = faults \/ faults' = faults + 1)
           \/ UNCHANGED <<mailVars, faults>>
  BY DEF SendMail, Fault
<1>2. worker'[w].pc = "sending" /\ \A v \in Workers \ {w} : worker'[v] = worker[v]
  BY <1>0, <1>1 DEF Runs
<1>3. \A i : Unwanted(i)' = Unwanted(i)
  BY DEF Unwanted, userVars, SendMail
<1>4. Astray' \subseteq Astray \ {w}
  BY <1>2, <1>3 DEF Astray
<1>5. CASE Unwanted(worker[w].id)
  <2>1. w \in Astray
    BY <1>0, <1>5 DEF Astray
  <2>2. Cardinality(Astray') + 1 <= Cardinality(Astray) /\ Cardinality(Astray') \in Nat
        /\ Cardinality(Astray) \in Nat
    BY <1>0, <1>4, <2>1, OneLess
  <2>3. late' = late \/ late' = late + 1
    BY <1>1 DEF Accepted, mailVars
  <2>4. faults' = faults \/ faults' = faults + 1
    BY <1>1
  <2> DEFINE s == Cardinality(Astray)  t == Cardinality(Astray')  l == late  m == late'
             f == faults  g == faults'
  <2>5. /\ s \in Nat /\ t \in Nat /\ t + 1 <= s /\ l + s <= 1 + f
        /\ l \in Nat /\ f \in Nat /\ (m = l \/ m = l + 1) /\ (g = f \/ g = f + 1)
    BY <1>0, <2>2, <2>3, <2>4
  <2> HIDE DEF s, t, l, m, f, g
  <2>6. m + t <= 1 + g
    BY <2>5
  <2> QED BY <2>6 DEF t, m, g
<1>6. CASE ~Unwanted(worker[w].id)
  <2>1. late' = late /\ faults' >= faults
    BY <1>0, <1>1, <1>6 DEF Accepted, mailVars
  <2>2. UNCHANGED userVars
    BY DEF SendMail
  <2>3. \A v \in Workers : worker'[v].pc = "send" =>
           worker'[v].id = worker[v].id /\ (worker[v].pc = "send" \/ ~Unwanted(worker[v].id))
    BY <1>2
  <2> QED BY <2>1, <2>2, <2>3, AstrayKept
<1> QED BY <1>5, <1>6

LEMMA LateStep ==
  ASSUME OutboxInv, TypeOK', [Next]_vars
  PROVE  late' + Cardinality(Astray') <= 1 + faults'
<1>0. TypeOK /\ worker \in [Workers -> Runs] /\ faults \in Nat
  BY ReminderConstants DEF OutboxInv, TypeOK
<1>1. CASE SetFit \/ (\E e \in 0 .. MaxDay : MoveExpiry(e)) \/ \E on \in BOOLEAN : SetConsent(on)
  <2>1. late' = 0
    BY <1>1 DEF SetFit, MoveExpiry, SetConsent
  <2> QED BY <2>1, RogueStep, AstrayAnew
<1>2. ASSUME UNCHANGED userVars, UNCHANGED late, faults' = faults \/ faults' = faults + 1,
             \A v \in Workers : worker'[v].pc = "send" => worker'[v] = worker[v]
      PROVE  late' + Cardinality(Astray') <= 1 + faults'
  <2>1. faults' >= faults
    BY <1>0, <1>2
  <2> QED BY <1>2, <2>1, AstrayKept
<1>3. CASE UNCHANGED vars \/ Tick \/ Generate \/ LockExpires \/ \E j \in Reminders : LeaseExpires(j)
  BY <1>2, <1>3 DEF vars, Tick, Generate, LockExpires, LeaseExpires, userVars, mailVars, Fault
<1>4. ASSUME NEW w \in Workers, SendMail(w)
      PROVE  late' + Cardinality(Astray') <= 1 + faults'
  BY <1>4, SendLate
<1>5. ASSUME NEW w \in Workers, Prepare(w)
      PROVE  late' + Cardinality(Astray') <= 1 + faults'
  <2>0. UNCHANGED userVars /\ UNCHANGED late /\ faults' = faults
    BY <1>5 DEF Prepare, mailVars
  <2>1. CASE worker' = [worker EXCEPT ![w] = At("claim")]
    <3>1. \A v \in Workers : worker'[v].pc = "send" => worker'[v] = worker[v]
      BY <1>0, <2>1, RunFits
    <3> QED BY <1>2, <2>0, <3>1
  <2>2. CASE worker' = [worker EXCEPT ![w].pc = "send"] /\ Wanted(worker[w].id)
    <3>1. ~Unwanted(worker[w].id)
      BY <2>2 DEF Wanted, Unwanted
    <3>2. worker'[w].id = worker[w].id /\ \A v \in Workers \ {w} : worker'[v] = worker[v]
      BY <1>0, <2>2 DEF Runs
    <3>3. faults' >= faults
      BY <1>0, <2>0
    <3>4. \A v \in Workers : worker'[v].pc = "send" =>
             worker'[v].id = worker[v].id /\ (worker[v].pc = "send" \/ ~Unwanted(worker[v].id))
      BY <3>1, <3>2
    <3> QED BY <2>0, <3>3, <3>4, AstrayKept
  <2> QED BY <1>5, <2>1, <2>2 DEF Prepare
<1>6. ASSUME NEW w \in Workers, NEW j \in Reminders, ClaimDue(w, j)
      PROVE  late' + Cardinality(Astray') <= 1 + faults'
  <2>1. worker'[w].pc = "prepare" /\ \A v \in Workers \ {w} : worker'[v] = worker[v]
    BY <1>0, <1>6, RunFits DEF ClaimDue
  <2> QED BY <1>2, <1>6, <2>1 DEF ClaimDue, mailVars
<1>7. ASSUME NEW w \in Workers, StartRun(w) \/ EndRun(w) \/ Interrupt(w) \/ CrashRun(w)
                                \/ Record(w) \/ GiveBack(w)
      PROVE  late' + Cardinality(Astray') <= 1 + faults'
  <2>1. worker' = [worker EXCEPT ![w] = At("claim")] \/ worker' = [worker EXCEPT ![w] = Idle]
    BY <1>7 DEF StartRun, EndRun, Interrupt, CrashRun, Record, GiveBack
  <2>2. worker'[w].pc # "send" /\ \A v \in Workers \ {w} : worker'[v] = worker[v]
    BY <1>0, <2>1, RunFits
  <2>3. UNCHANGED userVars /\ UNCHANGED late /\ (faults' = faults \/ faults' = faults + 1)
    BY <1>7 DEF StartRun, EndRun, Interrupt, CrashRun, Record, GiveBack, mailVars, Fault
  <2> QED BY <1>2, <2>2, <2>3
<1>8. ASSUME NEW w \in Workers, LoseFence(w)
      PROVE  late' + Cardinality(Astray') <= 1 + faults'
  <2>1. \A v \in Workers : worker'[v].pc = worker[v].pc /\ worker'[v].id = worker[v].id
    BY <1>0, <1>8 DEF LoseFence, Runs
  <2>2. UNCHANGED userVars /\ UNCHANGED late /\ faults' = faults
    BY <1>8 DEF LoseFence, mailVars
  <2>3. faults' >= faults
    BY <1>0, <2>2
  <2> QED BY <2>1, <2>2, <2>3, AstrayKept
<1> QED BY <1>1, <1>3, <1>4, <1>5, <1>6, <1>7, <1>8, NextCases DEF Unclaimed

-----------------------------------------------------------------------------
(* The invariant and what follows from it.                                 *)

LEMMA InvInit == Init => OutboxInv
<1> SUFFICES ASSUME Init PROVE OutboxInv
  OBVIOUS
<1>1. TypeOK
  <2>1. NoRow \in Rows /\ Idle \in Runs
    BY RunFits DEF NoRow, Rows
  <2>2. 0 \in 0 .. MaxDay /\ 0 \in 0 .. MaxFaults
    BY ReminderConstants
  <2> QED BY <2>1, <2>2, ReminderConstants DEF Init, TypeOK, NoRow
<1>2. /\ \A w \in Workers : worker[w].pc = "idle" /\ worker[w].fenced = TRUE
      /\ \A id \in Reminders : mailed[id] = 0 /\ backwards[id] = 0 /\ ~row[id].live
      /\ late = 0 /\ faults = 0
  BY RunFits DEF Init, NoRow
<1>3. Rogue = {} /\ Astray = {} /\ \A id : Pending(id) = {}
  BY <1>2 DEF Rogue, Astray, Pending
<1>4. Cardinality({}) = 0
  BY FS_EmptySet
<1>5. ASSUME NEW id \in Reminders PROVE RowOK(id) /\ Budget(id)
  <2>1. RowOK(id)
    BY <1>2 DEF RowOK
  <2>2. Load(id) = 0 /\ Rogues = 0
    <3>1. mailed[id] = 0 /\ Pending(id) = {}
      BY <1>2, <1>3
    <3>2. Load(id) = 0 + Cardinality({}) /\ Rogues = Cardinality({})
      BY <1>3, <3>1 DEF Load, Rogues
    <3> QED BY <1>4, <3>2
  <2>3. ~Behind(id)
    BY <1>2 DEF Behind
  <2> QED BY <1>2, <2>1, <2>2, <2>3 DEF Budget, Within
<1>6. \A w \in Workers : RunOK(w)
  BY <1>2 DEF RunOK
<1>7. Rogues <= faults /\ late + Cardinality(Astray) <= 1 + faults
  BY <1>2, <1>3, <1>4 DEF Rogues
<1> QED BY <1>1, <1>5, <1>6, <1>7 DEF OutboxInv

LEMMA InvStep == OutboxInv /\ [Next]_vars => OutboxInv'
<1> SUFFICES ASSUME OutboxInv, [Next]_vars PROVE OutboxInv'
  OBVIOUS
<1>1. TypeOK'
  BY TypeStep
<1>2. \A id \in Reminders : RowOK(id)' /\ Budget(id)'
  BY <1>1, RowStep, BudgetStep
<1>3. \A w \in Workers : RunOK(w)'
  BY RunStep
<1>4. Rogues' <= faults' /\ late' + Cardinality(Astray') <= 1 + faults'
  BY <1>1, RogueStep, LateStep
<1> QED BY <1>1, <1>2, <1>3, <1>4 DEF OutboxInv

(* Budgets, fences and run locks account for every mail at every moment.   *)
THEOREM InvariantHolds == Spec => []OutboxInv
<1>1. Init => OutboxInv
  BY InvInit
<1>2. OutboxInv /\ [Next]_vars => OutboxInv'
  BY InvStep
<1> QED BY <1>1, <1>2, PTL DEF Spec

(* The columns of a reminder and the program counters keep their types, and *)
(* a row in PROCESSING has a token and no other row has one.               *)
THEOREM TypeCorrect == Spec => []TypeOK
<1>1. OutboxInv => TypeOK
  BY DEF OutboxInv
<1> QED BY <1>1, InvariantHolds, PTL

LEMMA BudgetSuffices == OutboxInv => RemindedOnce
<1> SUFFICES ASSUME OutboxInv, NEW id \in Reminders
             PROVE  mailed[id] <= 1 + faults /\ backwards[id] <= faults
  BY DEF RemindedOnce
<1> DEFINE m == mailed[id]  b == backwards[id]  p == Cardinality(Pending(id))  r == Rogues
           f == faults
<1>1. /\ m \in Nat /\ b \in Nat /\ p \in Nat /\ r \in Nat /\ f \in Nat /\ b <= m
      /\ m + p + r <= f + 1 /\ (b > 0 => m + p + 1 <= f + 1)
  BY SetsFinite, ReminderConstants
     DEF OutboxInv, TypeOK, RowOK, Budget, Within, Load, Rogues, Behind
<1> HIDE DEF m, b, p, r, f
<1>2. m <= 1 + f /\ b <= f
  BY <1>1
<1> QED BY <1>2 DEF m, b, f

(* Whatever the runs, thresholds and faults: the mail server accepts a      *)
(* reminder once, and never after a later one of the same expiry, except    *)
(* once more for each crash, lost answer, lost lease or lost run lock.      *)
THEOREM Reminded == Spec => []RemindedOnce
<1>1. OutboxInv => RemindedOnce
  BY BudgetSuffices
<1> QED BY <1>1, InvariantHolds, PTL

(* Since the user last changed anything at most one unwanted mail has left, *)
(* and one more for each fault: only the run with the lock and the runs     *)
(* that lost it can be past the check of prepare_delivery.                  *)
THEOREM UserWins == Spec => []ChangesWin
<1>1. OutboxInv => ChangesWin
  <2>1. ASSUME OutboxInv PROVE ChangesWin
    <3> DEFINE l == late  s == Cardinality(Astray)  f == faults
    <3>1. l \in Nat /\ s \in Nat /\ f \in Nat /\ l + s <= 1 + f
      BY <2>1, SetsFinite, ReminderConstants DEF OutboxInv, TypeOK
    <3> HIDE DEF l, s, f
    <3>2. l <= 1 + f
      BY <3>1
    <3> QED BY <3>2 DEF l, f, ChangesWin
  <2> QED BY <2>1
<1> QED BY <1>1, InvariantHolds, PTL
=============================================================================
