------------------------ MODULE ReferralRewardProofs ------------------------
(***************************************************************************)
(* Proofs about ReferralReward, for any number of rewards, payments,       *)
(* recipients, workers and faults.                                         *)
(***************************************************************************)
EXTENDS ReferralReward, TLAPS

Moneys == {"none", "due", "received", "void", "returned"}
Deliveries == {"no", "doing", "done", "review"}

\* The payment of r was proved before every other payment of its user.
First(r) == earlier[SourceOf[r]] = {} /\ Proved(SourceOf[r])

\* A row x granted e times, its payment's intents recorded or not (known), its payment
\* the first proved or not (first), refunded or not (returned).
RowOK(x, e, known, first, returned) ==
  /\ x \in Rows
  /\ RowAllowed(x)
  /\ e \in {0, 1}
  /\ ~known => x.state = "ABSENT"
  /\ x.state = "ABSENT" => ~x.won
  /\ x.state \in {"ABSENT", "PENDING", "RETRY_WAITING"} => e = 0 /\ x.target = None
  /\ x.state = "PROCESSING" /\ x.target = None => e = 0
  /\ x.target # None => x.target >= x.base + Days
  /\ x.won => first
  /\ x.first /\ (e = 1 \/ x.issued \/ x.state = "PROCESSING") => x.won
  /\ x.state \in {"ABSENT", "PENDING", "RETRY_WAITING", "PROCESSING"} => x.version = 0
  /\ x.state = "MANUAL_REQUIRED" /\ x.cause # "REFUND" => x.version = 1
  /\ x.state = "MANUAL_REQUIRED" /\ x.cause = "REFUND" => returned
  /\ x.state = "ISSUED" => x.version <= 1 \/ RuledAfterRefund(x)
  /\ x.version <= 2

RewardOK(r) ==
  RowOK(reward[r], effect[r], SourceOf[r] \in assigned, First(r), Returned(SourceOf[r]))

SourceOK(s) ==
  /\ money[s] \in Moneys /\ delivery[s] \in Deliveries /\ applied[s] \in {0, 1}
  /\ delivery[s] = "done" => money[s] \in {"received", "returned"}

\* What an iteration may rely on, whatever the others do meanwhile.
JobOK(w) ==
  LET j == worker[w]  r == worker[w].r  IN
  /\ j.pc = "lock" => j.u \in Recipients
  /\ j.pc \in {"update", "hold", "prepared", "call", "finish", "manual", "defer"}
       => r \in Rewards /\ j.u = RecipientOf[r]
  /\ j.pc = "prepared" /\ Owns(w) => Row(w).target # None /\ effect[r] = 0
  /\ Locking(w) => Owns(w) /\ Row(w).target # None /\ money[SourceOf[r]] = "received"
  /\ j.pc = "call" => effect[r] = 0 /\ AtBase(j.u, Row(w))
  /\ j.pc = "finish" => effect[r] = 1

OneMutator == \A v, w \in Workers :
  Mutating(v) /\ Mutating(w) /\ worker[v].u = worker[w].u => v = w

ReferralInv ==
  /\ TypeOK
  /\ money \in [Sources -> Moneys]
  /\ delivery \in [Sources -> Deliveries]
  /\ applied \in [Sources -> {0, 1}]
  /\ \A s \in Sources : SourceOK(s)
  /\ \A r \in Rewards : RewardOK(r)
  /\ \A w \in Workers : JobOK(w)
  /\ OneMutator
  /\ OneInFlight

LEMMA ConstantFacts ==
  /\ SourceOf \in [Rewards -> Sources]
  /\ RecipientOf \in [Rewards -> Recipients]
  /\ Days \in Nat /\ Days > 0
  /\ MaxFaults \in Nat /\ MaxDay \in Nat /\ MaxExpiry \in Nat
  /\ \A n \in Nat : n # None
  /\ \A w \in Workers : w # None
  /\ \A r \in Rewards : r # None
  /\ \A u \in Recipients : u # None
BY RewardAssumption

-----------------------------------------------------------------------------
(* The rows that the statements write.                                     *)

(* The row of a reward that does not exist yet.                            *)
LEMMA NoRowOK ==
  ASSUME NEW known \in BOOLEAN, NEW fst \in BOOLEAN, NEW ret \in BOOLEAN
  PROVE  /\ RowOK(NoRow, 0, known, fst, ret)
         /\ NoRow.state = "ABSENT" /\ ~NoRow.won /\ NoRow.token = None
BY ConstantFacts DEF NoRow, NoRuling, RowOK, RowAllowed, Rows, States, Rulings,
                     RuledAfterRefund

(* An intent is a well formed row of a reward that was never granted.      *)
LEMMA IntentOK ==
  ASSUME NEW type \in {"POINTS", "EXTRA_DAYS"}, NEW first \in BOOLEAN,
         NEW fst \in BOOLEAN, NEW ret \in BOOLEAN
  PROVE  /\ RowOK(Intent(type, first), 0, TRUE, fst, ret)
         /\ Intent(type, first).state = "PENDING" /\ Intent(type, first).token = None
         /\ ~Intent(type, first).won
<1> DEFINE x == Intent(type, first)
<1>1. NoRow \in Rows /\ RowAllowed(NoRow) /\ NoRow.version = 0 /\ NoRow.target = None
      /\ NoRow.token = None /\ ~NoRow.won /\ ~NoRow.issued
  BY NoRowOK DEF NoRow, RowOK
<1>2. x \in Rows
  BY <1>1 DEF Intent, Rows, States
<1>3. x.state = "PENDING" /\ x.type = type /\ x.first = first /\ x.won = NoRow.won
      /\ x.issued = NoRow.issued /\ x.token = NoRow.token /\ x.lease = NoRow.lease
      /\ x.base = NoRow.base /\ x.target = NoRow.target /\ x.version = NoRow.version
  BY <1>1 DEF Intent, Rows
<1> HIDE DEF x
<1>4. RowAllowed(x)
  BY <1>1, <1>3 DEF RowAllowed, NoRow
<1>5. RowOK(x, 0, TRUE, fst, ret)
  BY <1>1, <1>2, <1>3, <1>4 DEF RowOK
<1> QED BY <1>1, <1>3, <1>5 DEF x

(* A hand over leaves what was granted and won, and is counted.            *)
LEMMA ManualOK ==
  ASSUME NEW x, NEW e, NEW fst \in BOOLEAN, NEW ret \in BOOLEAN, NEW cause \in {"REFUND", "OTHER"},
         RowOK(x, e, TRUE, fst, ret),
         cause = "REFUND" => ret,
         \/ x.state \in {"PENDING", "RETRY_WAITING", "PROCESSING"}
         \/ cause = "REFUND" /\ x.state = "ISSUED" /\ ~RuledAfterRefund(x)
         \/ cause = "REFUND" /\ x.state = "MANUAL_REQUIRED" /\ x.cause # "REFUND"
  PROVE  /\ RowOK(Manual(x, cause), e, TRUE, fst, ret)
         /\ Manual(x, cause).state = "MANUAL_REQUIRED" /\ Manual(x, cause).token = None
         /\ Manual(x, cause).won = x.won
<1> DEFINE y == Manual(x, cause)
<1>1. x \in Rows /\ RowAllowed(x)
  BY DEF RowOK
<1>2. y \in Rows
  <2> DEFINE z == Freed(x, "MANUAL_REQUIRED")
  <2>1. z \in Rows
    BY <1>1 DEF Freed, Rows, States
  <2> HIDE DEF z
  <2>2. [z EXCEPT !.version = @ + 1] \in Rows
    BY <2>1 DEF Rows
  <2>3. \A t \in Rows : [t EXCEPT !.cause = cause, !.alerted = FALSE] \in Rows
    BY DEF Rows
  <2>4. [z EXCEPT !.version = @ + 1, !.cause = cause, !.alerted = FALSE] \in Rows
    BY <2>2, <2>3
  <2> QED BY <2>4 DEF Manual, z
<1>3. y.state = "MANUAL_REQUIRED" /\ y.type = x.type /\ y.first = x.first /\ y.won = x.won
      /\ y.issued = x.issued /\ y.token = None /\ y.lease = "NULL" /\ y.base = x.base
      /\ y.target = x.target /\ y.version = x.version + 1 /\ y.cause = cause
  BY <1>1 DEF Manual, Freed, Rows
<1> HIDE DEF y
<1>4. RowAllowed(y)
  BY <1>1, <1>3 DEF RowAllowed
<1>5. x.version \in Nat /\ (cause = "OTHER" => x.version = 0) /\ x.version <= 1
  <2>1. x.version \in Nat
    BY <1>1 DEF Rows
  <2>2. CASE x.state \in {"PENDING", "RETRY_WAITING", "PROCESSING"}
    BY <2>2 DEF RowOK
  <2>3. CASE cause = "REFUND" /\ x.state = "ISSUED" /\ ~RuledAfterRefund(x)
    BY <2>1, <2>3 DEF RowOK
  <2>4. CASE cause = "REFUND" /\ x.state = "MANUAL_REQUIRED" /\ x.cause # "REFUND"
    BY <2>4 DEF RowOK
  <2> QED BY <2>1, <2>2, <2>3, <2>4
<1>6. RowOK(y, e, TRUE, fst, ret)
  BY <1>2, <1>3, <1>4, <1>5 DEF RowOK
<1> QED BY <1>3, <1>6 DEF y

LEMMA SupersededOK ==
  ASSUME NEW x, NEW e, NEW fst \in BOOLEAN, NEW ret \in BOOLEAN,
         RowOK(x, e, TRUE, fst, ret),
         x.state \in {"PENDING", "RETRY_WAITING", "PROCESSING"}
  PROVE  /\ RowOK(Superseded(x), e, TRUE, fst, ret)
         /\ Superseded(x).state = "SUPERSEDED" /\ Superseded(x).token = None
         /\ Superseded(x).won = x.won
BY ConstantFacts DEF Superseded, Freed, RowOK, RowAllowed, Rows, States, RuledAfterRefund

LEMMA RetriedOK ==
  ASSUME NEW x, NEW e, NEW fst \in BOOLEAN, NEW ret \in BOOLEAN, NEW due \in BOOLEAN,
         RowOK(x, e, TRUE, fst, ret),
         x.state = "PROCESSING", x.target = None
  PROVE  /\ RowOK(Retried(x, due), e, TRUE, fst, ret)
         /\ Retried(x, due).state = "RETRY_WAITING" /\ Retried(x, due).token = None
         /\ Retried(x, due).won = x.won
BY ConstantFacts DEF Retried, Freed, RowOK, RowAllowed, Rows, States, RuledAfterRefund

LEMMA IssuedOK ==
  ASSUME NEW x, NEW e, NEW fst \in BOOLEAN, NEW ret \in BOOLEAN,
         RowOK(x, e, TRUE, fst, ret), x.state = "PROCESSING"
  PROVE  /\ RowOK(Issued(x), 1, TRUE, fst, ret)
         /\ Issued(x).state = "ISSUED" /\ Issued(x).token = None /\ Issued(x).won = x.won
<1> DEFINE y == Issued(x)
<1>1. x \in Rows /\ RowAllowed(x)
  BY DEF RowOK
<1>2. y \in Rows
  BY <1>1 DEF Issued, Freed, Rows, States
<1>3. y.state = "ISSUED" /\ y.type = x.type /\ y.first = x.first /\ y.won = x.won
      /\ y.issued = TRUE /\ y.token = None /\ y.lease = "NULL" /\ y.base = x.base
      /\ y.target = x.target /\ y.version = x.version
  BY <1>1 DEF Issued, Freed, Rows
<1> HIDE DEF y
<1>4. x.version = 0 /\ (x.first => x.won)
  BY DEF RowOK
<1>5. RowAllowed(y)
  BY <1>1, <1>3, <1>4 DEF RowAllowed
<1>6. RowOK(y, 1, TRUE, fst, ret)
  BY <1>2, <1>3, <1>4, <1>5 DEF RowOK
<1> QED BY <1>3, <1>6 DEF y

-----------------------------------------------------------------------------
(* The sweeps.                                                             *)

\* How a sweep, an alert or a clock changes a row nobody works on.
Settled(x, y, e) ==
  /\ y.state = "PROCESSING" => x.state = "PROCESSING" /\ y.token = x.token
                               /\ y.base = x.base /\ y.target = x.target
  /\ y.won = x.won
  /\ \/ Stage(y) = Stage(x)
     \/ Stage(x) = "owed" /\ e = 0 /\ Stage(y) = "closed"
     \/ Stage(x) \in {"owed", "granted"} /\ Stage(y) = "review"

LEMMA SettledTransitive ==
  ASSUME NEW x, NEW y, NEW z, NEW e, Settled(x, y, e), Settled(y, z, e)
  PROVE  Settled(x, z, e)
BY DEF Settled

LEMMA SettledSame ==
  ASSUME NEW x, NEW e
  PROVE  Settled(x, x, e)
BY DEF Settled

(* Each sweep writes a good row, and only closes what was never granted.   *)
LEMMA SweptOK ==
  ASSUME NEW r \in Rewards, RewardOK(r)
  PROVE  /\ RowOK(Swept(r), effect[r], SourceOf[r] \in assigned, First(r),
                  Returned(SourceOf[r]))
         /\ Settled(reward[r], Swept(r), effect[r])
<1> DEFINE OK(y) == RowOK(y, effect[r], SourceOf[r] \in assigned, First(r),
                          Returned(SourceOf[r]))
           fst == First(r)  ret == Returned(SourceOf[r])  e == effect[r]
           x1 == reward[r]  x2 == SweepUnproven(r, x1)  x3 == SweepExpired(x2)
           x4 == SweepRefunded(r, x3)  x5 == SweepNotFirst(r, x4)
<1>1. CASE SourceOf[r] \notin assigned
  <2>1. x1.state = "ABSENT"
    BY <1>1 DEF RewardOK, RowOK
  <2>2. x2 = x1
    BY <2>1 DEF SweepUnproven, Waiting
  <2>3. x3 = x2
    BY <2>1, <2>2 DEF SweepExpired
  <2>4. x4 = x3
    BY <2>1, <2>2, <2>3 DEF SweepRefunded, Waiting, Unreviewed
  <2>5. x5 = x4
    BY <2>1, <2>2, <2>3, <2>4 DEF SweepNotFirst, Waiting
  <2> QED BY <2>2, <2>3, <2>4, <2>5, SettledSame DEF Swept, RewardOK
<1>2. CASE SourceOf[r] \in assigned
  <2>0. /\ fst \in BOOLEAN /\ ret \in BOOLEAN
        /\ \A y : OK(y) <=> RowOK(y, e, TRUE, fst, ret)
    BY <1>2 DEF RowOK, First, Proved, Returned
  <2> HIDE DEF fst, ret
  <2>1. OK(x1) /\ Settled(x1, x1, e)
    BY SettledSame DEF RewardOK, fst, ret
  <2>2. OK(x2) /\ Settled(x1, x2, e)
    <3>1. CASE delivery[SourceOf[r]] = "review" /\ Waiting(x1)
      <4>1. x2 = Manual(x1, "OTHER")
        BY <3>1 DEF SweepUnproven
      <4>2. x1.state \in {"PENDING", "RETRY_WAITING"}
        BY <3>1 DEF Waiting
      <4> HIDE DEF x1, x2, e
      <4>3. RowOK(x2, e, TRUE, fst, ret) /\ x2.state = "MANUAL_REQUIRED" /\ x2.won = x1.won
        BY <2>0, <2>1, <4>1, <4>2, ManualOK
      <4> QED BY <2>0, <4>2, <4>3 DEF Settled, Stage
    <3>2. CASE ~(delivery[SourceOf[r]] = "review" /\ Waiting(x1))
      <4>1. x2 = x1
        BY <3>2 DEF SweepUnproven
      <4> QED BY <2>1, <4>1
    <3> QED BY <3>1, <3>2
  <2> HIDE DEF x1, x2, e
  <2>3. OK(x3) /\ Settled(x2, x3, e)
    <3>1. CASE x2.state # "PROCESSING" \/ x2.lease # "EXPIRED"
      <4>1. x3 = x2
        BY <3>1 DEF SweepExpired
      <4> QED BY <2>2, <4>1, SettledSame
    <3>2. CASE /\ x2.state = "PROCESSING" /\ x2.lease = "EXPIRED"
               /\ x2.type = "EXTRA_DAYS" /\ x2.target # None
      <4>1. x3 = Manual(x2, "OTHER")
        BY <3>2 DEF SweepExpired
      <4> HIDE DEF x3
      <4>2. RowOK(x3, e, TRUE, fst, ret) /\ x3.state = "MANUAL_REQUIRED" /\ x3.won = x2.won
        BY <2>0, <2>2, <3>2, <4>1, ManualOK
      <4> QED BY <2>0, <3>2, <4>2 DEF Settled, Stage
    <3>3. CASE /\ x2.state = "PROCESSING" /\ x2.lease = "EXPIRED"
               /\ ~(x2.type = "EXTRA_DAYS" /\ x2.target # None)
      <4>1. x3 = Retried(x2, TRUE)
        BY <3>3 DEF SweepExpired
      <4>2. x2.target = None
        BY <2>2, <3>3 DEF RowOK, RowAllowed
      <4> HIDE DEF x3
      <4>3. RowOK(x3, e, TRUE, fst, ret) /\ x3.state = "RETRY_WAITING" /\ x3.won = x2.won
        BY <2>0, <2>2, <3>3, <4>1, <4>2, RetriedOK
      <4> QED BY <2>0, <3>3, <4>3 DEF Settled, Stage
    <3> QED BY <3>1, <3>2, <3>3
  <2> HIDE DEF x3
  <2>4. OK(x4) /\ Settled(x3, x4, e)
    <3>1. CASE x4 = x3
      BY <2>3, <3>1, SettledSame
    <3>2. CASE ret /\ Waiting(x3)
      <4>1. x4 = Superseded(x3)
        BY <3>2 DEF SweepRefunded, ret
      <4>2. x3.state \in {"PENDING", "RETRY_WAITING"} /\ e = 0
        BY <2>0, <2>3, <3>2 DEF Waiting, RowOK
      <4> HIDE DEF x4
      <4>3. RowOK(x4, e, TRUE, fst, ret) /\ x4.state = "SUPERSEDED" /\ x4.won = x3.won
        BY <2>0, <2>3, <4>1, <4>2, SupersededOK
      <4> QED BY <2>0, <4>2, <4>3 DEF Settled, Stage
    <3>3. CASE /\ ret /\ ~Waiting(x3)
               /\ Unreviewed(x3)
      <4>1. x4 = Manual(x3, "REFUND")
        BY <3>3 DEF SweepRefunded, ret
      <4> HIDE DEF x4
      <4>2. RowOK(x4, e, TRUE, fst, ret) /\ x4.state = "MANUAL_REQUIRED" /\ x4.won = x3.won
        BY <2>0, <2>3, <3>3, <4>1, ManualOK DEF Unreviewed
      <4> QED BY <2>0, <3>3, <4>2 DEF Settled, Stage, Unreviewed
    <3> QED BY <3>1, <3>2, <3>3 DEF SweepRefunded, ret
  <2> HIDE DEF x4
  <2>5. OK(x5) /\ Settled(x4, x5, e)
    <3>1. CASE x5 = x4
      BY <2>4, <3>1, SettledSame
    <3>2. CASE x5 = Superseded(x4) /\ Waiting(x4)
      <4>2. x4.state \in {"PENDING", "RETRY_WAITING"} /\ e = 0
        BY <2>0, <2>4, <3>2 DEF Waiting, RowOK
      <4> HIDE DEF x5
      <4>3. RowOK(x5, e, TRUE, fst, ret) /\ x5.state = "SUPERSEDED" /\ x5.won = x4.won
        BY <2>0, <2>4, <3>2, <4>2, SupersededOK
      <4> QED BY <2>0, <4>2, <4>3 DEF Settled, Stage
    <3> QED BY <3>1, <3>2 DEF SweepNotFirst
  <2> HIDE DEF x5
  <2>6. Settled(x1, x5, e)
    BY <2>2, <2>3, <2>4, <2>5, SettledTransitive
  <2>7. Swept(r) = x5
    BY DEF Swept, x5, x4, x3, x2, x1
  <2> QED BY <2>5, <2>6, <2>7 DEF x1, e
<1> QED BY <1>1, <1>2

-----------------------------------------------------------------------------
(* Frames.                                                                 *)

LEMMA Known ==
  ASSUME NEW r \in Rewards, RewardOK(r), reward[r].state # "ABSENT"
  PROVE  /\ SourceOf[r] \in assigned
         /\ RowOK(reward[r], effect[r], TRUE, First(r), Returned(SourceOf[r]))
         /\ First(r) \in BOOLEAN /\ Returned(SourceOf[r]) \in BOOLEAN
BY DEF RewardOK, RowOK, First, Proved, Returned

LEMMA JobShape ==
  ASSUME ReferralInv, NEW w \in Workers
  PROVE  /\ worker[w] \in Jobs /\ worker[w].pc \in Steps
         /\ Locking(w) \/ Mutating(w) => worker[w].r \in Rewards
                                        /\ worker[w].u = RecipientOf[worker[w].r]
                                        /\ worker[w].u \in Recipients
BY ConstantFacts DEF ReferralInv, TypeOK, Jobs, JobOK, Locking, Mutating

(* What an iteration relies on survives a step that leaves its claim alone *)
(* and, while it holds row locks, the rows and the subscription too.       *)
LEMMA JobKept ==
  ASSUME ReferralInv, NEW v \in Workers, worker'[v] = worker[v],
         \A r \in Rewards : reward'[r].state = "PROCESSING" /\ reward'[r].token = v =>
           /\ reward[r].state = "PROCESSING" /\ reward[r].token = v
           /\ reward'[r].target = reward[r].target /\ effect'[r] = effect[r],
         Locking(v) =>
           /\ reward'[worker[v].r].state = "PROCESSING" /\ reward'[worker[v].r].token = v
           /\ reward'[worker[v].r].base = reward[worker[v].r].base
           /\ money'[SourceOf[worker[v].r]] = money[SourceOf[worker[v].r]]
           /\ expiry'[worker[v].u] = expiry[worker[v].u]
           /\ panel'[worker[v].u] = panel[worker[v].u]
  PROVE  JobOK(v)'
<1> DEFINE r == worker[v].r
<1>1. JobOK(v) /\ worker[v].pc \in Steps
  BY JobShape DEF ReferralInv
<1>2. CASE Locking(v)
  <2>1. r \in Rewards /\ Owns(v)
    BY <1>1, <1>2, JobShape DEF JobOK
  <2>2. reward'[r].target = reward[r].target /\ effect'[r] = effect[r]
    BY <1>2, <2>1
  <2> QED BY <1>1, <1>2, <2>1, <2>2 DEF JobOK, Locking, Owns, Row, AtBase
<1>3. CASE ~Locking(v) /\ worker[v].pc = "prepared"
  <2>1. r \in Rewards
    BY <1>1, <1>3 DEF JobOK
  <2> QED BY <1>1, <1>3, <2>1 DEF JobOK, Locking, Owns, Row
<1>4. CASE ~Locking(v) /\ worker[v].pc # "prepared"
  BY <1>1, <1>4 DEF JobOK, Locking
<1> QED BY <1>2, <1>3, <1>4

(* A step of the payments alone.                                           *)
LEMMA SourceStepKeeps ==
  ASSUME ReferralInv,
         UNCHANGED <<assigned, reward, worker, expiry, panel, effect, faults>>,
         earlier' \in [Sources -> SUBSET Sources],
         money' \in [Sources -> Moneys], delivery' \in [Sources -> Deliveries],
         applied' \in [Sources -> {0, 1}],
         \A s \in Sources : SourceOK(s)',
         \A r \in Rewards : (First(r) => First(r)')
                            /\ (Returned(SourceOf[r]) => Returned(SourceOf[r])'),
         \A w \in Workers : Locking(w) =>
           money'[SourceOf[worker[w].r]] = money[SourceOf[worker[w].r]]
  PROVE  ReferralInv'
<1>1. TypeOK'
  BY DEF ReferralInv, TypeOK
<1>2. \A r \in Rewards : RewardOK(r)'
  BY DEF ReferralInv, RewardOK, RowOK, First, Proved, Returned
<1>3. \A w \in Workers : JobOK(w)'
  BY JobKept DEF ReferralInv, JobOK, Owns
<1>4. OneMutator' /\ OneInFlight'
  BY DEF ReferralInv, OneMutator, OneInFlight, Mutating
<1> QED BY <1>1, <1>2, <1>3, <1>4 DEF ReferralInv

(* A step of one iteration that writes at most the row it owns, and the    *)
(* subscription of its recipient only under the mutation lock.             *)
LEMMA WorkerStepKeeps ==
  ASSUME ReferralInv, NEW w \in Workers, NEW j \in Jobs,
         worker' = [worker EXCEPT ![w] = j],
         UNCHANGED <<purchase, earlier, assigned>>,
         faults' \in 0 .. MaxFaults,
         reward' \in [Rewards -> Rows],
         effect' \in [Rewards -> Nat],
         expiry' \in [Recipients -> Nat \cup {None}], panel' \in [Recipients -> Nat],
         \A r \in Rewards : RewardOK(r)',
         \A r \in Rewards : r # worker[w].r \/ ~Owns(w) =>
           reward'[r] = reward[r] /\ effect'[r] = effect[r],
         \A r \in Rewards : r = worker[w].r /\ Owns(w) =>
           reward'[r].token \in {w, None} /\ reward'[r].won = reward[r].won,
         \A u \in Recipients : u # worker[w].u \/ ~Mutating(w) =>
           expiry'[u] = expiry[u] /\ panel'[u] = panel[u],
         j.pc \in {"prepared", "call", "finish", "manual"} =>
           j.u = worker[w].u /\ (Mutating(w) \/ ~MutationLocked(j.u)),
         JobOK(w)'
  PROVE  ReferralInv'
<1>1. worker' \in [Workers -> Jobs] /\ worker'[w] = j
      /\ \A v \in Workers \ {w} : worker'[v] = worker[v]
  BY DEF ReferralInv, TypeOK
<1>2. TypeOK'
  BY <1>1 DEF ReferralInv, TypeOK, RewardOK, RowOK
<1>3. ASSUME NEW v \in Workers \ {w} PROVE JobOK(v)'
  <2>1. ASSUME NEW r \in Rewards, reward'[r].state = "PROCESSING", reward'[r].token = v
        PROVE  reward'[r] = reward[r] /\ effect'[r] = effect[r]
    BY <1>3, <2>1, ConstantFacts
  <2>2. CASE Locking(v)
    <3>1. Owns(v) /\ worker[v].r \in Rewards /\ worker[v].u \in Recipients
      BY <2>2, JobShape DEF ReferralInv, JobOK
    <3>2. reward'[worker[v].r] = reward[worker[v].r]
      BY <1>3, <3>1 DEF Owns
    <3>3. worker[v].u # worker[w].u \/ ~Mutating(w)
      BY <1>3, <2>2 DEF ReferralInv, OneMutator, Locking, Mutating
    <3>4. money' = money
      BY DEF purchase
    <3> QED BY <1>1, <2>1, <3>1, <3>2, <3>3, <3>4, JobKept DEF Owns
  <2>3. CASE ~Locking(v)
    BY <1>1, <2>1, <2>3, JobKept
  <2> QED BY <2>2, <2>3
<1>4. OneMutator'
  <2> SUFFICES ASSUME NEW a \in Workers, NEW b \in Workers, Mutating(a)', Mutating(b)',
                      (worker[a].u)' = (worker[b].u)'
               PROVE  a = b
    BY DEF OneMutator
  <2>1. CASE a # w /\ b # w
    BY <1>1, <2>1 DEF ReferralInv, OneMutator, Mutating
  <2>2. ASSUME NEW c \in Workers \ {w}, Mutating(c)', Mutating(w)', (worker[c].u)' = (worker[w].u)'
        PROVE  FALSE
    <3>1. Mutating(c) /\ worker[c].u = j.u /\ j.u = worker[w].u
      BY <1>1, <2>2 DEF Mutating
    <3>2. Mutating(w) \/ ~MutationLocked(j.u)
      BY <1>1, <2>2 DEF Mutating
    <3> QED BY <3>1, <3>2 DEF ReferralInv, OneMutator, MutationLocked
  <2> QED BY <2>1, <2>2
<1>5. OneInFlight'
  <2>1. \A r \in Rewards : /\ reward'[r].state = "PROCESSING" => reward[r].state = "PROCESSING"
                           /\ reward'[r].won = reward[r].won
    <3> TAKE r \in Rewards
    <3>1. CASE r = worker[w].r /\ Owns(w)
      BY <3>1 DEF Owns
    <3>2. CASE r # worker[w].r \/ ~Owns(w)
      BY <3>2
    <3> QED BY <3>1, <3>2
  <2> QED BY <2>1 DEF ReferralInv, OneInFlight
<1>6. /\ money' \in [Sources -> Moneys] /\ delivery' \in [Sources -> Deliveries]
      /\ applied' \in [Sources -> {0, 1}]
      /\ \A s \in Sources : SourceOK(s)'
  BY DEF ReferralInv, SourceOK, purchase
<1> QED BY <1>1, <1>2, <1>3, <1>4, <1>5, <1>6 DEF ReferralInv

-----------------------------------------------------------------------------
(* The actions.                                                            *)

LEMMA SourceKeeps ==
  ASSUME ReferralInv, NEW s \in Sources,
         ProveSource(s) \/ RefundSource(s) \/ MoveSource(s)
  PROVE  ReferralInv'
<1>0. /\ SourceOK(s)
      /\ money \in [Sources -> Moneys] /\ delivery \in [Sources -> Deliveries]
      /\ applied \in [Sources -> {0, 1}]
      /\ earlier \in [Sources -> SUBSET Sources]
  BY DEF ReferralInv, TypeOK
<1>1. CASE ProveSource(s)
  <2>1. /\ delivery[s] = "doing" /\ money[s] = "received"
        /\ delivery' = [delivery EXCEPT ![s] = "done"]
        /\ earlier' = [earlier EXCEPT ![s] = {t \in Sources : Proved(t)}]
        /\ UNCHANGED <<money, applied, assigned, reward, worker, expiry, panel, effect, faults>>
    BY <1>1 DEF ProveSource, Promise!Prove
  <2>2. /\ earlier' \in [Sources -> SUBSET Sources]
        /\ delivery' \in [Sources -> Deliveries]
    BY <1>0, <2>1 DEF Deliveries
  <2>3. \A t \in Sources : SourceOK(t)'
    BY <1>0, <2>1 DEF ReferralInv, SourceOK, Deliveries
  <2>4. \A r \in Rewards : First(r) => First(r)'
    BY <1>0, <2>1, ConstantFacts DEF First, Proved
  <2> QED BY <1>0, <2>1, <2>2, <2>3, <2>4, SourceStepKeeps DEF Returned
<1>2. CASE RefundSource(s)
  <2>1. /\ money' = [money EXCEPT ![s] = "returned"] /\ ~SourceLocked(s)
        /\ money[s] \in {"due", "void", "received"}
        /\ UNCHANGED <<delivery, applied, earlier, assigned, reward, worker, expiry, panel,
                       effect, faults>>
    BY <1>2 DEF RefundSource, Promise!Return
  <2>2. money' \in [Sources -> Moneys]
    BY <1>0, <2>1 DEF Moneys
  <2>3. \A t \in Sources : SourceOK(t)'
    BY <1>0, <2>1 DEF ReferralInv, SourceOK, Moneys
  <2>4. \A r \in Rewards : /\ First(r) => First(r)'
                           /\ Returned(SourceOf[r]) => Returned(SourceOf[r])'
    BY <1>0, <2>1, ConstantFacts DEF First, Proved, Returned
  <2>5. \A w \in Workers : Locking(w) =>
          money'[SourceOf[worker[w].r]] = money[SourceOf[worker[w].r]]
    BY <1>0, <2>1, JobShape, ConstantFacts DEF SourceLocked
  <2> QED BY <1>0, <2>1, <2>2, <2>3, <2>4, <2>5, SourceStepKeeps
<1>3. CASE MoveSource(s)
  <2>1. /\ UNCHANGED <<earlier, assigned, reward, worker, expiry, panel, effect, faults>>
        /\ \A t \in Sources \ {s} : /\ money'[t] = money[t] /\ delivery'[t] = delivery[t]
                                    /\ applied'[t] = applied[t]
        /\ money' \in [Sources -> Moneys] /\ delivery' \in [Sources -> Deliveries]
        /\ applied' \in [Sources -> {0, 1}]
        /\ money'[s] = money[s] \/ money[s] \in {"none", "due"}
        /\ delivery[s] = "done" => delivery'[s] = "done"
        /\ delivery'[s] = "done" => delivery[s] = "done"
    BY <1>0, <1>3 DEF MoveSource, Promise!Open, Promise!Void, Promise!Receive,
         Promise!Apply, Promise!HandOver, Moneys, Deliveries, SourceOK
  <2>2. \A t \in Sources : SourceOK(t)'
    <3>1. SourceOK(s)'
      BY <1>0, <2>1 DEF SourceOK
    <3>2. \A t \in Sources \ {s} : SourceOK(t)'
      BY <2>1 DEF ReferralInv, SourceOK
    <3> QED BY <3>1, <3>2
  <2>3. \A r \in Rewards : /\ First(r) => First(r)'
                           /\ Returned(SourceOf[r]) => Returned(SourceOf[r])'
    BY <1>0, <2>1, ConstantFacts DEF First, Proved, Returned
  <2>4. \A w \in Workers : Locking(w) =>
          money'[SourceOf[worker[w].r]] = money[SourceOf[worker[w].r]]
    <3> TAKE w \in Workers
    <3> HAVE Locking(w)
    <3>1. SourceOf[worker[w].r] \in Sources
      BY JobShape, ConstantFacts
    <3>2. money[SourceOf[worker[w].r]] = "received"
      BY DEF ReferralInv, JobOK
    <3> QED BY <2>1, <3>1, <3>2
  <2> QED BY <1>0, <2>1, <2>2, <2>3, <2>4, SourceStepKeeps
<1> QED BY <1>1, <1>2, <1>3

(* A step that changes rows of rewards nobody works on, and a subscription *)
(* nobody mutates.                                                         *)
LEMMA TableStepKeeps ==
  ASSUME ReferralInv,
         UNCHANGED <<purchase, earlier, worker, effect>>,
         faults' \in 0 .. MaxFaults,
         assigned' \subseteq Sources,
         reward' \in [Rewards -> Rows],
         expiry' \in [Recipients -> Nat \cup {None}], panel' \in [Recipients -> Nat],
         \A r \in Rewards : RewardOK(r)',
         \A r \in Rewards :
           /\ reward'[r].won = reward[r].won
           /\ reward'[r].state = "PROCESSING" =>
                /\ reward[r].state = "PROCESSING" /\ reward'[r].token = reward[r].token
                /\ reward'[r].target = reward[r].target
           /\ reward[r].state = "PROCESSING" /\ Locked(r) =>
                /\ reward'[r].state = "PROCESSING" /\ reward'[r].token = reward[r].token
                /\ reward'[r].base = reward[r].base,
         \A u \in Recipients : MutationLocked(u) =>
           expiry'[u] = expiry[u] /\ panel'[u] = panel[u]
  PROVE  ReferralInv'
<1>1. TypeOK'
  BY DEF ReferralInv, TypeOK, RewardOK, RowOK
<1>2. ASSUME NEW v \in Workers PROVE JobOK(v)'
  <2>1. CASE Locking(v)
    <3>1. /\ Owns(v) /\ worker[v].r \in Rewards /\ worker[v].u \in Recipients
          /\ Locked(worker[v].r) /\ MutationLocked(worker[v].u)
      BY <2>1, JobShape DEF ReferralInv, JobOK, Locked, MutationLocked, Mutating, Locking
    <3>2. money' = money
      BY DEF purchase
    <3> QED BY <3>1, <3>2, JobKept DEF Owns
  <2>2. CASE ~Locking(v)
    BY <2>2, JobKept
  <2> QED BY <2>1, <2>2
<1>3. OneMutator'
  BY DEF ReferralInv, OneMutator, Mutating
<1>4. OneInFlight'
  BY DEF ReferralInv, OneInFlight
<1>5. /\ money' \in [Sources -> Moneys] /\ delivery' \in [Sources -> Deliveries]
      /\ applied' \in [Sources -> {0, 1}]
      /\ \A s \in Sources : SourceOK(s)'
  BY DEF ReferralInv, SourceOK, purchase
<1> QED BY <1>1, <1>2, <1>3, <1>4, <1>5 DEF ReferralInv

LEMMA AssignKeeps ==
  ASSUME ReferralInv, NEW s \in Sources, AssignReferralRewards(s)
  PROVE  ReferralInv'
<1>0. /\ UNCHANGED <<purchase, earlier, worker, expiry, panel, effect, faults>>
      /\ s \notin assigned /\ assigned' = assigned \cup {s}
  BY DEF AssignReferralRewards
<1>1. \A r \in Rewards : First(r)' = First(r) /\ Returned(SourceOf[r])' = Returned(SourceOf[r])
  BY <1>0 DEF First, Proved, Returned, purchase
<1>2. CASE reward' = reward
  <2>1. \A r \in Rewards : RewardOK(r)'
    BY <1>0, <1>2 DEF ReferralInv, RewardOK, RowOK, First, Proved, Returned, purchase
  <2> QED BY <1>0, <1>2, <2>1, TableStepKeeps DEF ReferralInv, TypeOK
<1>3. ASSUME NEW type \in {"POINTS", "EXTRA_DAYS"}, NEW first \in BOOLEAN,
             reward' = [r \in Rewards |-> IF SourceOf[r] = s THEN Intent(type, first) ELSE reward[r]]
      PROVE  ReferralInv'
  <2>1. ASSUME NEW r \in Rewards, SourceOf[r] = s
        PROVE  /\ RewardOK(r)' /\ reward'[r].state = "PENDING" /\ reward'[r].won = reward[r].won
               /\ reward[r].state = "ABSENT"
    <3>1. reward[r].state = "ABSENT" /\ effect[r] = 0 /\ effect'[r] = 0 /\ SourceOf[r] \in assigned'
      BY <1>0, <2>1 DEF ReferralInv, RewardOK, RowOK
    <3>2. ~reward[r].won
      BY <3>1 DEF ReferralInv, RewardOK, RowOK, RowAllowed
    <3>3. First(r)' \in BOOLEAN /\ Returned(SourceOf[r])' \in BOOLEAN
      BY DEF First, Proved, Returned
    <3>4. /\ RowOK(Intent(type, first), 0, TRUE, First(r)', Returned(SourceOf[r])')
          /\ Intent(type, first).state = "PENDING" /\ ~Intent(type, first).won
      BY <3>3, IntentOK
    <3>5. reward'[r] = Intent(type, first)
      BY <1>3, <2>1
    <3>6. RewardOK(r)'
      BY <3>1, <3>4, <3>5 DEF RewardOK, RowOK
    <3>7. reward'[r].won = reward[r].won
      <4>1. reward[r] \in Rows /\ Intent(type, first) \in Rows
        BY <3>4 DEF ReferralInv, RewardOK, RowOK
      <4>2. reward[r].won = FALSE /\ Intent(type, first).won = FALSE
        BY <3>2, <3>4, <4>1 DEF Rows
      <4> QED BY <3>5, <4>2
    <3> QED BY <3>1, <3>4, <3>5, <3>6, <3>7
  <2>2. ASSUME NEW r \in Rewards, SourceOf[r] # s
        PROVE  RewardOK(r)' /\ reward'[r] = reward[r]
    BY <1>0, <1>1, <1>3, <2>2 DEF ReferralInv, RewardOK, RowOK, First, Proved, Returned, purchase
  <2>3. \A r \in Rewards : RewardOK(r)'
    BY <2>1, <2>2
  <2>4. reward' \in [Rewards -> Rows]
    BY <1>3, <2>3 DEF RewardOK, RowOK
  <2>5. \A r \in Rewards : /\ reward'[r].won = reward[r].won
                           /\ reward'[r] = reward[r] \/ {reward[r].state, reward'[r].state}
                                                          = {"ABSENT", "PENDING"}
    BY <2>1, <2>2
  <2> QED BY <1>0, <2>3, <2>4, <2>5, TableStepKeeps DEF ReferralInv, TypeOK
<1> QED BY <1>2, <1>3 DEF AssignReferralRewards

LEMMA PurchaseKeeps ==
  ASSUME ReferralInv, NEW u \in Recipients, PurchaseSubscription(u)
  PROVE  ReferralInv'
<1>0. /\ UNCHANGED <<purchase, earlier, assigned, reward, worker, effect, faults>>
      /\ ~MutationLocked(u)
      /\ reward \in [Rewards -> Rows] /\ assigned \subseteq Sources /\ faults \in 0 .. MaxFaults
      /\ expiry \in [Recipients -> Nat \cup {None}] /\ panel \in [Recipients -> Nat]
  BY DEF PurchaseSubscription, ReferralInv, TypeOK
<1>1. PICK new \in Nat : expiry' = [expiry EXCEPT ![u] = new] /\ panel' = [panel EXCEPT ![u] = new]
  <2>1. (IF expiry[u] = None THEN 1 ELSE expiry[u] + 1) \in Nat
    BY <1>0
  <2> QED BY <2>1 DEF PurchaseSubscription
<1>2. \A r \in Rewards : RewardOK(r)'
  BY <1>0 DEF ReferralInv, RewardOK, First, Proved, Returned, purchase
<1> QED BY <1>0, <1>1, <1>2, TableStepKeeps

(* A write to one row that changes neither its claim nor what it won.      *)
LEMMA TouchKeeps ==
  ASSUME ReferralInv, NEW r \in Rewards, NEW y,
         reward' = [reward EXCEPT ![r] = y],
         UNCHANGED <<purchase, earlier, assigned, worker, panel, effect>>,
         faults' \in 0 .. MaxFaults,
         expiry' \in [Recipients -> Nat \cup {None}],
         \A u \in Recipients : MutationLocked(u) => expiry'[u] = expiry[u],
         RowOK(y, effect[r], SourceOf[r] \in assigned, First(r), Returned(SourceOf[r])),
         y.won = reward[r].won,
         y.state = "PROCESSING" => reward[r].state = "PROCESSING" /\ y.token = reward[r].token
                                   /\ y.target = reward[r].target,
         reward[r].state = "PROCESSING" => y.state = "PROCESSING" /\ y.token = reward[r].token
                                           /\ y.base = reward[r].base
  PROVE  ReferralInv'
<1>0. /\ reward \in [Rewards -> Rows] /\ y \in Rows /\ assigned \subseteq Sources
      /\ panel \in [Recipients -> Nat]
  BY DEF ReferralInv, TypeOK, RowOK
<1>1. reward'[r] = y /\ reward' \in [Rewards -> Rows]
      /\ \A q \in Rewards \ {r} : reward'[q] = reward[q]
  BY <1>0
<1>2. \A q \in Rewards : RewardOK(q)'
  BY <1>1 DEF ReferralInv, RewardOK, First, Proved, Returned, purchase
<1> QED BY <1>0, <1>1, <1>2, TableStepKeeps

LEMMA ClockKeeps ==
  ASSUME ReferralInv, NEW r \in Rewards, LeaseExpires(r) \/ BackoffElapses(r)
  PROVE  ReferralInv'
<1> DEFINE x == reward[r]
<1>0. RewardOK(r) /\ x \in Rows /\ expiry \in [Recipients -> Nat \cup {None}]
      /\ faults \in 0 .. MaxFaults
  BY DEF ReferralInv, TypeOK
<1>1. CASE LeaseExpires(r)
  <2> DEFINE y == [x EXCEPT !.lease = "EXPIRED"]
  <2>1. /\ reward' = [reward EXCEPT ![r] = y] /\ x.lease = "LIVE"
        /\ UNCHANGED <<purchase, earlier, assigned, worker, expiry, panel, effect>>
    BY <1>1 DEF LeaseExpires
  <2>2. faults' \in 0 .. MaxFaults
    BY <1>0, <1>1, ConstantFacts DEF LeaseExpires
  <2>3. /\ y \in Rows /\ y.lease = "EXPIRED" /\ y.state = x.state /\ y.token = x.token
        /\ y.target = x.target /\ y.base = x.base /\ y.won = x.won /\ y.first = x.first
        /\ y.issued = x.issued /\ y.type = x.type /\ y.version = x.version
        /\ y.cause = x.cause /\ y.ruling = x.ruling
    BY <1>0 DEF Rows
  <2> HIDE DEF y
  <2>4. RowAllowed(y)
    BY <1>0, <2>1, <2>3 DEF RewardOK, RowOK, RowAllowed
  <2>5. RowOK(y, effect[r], SourceOf[r] \in assigned, First(r), Returned(SourceOf[r]))
    BY <1>0, <2>3, <2>4 DEF RewardOK, RowOK, RuledAfterRefund
  <2> QED BY <1>0, <2>1, <2>2, <2>3, <2>5, TouchKeeps
<1>2. CASE BackoffElapses(r)
  <2> DEFINE y == [x EXCEPT !.due = TRUE]
  <2>1. /\ reward' = [reward EXCEPT ![r] = y]
        /\ UNCHANGED <<purchase, earlier, assigned, worker, expiry, panel, effect, faults>>
    BY <1>2 DEF BackoffElapses
  <2>3. /\ y \in Rows /\ y.lease = x.lease /\ y.state = x.state /\ y.token = x.token
        /\ y.target = x.target /\ y.base = x.base /\ y.won = x.won /\ y.first = x.first
        /\ y.issued = x.issued /\ y.type = x.type /\ y.version = x.version
        /\ y.cause = x.cause /\ y.ruling = x.ruling
    BY <1>0 DEF Rows
  <2> HIDE DEF y
  <2>4. RowAllowed(y)
    BY <1>0, <2>1, <2>3 DEF RewardOK, RowOK, RowAllowed
  <2>5. RowOK(y, effect[r], SourceOf[r] \in assigned, First(r), Returned(SourceOf[r]))
    BY <1>0, <2>3, <2>4 DEF RewardOK, RowOK, RuledAfterRefund
  <2> QED BY <1>0, <2>1, <2>3, <2>5, TouchKeeps
<1> QED BY <1>1, <1>2

LEMMA ResolveKeeps ==
  ASSUME ReferralInv, NEW r \in Rewards, NEW confirm \in BOOLEAN, NEW drift \in BOOLEAN,
         Resolve(r, confirm, drift)
  PROVE  ReferralInv'
<1> DEFINE x == reward[r]
           state == IF confirm THEN "ISSUED" ELSE "SUPERSEDED"
           ruling == [version |-> x.version, drift |-> drift, refunded |-> Returned(SourceOf[r]),
                      decision |-> IF confirm THEN "CONFIRM_ISSUED" ELSE "CANCEL"]
           y == [x EXCEPT !.state = state, !.issued = confirm, !.ruling = ruling]
<1>0. /\ RewardOK(r) /\ x \in Rows /\ expiry \in [Recipients -> Nat \cup {None}]
      /\ faults \in 0 .. MaxFaults /\ panel \in [Recipients -> Nat]
      /\ RecipientOf[r] \in Recipients
  BY ConstantFacts DEF ReferralInv, TypeOK
<1>1. /\ x.state = "MANUAL_REQUIRED" /\ ~MutationLocked(RecipientOf[r])
      /\ confirm => (x.first => x.won)
      /\ reward' = [reward EXCEPT ![r] = y]
      /\ UNCHANGED <<purchase, earlier, assigned, worker, panel, effect, faults>>
  BY DEF Resolve, MayConfirm
<1>2. /\ expiry' \in [Recipients -> Nat \cup {None}]
      /\ \A u \in Recipients : MutationLocked(u) => expiry'[u] = expiry[u]
  BY <1>0, <1>1 DEF Resolve
<1>3. ruling \in Rulings
  BY <1>0 DEF Rulings, Rows, Returned
<1>4. state \in States
  BY DEF States
<1> HIDE DEF ruling, state
<1>5. /\ y \in Rows /\ y.lease = x.lease /\ y.state = state /\ y.token = x.token
      /\ y.target = x.target /\ y.base = x.base /\ y.won = x.won /\ y.first = x.first
      /\ y.issued = confirm /\ y.type = x.type /\ y.version = x.version
      /\ y.cause = x.cause /\ y.ruling = ruling
  BY <1>0, <1>3, <1>4 DEF Rows
<1> HIDE DEF y
<1>6. /\ RowAllowed(x)
      /\ state = "ISSUED" \/ state = "SUPERSEDED"
      /\ state = "ISSUED" <=> confirm
  BY <1>0 DEF RewardOK, RowOK, state
<1>7. RowAllowed(y)
  BY <1>1, <1>5, <1>6 DEF RowAllowed
<1>8. x.version <= 1 \/ RuledAfterRefund(y)
  <2>1. x.version \in Nat /\ x.version <= 2 /\ (x.cause # "REFUND" => x.version = 1)
        /\ (x.cause = "REFUND" => Returned(SourceOf[r]))
    BY <1>0, <1>1 DEF RewardOK, RowOK, Rows
  <2>2. ruling.version = x.version /\ ruling.refunded = Returned(SourceOf[r])
    BY DEF ruling
  <2>3. CASE x.cause # "REFUND"
    BY <2>1, <2>3
  <2>4. CASE x.cause = "REFUND"
    BY <1>5, <2>1, <2>2, <2>4 DEF RuledAfterRefund
  <2> QED BY <2>3, <2>4
<1>9. RowOK(y, effect[r], SourceOf[r] \in assigned, First(r), Returned(SourceOf[r]))
  BY <1>0, <1>1, <1>5, <1>6, <1>7, <1>8 DEF RewardOK, RowOK
<1> QED BY <1>0, <1>1, <1>2, <1>5, <1>6, <1>9, TouchKeeps

(* A step of a claim: it may take rows nobody works on.                    *)
LEMMA ClaimStepKeeps ==
  ASSUME ReferralInv, NEW w \in Workers, NEW j \in Jobs,
         worker' = [worker EXCEPT ![w] = j], j.pc \in {"idle", "select", "hold"}, JobOK(w)',
         UNCHANGED <<purchase, earlier, assigned, expiry, panel, effect, faults>>,
         reward' \in [Rewards -> Rows],
         \A r \in Rewards : RewardOK(r)',
         \A r \in Rewards :
           /\ reward'[r].state = "PROCESSING" =>
                \/ reward'[r].token = w
                \/ /\ reward[r].state = "PROCESSING" /\ reward'[r].token = reward[r].token
                   /\ reward'[r].target = reward[r].target
           /\ reward[r].state = "PROCESSING" /\ Locked(r) =>
                /\ reward'[r].state = "PROCESSING" /\ reward'[r].token = reward[r].token
                /\ reward'[r].base = reward[r].base,
         OneInFlight'
  PROVE  ReferralInv'
<1>0. worker' \in [Workers -> Jobs] /\ worker'[w] = j
      /\ \A v \in Workers \ {w} : worker'[v] = worker[v]
  BY DEF ReferralInv, TypeOK
<1>1. TypeOK'
  BY <1>0 DEF ReferralInv, TypeOK, RewardOK, RowOK
<1>2. ASSUME NEW v \in Workers \ {w} PROVE JobOK(v)'
  <2>1. CASE Locking(v)
    <3>1. /\ Owns(v) /\ worker[v].r \in Rewards /\ worker[v].u \in Recipients
          /\ Locked(worker[v].r)
      BY <2>1, JobShape DEF ReferralInv, JobOK, Locked
    <3>2. money' = money
      BY DEF purchase
    <3> QED BY <1>0, <1>2, <3>1, <3>2, JobKept DEF Owns
  <2>2. CASE ~Locking(v)
    BY <1>0, <1>2, <2>2, JobKept
  <2> QED BY <2>1, <2>2
<1>3. OneMutator'
  BY <1>0 DEF ReferralInv, OneMutator, Mutating
<1>4. /\ money' \in [Sources -> Moneys] /\ delivery' \in [Sources -> Deliveries]
      /\ applied' \in [Sources -> {0, 1}]
      /\ \A s \in Sources : SourceOK(s)'
  BY DEF ReferralInv, SourceOK, purchase
<1> QED BY <1>0, <1>1, <1>2, <1>3, <1>4 DEF ReferralInv

LEMMA IdleJob ==
  Idle \in Jobs /\ Idle.pc = "idle"
BY DEF Idle, Jobs, Steps

LEMMA SweepKeeps ==
  ASSUME ReferralInv, NEW w \in Workers, Sweep(w)
  PROVE  ReferralInv'
<1> DEFINE j == [worker[w] EXCEPT !.pc = "select"]
<1>0. /\ worker' = [worker EXCEPT ![w] = j] /\ j \in Jobs /\ j.pc = "select"
      /\ reward' = [r \in Rewards |-> Swept(r)]
      /\ \A r \in Rewards : Locked(r) => Swept(r) = reward[r]
      /\ UNCHANGED <<purchase, earlier, assigned, expiry, panel, effect, faults>>
  BY DEF Sweep, Goto, ReferralInv, TypeOK, Jobs, Steps
<1> HIDE DEF j
<1>1. ASSUME NEW r \in Rewards
      PROVE  RewardOK(r)' /\ Settled(reward[r], reward'[r], effect[r])
    <2>1. RewardOK(r)
      BY DEF ReferralInv
    <2>2. /\ RowOK(Swept(r), effect[r], SourceOf[r] \in assigned, First(r), Returned(SourceOf[r]))
          /\ Settled(reward[r], Swept(r), effect[r])
      BY <2>1, SweptOK
    <2> QED BY <1>0, <2>2 DEF RewardOK, First, Proved, Returned, purchase
<1>2. reward' \in [Rewards -> Rows]
  BY <1>0, <1>1 DEF RewardOK, RowOK
<1>3. OneInFlight'
  BY <1>1 DEF ReferralInv, OneInFlight, Settled
<1>4. JobOK(w)'
  <2>1. worker'[w] = j
    BY <1>0 DEF ReferralInv, TypeOK
  <2> QED BY <1>0, <2>1 DEF JobOK, Locking
<1> QED BY <1>0, <1>1, <1>2, <1>3, <1>4, ClaimStepKeeps DEF Settled

LEMMA AlertedOK ==
  ASSUME NEW r \in Rewards, RewardOK(r)
  PROVE  /\ RowOK(Alerted[r], effect[r], SourceOf[r] \in assigned, First(r),
                  Returned(SourceOf[r]))
         /\ Alerted[r].state = reward[r].state /\ Alerted[r].token = reward[r].token
         /\ Alerted[r].target = reward[r].target /\ Alerted[r].base = reward[r].base
         /\ Alerted[r].won = reward[r].won
<1> DEFINE x == reward[r]  y == [x EXCEPT !.alerted = TRUE]
<1>1. CASE x.state = "MANUAL_REQUIRED"
  <2>1. Alerted[r] = y /\ x \in Rows
    BY <1>1 DEF Alerted, RewardOK, RowOK
  <2>2. /\ y \in Rows /\ y.lease = x.lease /\ y.state = x.state /\ y.token = x.token
        /\ y.target = x.target /\ y.base = x.base /\ y.won = x.won /\ y.first = x.first
        /\ y.issued = x.issued /\ y.type = x.type /\ y.version = x.version
        /\ y.cause = x.cause /\ y.ruling = x.ruling
    BY <2>1 DEF Rows
  <2> HIDE DEF y
  <2>3. RowAllowed(y)
    BY <2>2 DEF RewardOK, RowOK, RowAllowed
  <2>4. RowOK(y, effect[r], SourceOf[r] \in assigned, First(r), Returned(SourceOf[r]))
    BY <2>2, <2>3 DEF RewardOK, RowOK, RuledAfterRefund
  <2> QED BY <2>1, <2>2, <2>4
<1>2. CASE x.state # "MANUAL_REQUIRED"
  BY <1>2 DEF Alerted, RewardOK
<1> QED BY <1>1, <1>2

(* The end of a run changes alerts only.                                   *)
LEMMA AlertKeeps ==
  ASSUME ReferralInv, NEW w \in Workers, reward' = Alerted, Done(w),
         UNCHANGED <<purchase, earlier, assigned, expiry, panel, effect, faults>>
  PROVE  ReferralInv'
<1>0. worker' = [worker EXCEPT ![w] = Idle] /\ worker'[w] = Idle
  BY DEF Done, ReferralInv, TypeOK
<1>1. \A r \in Rewards : RewardOK(r)'
  BY AlertedOK DEF ReferralInv, RewardOK, First, Proved, Returned, purchase
<1>2. reward' \in [Rewards -> Rows]
  BY <1>1 DEF RewardOK, RowOK, Alerted
<1>3. \A r \in Rewards :
        /\ reward'[r].state = reward[r].state /\ reward'[r].token = reward[r].token
        /\ reward'[r].target = reward[r].target /\ reward'[r].base = reward[r].base
        /\ reward'[r].won = reward[r].won
  BY AlertedOK DEF ReferralInv
<1>4. OneInFlight'
  BY <1>3 DEF ReferralInv, OneInFlight
<1>5. JobOK(w)'
  BY <1>0, IdleJob DEF JobOK, Locking
<1> QED BY <1>0, <1>1, <1>2, <1>3, <1>4, <1>5, IdleJob, ClaimStepKeeps

(* The claimed row is well formed, and wins only as the first payment.     *)
LEMMA WinnerOK ==
  ASSUME NEW r \in Rewards, RewardOK(r), Claimable(r), NEW w \in Workers
  PROVE  /\ RowOK(Claimed(reward[r], w), effect[r], SourceOf[r] \in assigned, First(r),
                  Returned(SourceOf[r]))
         /\ Claimed(reward[r], w).state = "PROCESSING" /\ Claimed(reward[r], w).token = w
         /\ Claimed(reward[r], w).won => reward[r].first /\ ~OtherWinner(r)
         /\ reward[r].state # "PROCESSING"
<1> DEFINE x == reward[r]  fst == First(r)  ret == Returned(SourceOf[r])  e == effect[r]
<1>1. Waiting(x) /\ x.state # "ABSENT" /\ x.state # "PROCESSING"
      /\ (x.first => fst) /\ (x.first => ~OtherWinner(r))
  BY DEF Claimable, Eligible, EarlierSuccess, First, Waiting
<1>2. SourceOf[r] \in assigned /\ RowOK(x, e, TRUE, fst, ret) /\ fst \in BOOLEAN
      /\ ret \in BOOLEAN
  BY <1>1, Known
<1> HIDE DEF x, fst, ret, e
<1>3. /\ RowOK(Claimed(x, w), e, TRUE, fst, ret)
      /\ Claimed(x, w).state = "PROCESSING" /\ Claimed(x, w).token = w
      /\ (Claimed(x, w).won => x.first)
  BY <1>1, <1>2, ConstantFacts
     DEF Claimed, Waiting, RowOK, RowAllowed, Rows, States, RuledAfterRefund
<1>4. RowOK(Claimed(x, w), e, SourceOf[r] \in assigned, fst, ret)
  BY <1>2, <1>3 DEF RowOK
<1>5. Claimed(x, w).won => x.first /\ ~OtherWinner(r)
  BY <1>1, <1>3
<1> QED BY <1>1, <1>3, <1>4, <1>5 DEF x, fst, ret, e

(* A row the winner supersedes is well formed and had not won.             *)
LEMMA LoserOK ==
  ASSUME NEW q \in Rewards, RewardOK(q), Waiting(reward[q])
  PROVE  /\ RowOK(Superseded(reward[q]), effect[q], SourceOf[q] \in assigned, First(q),
                  Returned(SourceOf[q]))
         /\ Superseded(reward[q]).state = "SUPERSEDED"
         /\ Superseded(reward[q]).won = reward[q].won
         /\ reward[q].state # "PROCESSING"
<1> DEFINE x == reward[q]  fst == First(q)  ret == Returned(SourceOf[q])  e == effect[q]
<1>1. x.state \in {"PENDING", "RETRY_WAITING"}
  BY DEF Waiting
<1>2. SourceOf[q] \in assigned /\ RowOK(x, e, TRUE, fst, ret) /\ fst \in BOOLEAN
      /\ ret \in BOOLEAN
  BY <1>1, Known
<1> HIDE DEF x, fst, ret, e
<1>3. /\ RowOK(Superseded(x), e, TRUE, fst, ret)
      /\ Superseded(x).state = "SUPERSEDED" /\ Superseded(x).won = x.won
  BY <1>1, <1>2, SupersededOK
<1>4. RowOK(Superseded(x), e, SourceOf[q] \in assigned, fst, ret)
  BY <1>2, <1>3 DEF RowOK
<1> QED BY <1>1, <1>3, <1>4 DEF x, fst, ret, e

(* The claim: one more reward in flight, for a recipient that had none,    *)
(* and one more winner, in a group that had none.                          *)
LEMMA ClaimKeeps ==
  ASSUME ReferralInv, NEW w \in Workers, ClaimReward(w)
  PROVE  ReferralInv'
<1>a. PICK r \in Rewards : r = worker[w].r
  BY DEF ClaimReward, ReferralInv, JobOK
<1> DEFINE j == [worker[w] EXCEPT !.pc = "hold"]
<1>0. /\ worker[w].pc = "update" /\ worker[w].r = r /\ worker[w].u = RecipientOf[r]
      /\ UNCHANGED <<purchase, earlier, assigned, expiry, panel, effect, faults>>
  BY <1>a DEF ClaimReward, ReferralInv, JobOK
<1>1. CASE ~(Claimable(r) /\ ~InFlight(RecipientOf[r]))
  BY <1>0, <1>1, AlertKeeps DEF ClaimReward
<1>2. CASE Claimable(r) /\ ~InFlight(RecipientOf[r])
  <2>1. /\ reward' = [q \in Rewards |-> IF q = r THEN Claimed(reward[r], w)
                                        ELSE IF LosesTo(q, r) THEN Superseded(reward[q])
                                        ELSE reward[q]]
        /\ worker' = [worker EXCEPT ![w] = j]
    BY <1>0, <1>2 DEF ClaimReward, Goto
  <2>2. j \in Jobs /\ j.pc = "hold" /\ j.r = r /\ j.u = RecipientOf[r] /\ worker'[w] = j
    BY <1>0, <2>1 DEF ReferralInv, TypeOK, Jobs, Steps
  <2> HIDE DEF j
  <2>3. /\ reward'[r] = Claimed(reward[r], w)
        /\ \A q \in Rewards \ {r} :
             reward'[q] = IF LosesTo(q, r) THEN Superseded(reward[q]) ELSE reward[q]
    BY <1>0, <2>1
  <2>4. \A q \in Rewards : RewardOK(q)
    BY DEF ReferralInv
  <2>5. \A q \in Rewards :
          RowOK(reward'[q], effect[q], SourceOf[q] \in assigned, First(q),
                Returned(SourceOf[q])) => RewardOK(q)'
    BY <1>0 DEF RewardOK, First, Proved, Returned, purchase
  <2>6. /\ RewardOK(r)' /\ reward'[r].state = "PROCESSING" /\ reward'[r].token = w
        /\ reward'[r].won => ~OtherWinner(r)
        /\ reward[r].state # "PROCESSING"
    <3>1. RewardOK(r) /\ Claimable(r)
      BY <1>0, <1>2, <2>4
    <3> QED BY <1>0, <2>3, <2>5, <3>1, WinnerOK
  <2>7. ASSUME NEW q \in Rewards \ {r}
        PROVE  /\ RewardOK(q)' /\ reward'[q].won = reward[q].won
               /\ reward'[q].state = "PROCESSING" \/ reward[q].state = "PROCESSING"
                    => reward'[q] = reward[q]
    <3>1. CASE LosesTo(q, r)
      <4>1. Waiting(reward[q]) /\ reward'[q] = Superseded(reward[q])
        BY <2>3, <3>1 DEF LosesTo
      <4> QED BY <2>4, <2>5, <4>1, LoserOK
    <3>2. CASE ~LosesTo(q, r)
      <4>1. reward'[q] = reward[q]
        BY <2>3, <3>2
      <4> QED BY <2>4, <2>5, <4>1 DEF RewardOK
    <3> QED BY <3>1, <3>2
  <2>8. \A q \in Rewards : RewardOK(q)'
    <3> SUFFICES ASSUME NEW q \in Rewards PROVE RewardOK(q)'
      OBVIOUS
    <3>1. CASE q = r BY <2>6, <3>1
    <3>2. CASE q # r BY <2>7, <3>2
    <3> QED BY <3>1, <3>2
  <2>9. reward' \in [Rewards -> Rows]
    BY <2>1, <2>8 DEF RewardOK, RowOK
  <2>10. OneInFlight'
    <3>1. ASSUME NEW t \in Rewards \ {r}
          PROVE  /\ RecipientOf[t] = RecipientOf[r] => reward'[t].state # "PROCESSING"
                 /\ GroupOf[t] = GroupOf[r] => ~(reward'[t].won /\ reward'[r].won)
      BY <1>2, <2>6, <2>7 DEF InFlight, OtherWinner
    <3> SUFFICES ASSUME NEW p \in Rewards, NEW q \in Rewards, p # q
                 PROVE  /\ RecipientOf[p] = RecipientOf[q] =>
                             ~(reward'[p].state = "PROCESSING" /\ reward'[q].state = "PROCESSING")
                        /\ GroupOf[p] = GroupOf[q] => ~(reward'[p].won /\ reward'[q].won)
      BY DEF OneInFlight
    <3>2. CASE p # r /\ q # r
      <4>1. OneInFlight
        BY DEF ReferralInv
      <4> QED BY <2>7, <3>2, <4>1 DEF OneInFlight
    <3>3. CASE p = r \/ q = r
      BY <3>1, <3>3
    <3> QED BY <3>2, <3>3
  <2>11. JobOK(w)'
    BY <1>0, <2>2 DEF JobOK, Locking
  <2>12. \A q \in Rewards :
           /\ reward'[q].state = "PROCESSING" =>
                \/ reward'[q].token = w
                \/ /\ reward[q].state = "PROCESSING" /\ reward'[q].token = reward[q].token
                   /\ reward'[q].target = reward[q].target
           /\ reward[q].state = "PROCESSING" /\ Locked(q) =>
                /\ reward'[q].state = "PROCESSING" /\ reward'[q].token = reward[q].token
                /\ reward'[q].base = reward[q].base
    <3> SUFFICES ASSUME NEW q \in Rewards
                 PROVE  /\ reward'[q].state = "PROCESSING" =>
                             \/ reward'[q].token = w
                             \/ reward'[q] = reward[q]
                        /\ reward[q].state = "PROCESSING" => reward'[q] = reward[q]
      OBVIOUS
    <3>1. CASE q = r BY <2>6, <3>1
    <3>2. CASE q # r BY <2>7, <3>2
    <3> QED BY <3>1, <3>2
  <2> QED BY <1>0, <2>1, <2>2, <2>8, <2>9, <2>10, <2>11, <2>12, ClaimStepKeeps
<1> QED BY <1>1, <1>2

-----------------------------------------------------------------------------
(* The steps of an iteration.                                              *)

(* A step that writes no row and touches no subscription.                  *)
LEMMA QuietKeeps ==
  ASSUME ReferralInv, NEW w \in Workers, NEW j \in Jobs,
         worker' = [worker EXCEPT ![w] = j],
         UNCHANGED <<purchase, earlier, assigned, reward, expiry, panel, effect>>,
         faults' \in 0 .. MaxFaults,
         j.pc \in {"prepared", "call", "finish", "manual"} =>
           j.u = worker[w].u /\ (Mutating(w) \/ ~MutationLocked(j.u)),
         JobOK(w)'
  PROVE  ReferralInv'
<1>1. \A r \in Rewards : RewardOK(r)'
  BY DEF ReferralInv, RewardOK, First, Proved, Returned, purchase
<1>2. \A r \in Rewards : r = worker[w].r /\ Owns(w) => reward[r].token \in {w, None}
  BY DEF Owns
<1>3. /\ reward \in [Rewards -> Rows] /\ effect \in [Rewards -> Nat]
      /\ expiry \in [Recipients -> Nat \cup {None}] /\ panel \in [Recipients -> Nat]
  BY DEF ReferralInv, TypeOK
<1> QED BY <1>1, <1>2, <1>3, WorkerStepKeeps

\* x may stand as the row of r, its intents recorded and r granted e times.
Fits(x, e, r) == RowOK(x, e, TRUE, First(r), Returned(SourceOf[r]))

(* What an owner writes over its row fits.                                 *)
LEMMA OwnerWrites ==
  ASSUME NEW r \in Rewards, NEW x, NEW e, Fits(x, e, r), x.state = "PROCESSING"
  PROVE  /\ Fits(Superseded(x), e, r) /\ Superseded(x).token = None
         /\ Superseded(x).won = x.won
         /\ Fits(Manual(x, "OTHER"), e, r) /\ Manual(x, "OTHER").token = None
         /\ Manual(x, "OTHER").won = x.won
         /\ Fits(Issued(x), 1, r) /\ Issued(x).token = None /\ Issued(x).won = x.won
<1> DEFINE fst == First(r)  ret == Returned(SourceOf[r])
<1>1. RowOK(x, e, TRUE, fst, ret) /\ fst \in BOOLEAN /\ ret \in BOOLEAN
  BY DEF Fits, First, Proved, Returned
<1> HIDE DEF fst, ret
<1>2. /\ RowOK(Superseded(x), e, TRUE, fst, ret) /\ Superseded(x).token = None
      /\ Superseded(x).won = x.won
  BY <1>1, SupersededOK
<1>3. /\ RowOK(Manual(x, "OTHER"), e, TRUE, fst, ret) /\ Manual(x, "OTHER").token = None
      /\ Manual(x, "OTHER").won = x.won
  BY <1>1, ManualOK
<1>4. /\ RowOK(Issued(x), 1, TRUE, fst, ret) /\ Issued(x).token = None
      /\ Issued(x).won = x.won
  BY <1>1, IssuedOK
<1> QED BY <1>2, <1>3, <1>4 DEF fst, ret, Fits

(* The row with its target fits.                                           *)
LEMMA AimedFits ==
  ASSUME NEW r \in Rewards, NEW x, NEW e, NEW base \in Nat, NEW today \in Nat,
         Fits(x, e, r), x.state = "PROCESSING", x.type = "EXTRA_DAYS", x.target = None
  PROVE  /\ Fits(Aimed(x, base, today), e, r) /\ Aimed(x, base, today).token = x.token
         /\ Aimed(x, base, today).target # None /\ Aimed(x, base, today).won = x.won
<1> DEFINE fst == First(r)  ret == Returned(SourceOf[r])  y == Aimed(x, base, today)
<1>1. RowOK(x, e, TRUE, fst, ret) /\ fst \in BOOLEAN /\ ret \in BOOLEAN
  BY DEF Fits, First, Proved, Returned
<1> HIDE DEF fst, ret
<1>2. Later(base, today) + Days \in Nat /\ Later(base, today) + Days >= base + Days
  BY ConstantFacts DEF Later
<1>3. Later(base, today) + Days # None /\ base # None
  BY <1>2, ConstantFacts
<1>4. RowOK(y, e, TRUE, fst, ret) /\ y.token = x.token /\ y.target # None /\ y.won = x.won
  BY <1>1, <1>2, <1>3 DEF Aimed, RowOK, RowAllowed, Rows, States, RuledAfterRefund
<1> QED BY <1>4 DEF fst, ret, Fits

Deferred(x) == Retried(x, FALSE)

(* A claim without a target may be deferred.                               *)
LEMMA OwnerDefers ==
  ASSUME NEW r \in Rewards, NEW x, NEW e, Fits(x, e, r), x.state = "PROCESSING",
         x.target = None
  PROVE  /\ Fits(Deferred(x), e, r) /\ Deferred(x).token = None
         /\ Deferred(x).won = x.won
<1> DEFINE fst == First(r)  ret == Returned(SourceOf[r])
<1>1. RowOK(x, e, TRUE, fst, ret) /\ fst \in BOOLEAN /\ ret \in BOOLEAN
  BY DEF Fits, First, Proved, Returned
<1> HIDE DEF fst, ret
<1>2. PICK no \in BOOLEAN : no = FALSE
  OBVIOUS
<1>a. PICK f \in BOOLEAN : f = fst
  BY <1>1
<1>b. PICK g \in BOOLEAN : g = ret
  BY <1>1
<1>c. RowOK(x, e, TRUE, f, g)
  BY <1>1, <1>a, <1>b
<1>3. RowOK(Retried(x, no), e, TRUE, f, g) /\ Retried(x, no).token = None
      /\ Retried(x, no).won = x.won
  BY <1>c, ConstantFacts
     DEF Retried, Freed, RowOK, RowAllowed, Rows, States, RuledAfterRefund
<1>4. Deferred(x) = Retried(x, no)
  BY <1>2 DEF Deferred
<1>5. RowOK(Deferred(x), e, TRUE, fst, ret)
  BY <1>a, <1>b, <1>3, <1>4
<1> QED BY <1>3, <1>4, <1>5 DEF fst, ret, Fits

(* A step that writes the row x of its own reward, without a subscription. *)
LEMMA WriteKeeps ==
  ASSUME ReferralInv, NEW w \in Workers, NEW j \in Jobs, NEW r \in Rewards, NEW x, NEW e,
         r = worker[w].r, Owns(w),
         worker' = [worker EXCEPT ![w] = j],
         reward' = [reward EXCEPT ![r] = x],
         effect' = [effect EXCEPT ![r] = e],
         UNCHANGED <<purchase, earlier, assigned, expiry, panel, faults>>,
         Fits(x, e, r),
         x.token \in {w, None}, x.won = reward[r].won,
         j.pc \in {"prepared", "call", "finish", "manual"} =>
           j.u = worker[w].u /\ (Mutating(w) \/ ~MutationLocked(j.u)),
         JobOK(w)'
  PROVE  ReferralInv'
<1>1. /\ reward \in [Rewards -> Rows] /\ effect \in [Rewards -> Nat]
      /\ expiry \in [Recipients -> Nat \cup {None}] /\ panel \in [Recipients -> Nat]
      /\ faults \in 0 .. MaxFaults /\ RewardOK(r)
  BY DEF ReferralInv, TypeOK
<1>2. SourceOf[r] \in assigned
  BY <1>1, Known DEF Owns
<1>3. /\ reward'[r] = x /\ effect'[r] = e /\ x \in Rows /\ e \in Nat
      /\ \A q \in Rewards \ {r} : reward'[q] = reward[q] /\ effect'[q] = effect[q]
      /\ reward' \in [Rewards -> Rows] /\ effect' \in [Rewards -> Nat]
  BY <1>1 DEF RowOK, Fits
<1>4. RewardOK(r)'
  BY <1>2, <1>3 DEF RewardOK, RowOK, Fits, First, Proved, Returned, purchase
<1>5. \A q \in Rewards \ {r} : RewardOK(q)'
  BY <1>3 DEF ReferralInv, RewardOK, First, Proved, Returned, purchase
<1>6. \A q \in Rewards : RewardOK(q)'
  BY <1>4, <1>5
<1> QED BY <1>1, <1>3, <1>6, WorkerStepKeeps

LEMMA PickKeeps ==
  ASSUME ReferralInv, NEW w \in Workers, NEW u \in Recipients, PickRecipient(w, u)
  PROVE  ReferralInv'
<1> DEFINE j == [pc |-> "lock", r |-> None, u |-> u]
<1>1. j \in Jobs /\ j.pc = "lock" /\ j.u = u /\ worker' = [worker EXCEPT ![w] = j]
  BY DEF PickRecipient, Jobs, Steps
<1> HIDE DEF j
<1>2. worker'[w] = j /\ faults' \in 0 .. MaxFaults
  BY <1>1 DEF ReferralInv, TypeOK, PickRecipient
<1>3. JobOK(w)'
  BY <1>1, <1>2 DEF JobOK, Locking
<1> QED BY <1>1, <1>2, <1>3, QuietKeeps DEF PickRecipient

LEMMA LockRecipientKeeps ==
  ASSUME ReferralInv, NEW w \in Workers, NEW r \in Rewards, LockRecipient(w, r)
  PROVE  ReferralInv'
<1> DEFINE j == [worker[w] EXCEPT !.pc = "update", !.r = r]
<1>1. j \in Jobs /\ j.pc = "update" /\ j.r = r /\ j.u = RecipientOf[r]
      /\ worker' = [worker EXCEPT ![w] = j]
  BY DEF LockRecipient, ReferralInv, TypeOK, Jobs, Steps
<1> HIDE DEF j
<1>2. worker'[w] = j /\ faults' \in 0 .. MaxFaults
  BY <1>1 DEF ReferralInv, TypeOK, LockRecipient
<1>3. JobOK(w)'
  BY <1>1, <1>2 DEF JobOK, Locking
<1> QED BY <1>1, <1>2, <1>3, QuietKeeps DEF LockRecipient

LEMMA CrashKeeps ==
  ASSUME ReferralInv, NEW w \in Workers, Crash(w)
  PROVE  ReferralInv'
<1>1. worker'[w] = Idle /\ faults' \in 0 .. MaxFaults
  BY ConstantFacts DEF ReferralInv, TypeOK, Crash, Done
<1>2. JobOK(w)'
  BY <1>1, IdleJob DEF JobOK, Locking
<1> QED BY <1>1, <1>2, IdleJob, QuietKeeps DEF Crash, Done

LEMMA GrantFailsKeeps ==
  ASSUME ReferralInv, NEW w \in Workers, GrantFails(w)
  PROVE  ReferralInv'
<1> DEFINE j == [worker[w] EXCEPT !.pc = "defer"]
<1>0. worker[w] \in Jobs /\ worker[w].pc = "hold" /\ JobOK(w)
  BY DEF GrantFails, ReferralInv, TypeOK
<1>1. j \in Jobs /\ j.pc = "defer" /\ j.r = worker[w].r /\ j.u = worker[w].u
      /\ worker' = [worker EXCEPT ![w] = j]
  BY <1>0 DEF GrantFails, Goto, ReferralInv, TypeOK, Jobs, Steps
<1> HIDE DEF j
<1>2. worker'[w] = j /\ faults' \in 0 .. MaxFaults
  BY <1>1, ConstantFacts DEF ReferralInv, TypeOK, GrantFails
<1>3. JobOK(w)'
  BY <1>0, <1>1, <1>2 DEF JobOK, Locking
<1> QED BY <1>1, <1>2, <1>3, QuietKeeps DEF GrantFails

(* The row a worker owns.                                                  *)
LEMMA OwnRow ==
  ASSUME ReferralInv, NEW w \in Workers, NEW r \in Rewards, r = worker[w].r, Owns(w)
  PROVE  /\ Fits(reward[r], effect[r], r)
         /\ reward[r].state = "PROCESSING" /\ reward[r].token = w /\ Row(w) = reward[r]
         /\ effect[r] \in {0, 1} /\ effect = [effect EXCEPT ![r] = effect[r]]
<1>1. RewardOK(r) /\ reward[r].state = "PROCESSING" /\ reward[r].token = w
  BY DEF ReferralInv, Owns
<1>2. effect \in [Rewards -> Nat]
  BY DEF ReferralInv, TypeOK
<1> QED BY <1>1, <1>2, Known DEF Row, RewardOK, RowOK, Fits

(* A job that ends does not rely on anything.                              *)
LEMMA EndsOK ==
  ASSUME ReferralInv, NEW w \in Workers, Done(w)
  PROVE  worker' = [worker EXCEPT ![w] = Idle] /\ Idle \in Jobs /\ Idle.pc = "idle" /\ JobOK(w)'
<1>1. worker'[w] = Idle
  BY DEF Done, ReferralInv, TypeOK
<1> QED BY <1>1, IdleJob DEF Done, JobOK, Locking

(* A job that goes on keeps its reward and recipient.                      *)
LEMMA GoesOn ==
  ASSUME ReferralInv, NEW w \in Workers, NEW step \in Steps, Goto(w, step),
         NEW j, j = [worker[w] EXCEPT !.pc = step]
  PROVE  /\ worker' = [worker EXCEPT ![w] = j] /\ worker'[w] = j /\ j \in Jobs
         /\ j.pc = step /\ j.r = worker[w].r /\ j.u = worker[w].u
<1>1. worker[w] \in Jobs /\ worker \in [Workers -> Jobs]
  BY DEF ReferralInv, TypeOK
<1> QED BY <1>1 DEF Goto, Jobs

LEMMA DeferKeeps ==
  ASSUME ReferralInv, NEW w \in Workers, Defer(w)
  PROVE  ReferralInv'
<1>a. PICK r \in Rewards : r = worker[w].r
  BY DEF Defer, ReferralInv, JobOK
<1>0. UNCHANGED <<purchase, earlier, assigned, expiry, panel, effect, faults>> /\ Done(w)
  BY DEF Defer
<1>1. CASE Owns(w) /\ reward[r].target = None
  <2>1. reward' = [reward EXCEPT ![r] = Deferred(reward[r])]
    BY <1>a, <1>1 DEF Defer, Row, Deferred
  <2>2. /\ Fits(Deferred(reward[r]), effect[r], r)
        /\ Deferred(reward[r]).token = None
        /\ Deferred(reward[r]).won = reward[r].won
    BY <1>a, <1>1, OwnRow, OwnerDefers
  <2>3. effect' = [effect EXCEPT ![r] = effect[r]]
    BY <1>a, <1>0, <1>1, OwnRow
  <2> QED BY <1>a, <1>0, <1>1, <2>1, <2>2, <2>3, EndsOK, WriteKeeps
<1>2. CASE ~(Owns(w) /\ reward[r].target = None)
  <2>1. reward' = reward /\ faults' \in 0 .. MaxFaults
    BY <1>a, <1>0, <1>2 DEF Defer, Row, ReferralInv, TypeOK
  <2> QED BY <1>0, <2>1, EndsOK, QuietKeeps
<1> QED BY <1>1, <1>2

(* Cancelling a claim closes a reward that was not granted.                *)
LEMMA CancelKeeps ==
  ASSUME ReferralInv, NEW w \in Workers, CancelClaimed(w), worker[w].r \in Rewards,
         UNCHANGED <<purchase, earlier, assigned, expiry, panel, effect, faults>>
  PROVE  ReferralInv'
<1>a. PICK r \in Rewards : r = worker[w].r
  OBVIOUS
<1>0. Done(w)
  BY DEF CancelClaimed
<1>1. CASE Owns(w)
  <2>1. reward' = [reward EXCEPT ![r] = Superseded(reward[r])]
    BY <1>a, <1>1 DEF CancelClaimed
  <2>2. /\ Fits(Superseded(reward[r]), effect[r], r)
        /\ Superseded(reward[r]).token = None
        /\ Superseded(reward[r]).won = reward[r].won
    BY <1>a, <1>1, OwnRow, OwnerWrites
  <2>3. effect' = [effect EXCEPT ![r] = effect[r]]
    BY <1>a, <1>1, OwnRow
  <2> QED BY <1>a, <1>0, <1>1, <2>1, <2>2, <2>3, EndsOK, WriteKeeps
<1>2. CASE ~Owns(w)
  <2>1. reward' = reward /\ faults' \in 0 .. MaxFaults
    BY <1>2 DEF CancelClaimed, ReferralInv, TypeOK
  <2> QED BY <1>0, <2>1, EndsOK, QuietKeeps
<1> QED BY <1>1, <1>2

(* Handing the worker's reward to the operator.                            *)
LEMMA HandOverKeeps ==
  ASSUME ReferralInv, NEW w \in Workers, worker[w].r \in Rewards, Owns(w),
         Write(w, Manual(Row(w), "OTHER")), Done(w),
         UNCHANGED <<purchase, earlier, assigned, expiry, panel, effect, faults>>
  PROVE  ReferralInv'
<1>a. PICK r \in Rewards : r = worker[w].r
  OBVIOUS
<1>1. reward' = [reward EXCEPT ![r] = Manual(reward[r], "OTHER")]
  BY <1>a DEF Write, Row
<1>2. /\ Fits(Manual(reward[r], "OTHER"), effect[r], r)
      /\ Manual(reward[r], "OTHER").token = None
      /\ Manual(reward[r], "OTHER").won = reward[r].won
  BY <1>a, OwnRow, OwnerWrites
<1>3. effect' = [effect EXCEPT ![r] = effect[r]]
  BY <1>a, OwnRow
<1> QED BY <1>a, <1>1, <1>2, <1>3, EndsOK, WriteKeeps

LEMMA MarkManualKeeps ==
  ASSUME ReferralInv, NEW w \in Workers, MarkManual(w)
  PROVE  ReferralInv'
<1>0. worker[w].r \in Rewards /\ Done(w)
      /\ UNCHANGED <<purchase, earlier, assigned, expiry, panel, effect, faults>>
  BY DEF MarkManual, ReferralInv, JobOK
<1>1. CASE Owns(w)
  BY <1>0, <1>1, HandOverKeeps DEF MarkManual, Ambiguous
<1>2. CASE ~Owns(w)
  <2>1. reward' = reward /\ faults' \in 0 .. MaxFaults
    BY <1>2 DEF MarkManual, ReferralInv, TypeOK
  <2> QED BY <1>0, <2>1, EndsOK, QuietKeeps
<1> QED BY <1>1, <1>2

(* Points are credited with the reward.                                    *)
LEMMA IssuePointsKeeps ==
  ASSUME ReferralInv, NEW w \in Workers, IssuePoints(w)
  PROVE  ReferralInv'
<1>a. PICK r \in Rewards : r = worker[w].r
  BY DEF IssuePoints, MayMutate, ReferralInv, JobOK
<1>0. UNCHANGED <<purchase, earlier, assigned, expiry, panel, faults>>
      /\ Row(w) = reward[r] /\ reward[r].type = "POINTS"
  BY <1>a DEF IssuePoints, Row
<1>1. CASE Owns(w) /\ SourceEligible(SourceOf[r])
  <2>1. reward' = [reward EXCEPT ![r] = Issued(reward[r])] /\ Done(w)
        /\ effect' = [effect EXCEPT ![r] = effect[r] + 1]
    BY <1>a, <1>0, <1>1 DEF IssuePoints, Write
  <2>2. Fits(reward[r], effect[r], r) /\ reward[r].state = "PROCESSING"
    BY <1>a, <1>1, OwnRow
  <2>3. effect[r] = 0
    BY <1>0, <2>2 DEF Fits, RowOK, RowAllowed
  <2>4. effect' = [effect EXCEPT ![r] = 1]
    BY <2>1, <2>3
  <2>5. /\ Fits(Issued(reward[r]), 1, r) /\ Issued(reward[r]).token = None
        /\ Issued(reward[r]).won = reward[r].won
    BY <2>2, OwnerWrites
  <2> QED BY <1>a, <1>0, <1>1, <2>1, <2>4, <2>5, EndsOK, WriteKeeps
<1>2. CASE ~(Owns(w) /\ SourceEligible(SourceOf[r]))
  BY <1>a, <1>0, <1>2, CancelKeeps DEF IssuePoints
<1> QED BY <1>1, <1>2

(* The target is stored before the panel is called.                        *)
LEMMA PrepareKeeps ==
  ASSUME ReferralInv, NEW w \in Workers, PrepareTarget(w)
  PROVE  ReferralInv'
<1>h. worker[w].pc = "hold" /\ ~MutationLocked(worker[w].u)
  BY DEF PrepareTarget, MayMutate
<1>a. PICK r \in Rewards : r = worker[w].r
  BY <1>h DEF ReferralInv, JobOK
<1>0. /\ UNCHANGED <<purchase, earlier, assigned, expiry, panel, effect, faults>>
      /\ Row(w) = reward[r] /\ reward[r].type = "EXTRA_DAYS"
      /\ worker[w].pc = "hold" /\ worker[w].u = RecipientOf[r] /\ worker[w].u \in Recipients
      /\ ~MutationLocked(worker[w].u) /\ faults' \in 0 .. MaxFaults /\ JobOK(w)
      /\ expiry[worker[w].u] \in Nat \cup {None}
  BY <1>h, <1>a, ConstantFacts DEF PrepareTarget, Row, ReferralInv, TypeOK, JobOK
<1>1. CASE expiry[worker[w].u] = None
  <2> DEFINE j == [worker[w] EXCEPT !.pc = "defer"]
  <2>1. reward' = reward /\ Goto(w, "defer") /\ "defer" \in Steps
    BY <1>1 DEF PrepareTarget, Steps
  <2>2. /\ worker' = [worker EXCEPT ![w] = j] /\ worker'[w] = j /\ j \in Jobs
        /\ j.pc = "defer" /\ j.r = worker[w].r /\ j.u = worker[w].u
    BY <2>1, GoesOn
  <2> HIDE DEF j
  <2>3. JobOK(w)'
    BY <1>a, <1>0, <2>2 DEF JobOK, Locking
  <2> QED BY <1>0, <2>1, <2>2, <2>3, QuietKeeps
<1>2. CASE ~(Owns(w) /\ reward[r].target = None) /\ expiry[worker[w].u] # None
  <2>1. reward' = reward /\ Done(w)
    BY <1>0, <1>2 DEF PrepareTarget
  <2> QED BY <1>0, <2>1, EndsOK, QuietKeeps
<1>3. CASE expiry[worker[w].u] # None /\ Owns(w) /\ reward[r].target = None
  <2> DEFINE j == [worker[w] EXCEPT !.pc = "prepared"]
  <2>0. PICK base : base = expiry[worker[w].u]
    OBVIOUS
  <2>1. PICK today \in 0 .. MaxDay :
          reward' = [reward EXCEPT ![r] = Aimed(reward[r], base, today)]
    BY <1>a, <1>0, <1>3, <2>0 DEF PrepareTarget, Write
  <2>2. Goto(w, "prepared") /\ "prepared" \in Steps
    BY <1>0, <1>3 DEF PrepareTarget, Steps
  <2>3. /\ worker' = [worker EXCEPT ![w] = j] /\ worker'[w] = j /\ j \in Jobs
        /\ j.pc = "prepared" /\ j.r = r /\ j.u = worker[w].u
    BY <1>a, <2>2, GoesOn
  <2>4. base \in Nat /\ today \in Nat
    BY <1>0, <1>3, <2>0, ConstantFacts
  <2>5. Fits(reward[r], effect[r], r) /\ reward[r].state = "PROCESSING" /\ reward[r].token = w
        /\ effect' = [effect EXCEPT ![r] = effect[r]]
    BY <1>a, <1>0, <1>3, OwnRow
  <2>6. PICK y : y = Aimed(reward[r], base, today)
    OBVIOUS
  <2>7. /\ Fits(y, effect[r], r) /\ y.token = w /\ y.target # None
        /\ y.won = reward[r].won
    BY <1>0, <1>3, <2>4, <2>5, <2>6, AimedFits
  <2>8. effect[r] = 0
    BY <1>3, <2>5 DEF Fits, RowOK
  <2> HIDE DEF j
  <2>9. reward' = [reward EXCEPT ![r] = y] /\ reward'[r] = y
    BY <2>1, <2>6 DEF ReferralInv, TypeOK
  <2>10. JobOK(w)'
    BY <1>0, <2>3, <2>7, <2>8, <2>9 DEF JobOK, Locking, Row
  <2> QED BY <1>a, <1>0, <1>3, <2>3, <2>5, <2>7, <2>9, <2>10, WriteKeeps
<1> QED BY <1>1, <1>2, <1>3

(* The grant locks its source and goes on only if nothing has changed.     *)
LEMMA LockSourceKeeps ==
  ASSUME ReferralInv, NEW w \in Workers, LockSource(w)
  PROVE  ReferralInv'
<1>h. worker[w].pc = "prepared" /\ Mutating(w)
      /\ UNCHANGED <<purchase, earlier, assigned, expiry, panel, effect, faults>>
  BY DEF LockSource, Mutating
<1>a. PICK r \in Rewards : r = worker[w].r
  BY <1>h DEF ReferralInv, JobOK
<1>0. /\ worker[w].u = RecipientOf[r] /\ Row(w) = reward[r]
      /\ (Owns(w) => reward[r].target # None /\ effect[r] = 0)
      /\ faults' \in 0 .. MaxFaults
  BY <1>h, <1>a DEF ReferralInv, TypeOK, JobOK, Row
<1>1. CASE ~(Owns(w) /\ SourceEligible(SourceOf[r]))
  BY <1>h, <1>a, <1>1, CancelKeeps DEF LockSource
<1>2. CASE Owns(w) /\ SourceEligible(SourceOf[r]) /\ ~AtBase(worker[w].u, Row(w))
  <2>1. Write(w, Manual(Row(w), "OTHER")) /\ Done(w)
    BY <1>a, <1>2 DEF LockSource
  <2> QED BY <1>h, <1>a, <1>2, <2>1, HandOverKeeps
<1>3. CASE Owns(w) /\ SourceEligible(SourceOf[r]) /\ AtBase(worker[w].u, Row(w))
  <2> DEFINE j == [worker[w] EXCEPT !.pc = "call"]
  <2>1. reward' = reward /\ Goto(w, "call") /\ "call" \in Steps
    BY <1>a, <1>3 DEF LockSource, Steps
  <2>2. /\ worker' = [worker EXCEPT ![w] = j] /\ worker'[w] = j /\ j \in Jobs
        /\ j.pc = "call" /\ j.r = r /\ j.u = worker[w].u
    BY <1>a, <2>1, GoesOn
  <2> HIDE DEF j
  <2>3. UNCHANGED <<reward, effect, expiry, panel, money>>
    BY <1>h, <2>1 DEF purchase
  <2>4. JobOK(w)'
    BY <1>0, <1>3, <2>2, <2>3, <1>a DEF JobOK, Locking, Row, Owns, AtBase, SourceEligible
  <2> QED BY <1>h, <1>0, <2>1, <2>2, <2>4, QuietKeeps
<1> QED BY <1>1, <1>2, <1>3

(* What the steps under the row locks rely on.                             *)
LEMMA UnderLocks ==
  ASSUME ReferralInv, NEW w \in Workers, Locking(w), NEW r \in Rewards, r = worker[w].r
  PROVE  /\ Fits(reward[r], effect[r], r) /\ reward[r].state = "PROCESSING"
         /\ reward[r].token = w /\ reward[r].target \in Nat /\ Row(w) = reward[r]
         /\ worker[w].u = RecipientOf[r] /\ worker[w].u \in Recipients /\ Mutating(w)
         /\ Owns(w) /\ JobOK(w) /\ money[SourceOf[r]] = "received"
<1>1. JobOK(w) /\ Owns(w) /\ Mutating(w) /\ reward[r].target # None
      /\ money[SourceOf[r]] = "received"
  BY DEF ReferralInv, JobOK, Locking, Mutating, Row
<1>2. Fits(reward[r], effect[r], r) /\ reward[r].state = "PROCESSING" /\ reward[r].token = w
      /\ Row(w) = reward[r]
  BY <1>1, OwnRow
<1>3. reward[r].target \in Nat
  BY <1>1, <1>2 DEF Fits, RowOK, Rows
<1> QED BY <1>1, <1>2, <1>3, JobShape

(* The panel's answer, or none.                                            *)
LEMMA CallPanelKeeps ==
  ASSUME ReferralInv, NEW w \in Workers, CallPanel(w)
  PROVE  ReferralInv'
<1>h. worker[w].pc = "call" /\ Locking(w)
      /\ UNCHANGED <<purchase, earlier, assigned, reward, expiry, faults>>
  BY DEF CallPanel, Locking
<1>a. PICK r \in Rewards : r = worker[w].r
  BY <1>h, JobShape
<1>0. /\ Fits(reward[r], effect[r], r) /\ reward[r].state = "PROCESSING"
      /\ reward[r].token = w /\ reward[r].target \in Nat /\ Row(w) = reward[r]
      /\ worker[w].u = RecipientOf[r] /\ worker[w].u \in Recipients /\ Mutating(w)
      /\ Owns(w) /\ JobOK(w) /\ money[SourceOf[r]] = "received" /\ effect[r] = 0
  BY <1>h, <1>a, UnderLocks DEF JobOK
<1>t. /\ reward \in [Rewards -> Rows] /\ effect \in [Rewards -> Nat]
      /\ expiry \in [Recipients -> Nat \cup {None}] /\ panel \in [Recipients -> Nat]
      /\ faults \in 0 .. MaxFaults
  BY DEF ReferralInv, TypeOK
<1> DEFINE j(step) == [worker[w] EXCEPT !.pc = step]
<1>1. CASE UNCHANGED <<panel, effect>> /\ Goto(w, "manual")
  <2>1. /\ worker' = [worker EXCEPT ![w] = j("manual")] /\ worker'[w] = j("manual")
        /\ j("manual") \in Jobs
        /\ j("manual").pc = "manual" /\ j("manual").r = r /\ j("manual").u = worker[w].u
    BY <1>a, <1>1, GoesOn DEF Steps
  <2> HIDE DEF j
  <2>2. JobOK(w)'
    BY <1>0, <2>1 DEF JobOK, Locking
  <2> QED BY <1>h, <1>0, <1>1, <1>t, <2>1, <2>2, QuietKeeps
<1>2. ASSUME NEW step \in {"finish", "manual"}, Goto(w, step),
             panel' = [panel EXCEPT ![worker[w].u] = Row(w).target],
             effect' = [effect EXCEPT ![worker[w].r] = @ + 1]
      PROVE  ReferralInv'
  <2>0. step \in Steps
    BY DEF Steps
  <2>1. /\ worker' = [worker EXCEPT ![w] = j(step)] /\ worker'[w] = j(step)
        /\ j(step) \in Jobs
        /\ j(step).pc = step /\ j(step).r = r /\ j(step).u = worker[w].u
    BY <1>a, <1>2, <2>0, GoesOn
  <2> HIDE DEF j
  <2>2. /\ panel' \in [Recipients -> Nat]
        /\ \A u \in Recipients : u # worker[w].u => panel'[u] = panel[u]
    BY <1>0, <1>2, <1>t
  <2>3. /\ effect' \in [Rewards -> Nat] /\ effect'[r] = 1
        /\ \A q \in Rewards \ {r} : effect'[q] = effect[q]
    BY <1>a, <1>0, <1>2, <1>t
  <2>4. RewardOK(r)'
    <3>1. Fits(reward[r], 1, r)
      BY <1>0, ConstantFacts DEF Fits, RowOK, RowAllowed
    <3>2. SourceOf[r] \in assigned
      BY <1>0, Known DEF ReferralInv
    <3> QED BY <1>h, <2>3, <3>1, <3>2
            DEF RewardOK, RowOK, Fits, First, Proved, Returned, purchase
  <2>5. \A q \in Rewards \ {r} : RewardOK(q)'
    BY <1>h, <2>3 DEF ReferralInv, RewardOK, First, Proved, Returned, purchase
  <2>6. \A q \in Rewards : RewardOK(q)'
    BY <2>4, <2>5
  <2>7. reward' = reward /\ money' = money
    BY <1>h DEF purchase
  <2>8. JobOK(w)'
    BY <1>a, <1>0, <1>2, <2>1, <2>3, <2>7, ConstantFacts DEF JobOK, Locking, Owns, Row
  <2>9. \A q \in Rewards : q # worker[w].r \/ ~Owns(w) => effect'[q] = effect[q]
    BY <1>a, <1>0, <2>3
  <2>10. \A q \in Rewards : q = worker[w].r => reward'[q].token = w
    BY <1>a, <1>0, <2>7
  <2> QED BY <1>h, <1>0, <1>t, <2>1, <2>2, <2>3, <2>6, <2>7, <2>8, <2>9, <2>10, WorkerStepKeeps
<1> QED BY <1>1, <1>2 DEF CallPanel

(* The local expiry is committed with the reward.                          *)
LEMMA FinishKeeps ==
  ASSUME ReferralInv, NEW w \in Workers, FinishExtraDays(w)
  PROVE  ReferralInv'
<1>h. worker[w].pc = "finish" /\ Locking(w)
      /\ UNCHANGED <<purchase, earlier, assigned, panel, effect, faults>>
  BY DEF FinishExtraDays, Locking
<1>a. PICK r \in Rewards : r = worker[w].r
  BY <1>h, JobShape
<1>0. /\ Fits(reward[r], effect[r], r) /\ reward[r].state = "PROCESSING"
      /\ reward[r].token = w /\ reward[r].target \in Nat /\ Row(w) = reward[r]
      /\ worker[w].u = RecipientOf[r] /\ worker[w].u \in Recipients /\ Mutating(w)
      /\ Owns(w) /\ effect[r] = 1
  BY <1>h, <1>a, UnderLocks DEF JobOK
<1>t. /\ reward \in [Rewards -> Rows] /\ effect \in [Rewards -> Nat]
      /\ expiry \in [Recipients -> Nat \cup {None}] /\ panel \in [Recipients -> Nat]
      /\ faults \in 0 .. MaxFaults
  BY DEF ReferralInv, TypeOK
<1>1. CASE UNCHANGED <<reward, expiry>> /\ Goto(w, "manual")
  <2> DEFINE j == [worker[w] EXCEPT !.pc = "manual"]
  <2>1. /\ worker' = [worker EXCEPT ![w] = j] /\ worker'[w] = j /\ j \in Jobs
        /\ j.pc = "manual" /\ j.r = r /\ j.u = worker[w].u
    BY <1>a, <1>1, GoesOn DEF Steps
  <2> HIDE DEF j
  <2>2. JobOK(w)'
    BY <1>0, <2>1 DEF JobOK, Locking
  <2> QED BY <1>h, <1>0, <1>1, <1>t, <2>1, <2>2, QuietKeeps
<1>2. CASE /\ Write(w, Issued(Row(w))) /\ Done(w)
           /\ expiry' = [expiry EXCEPT ![worker[w].u] = Row(w).target]
  <2>1. /\ Fits(Issued(reward[r]), 1, r) /\ Issued(reward[r]).token = None
        /\ Issued(reward[r]).won = reward[r].won
    BY <1>0, OwnerWrites
  <2>2. reward' = [reward EXCEPT ![r] = Issued(reward[r])]
    BY <1>a, <1>0, <1>2 DEF Write
  <2>3. /\ reward'[r] = Issued(reward[r]) /\ Issued(reward[r]) \in Rows
        /\ \A q \in Rewards \ {r} : reward'[q] = reward[q]
        /\ reward' \in [Rewards -> Rows]
    BY <1>t, <2>1, <2>2 DEF Fits, RowOK
  <2>4. /\ expiry' \in [Recipients -> Nat \cup {None}]
        /\ \A u \in Recipients : u # worker[w].u => expiry'[u] = expiry[u]
    BY <1>0, <1>2, <1>t
  <2>5. RewardOK(r)'
    <3>1. SourceOf[r] \in assigned
      BY <1>0, Known DEF ReferralInv
    <3> QED BY <1>h, <1>0, <2>1, <2>3, <3>1
            DEF RewardOK, RowOK, Fits, First, Proved, Returned, purchase
  <2>6. \A q \in Rewards \ {r} : RewardOK(q)'
    BY <1>h, <2>3 DEF ReferralInv, RewardOK, First, Proved, Returned, purchase
  <2>7. \A q \in Rewards : RewardOK(q)'
    BY <2>5, <2>6
  <2>8. \A q \in Rewards : q # worker[w].r \/ ~Owns(w) => reward'[q] = reward[q]
    BY <1>a, <1>0, <2>3
  <2>9. \A q \in Rewards : q = worker[w].r => reward'[q].token = None
                                             /\ reward'[q].won = reward[q].won
    BY <1>a, <2>1, <2>3
  <2> QED BY <1>h, <1>0, <1>2, <1>t, <2>3, <2>4, <2>7, <2>8, <2>9, EndsOK, WorkerStepKeeps
<1> QED BY <1>1, <1>2 DEF FinishExtraDays

LEMMA RunEndsKeeps ==
  ASSUME ReferralInv, NEW w \in Workers, RunEnds(w)
  PROVE  ReferralInv'
BY AlertKeeps DEF RunEnds

(* The initial states.                                                     *)
LEMMA StartsOK == ASSUME Init PROVE ReferralInv
<1>0. /\ Promise!Init /\ StartRewards
      /\ Idle \in Jobs /\ Idle.pc = "idle"
  BY IdleJob DEF Init
<1>1. /\ money \in [Sources -> Moneys] /\ delivery \in [Sources -> Deliveries]
      /\ applied \in [Sources -> {0, 1}]
      /\ \A s \in Sources : SourceOK(s)
  BY <1>0 DEF Promise!Init, Moneys, Deliveries, SourceOK
<1>2. \A r \in Rewards : reward[r] = NoRow /\ effect[r] = 0
  BY <1>0 DEF StartRewards
<1>3. ASSUME NEW r \in Rewards PROVE RewardOK(r) /\ RowAllowed(reward[r])
  <2> DEFINE fst == First(r)  ret == Returned(SourceOf[r])  known == SourceOf[r] \in assigned
  <2>1. fst \in BOOLEAN /\ ret \in BOOLEAN /\ known \in BOOLEAN
    BY DEF First, Proved, Returned
  <2> HIDE DEF fst, ret, known
  <2>2. RowOK(NoRow, 0, known, fst, ret)
    BY <2>1, NoRowOK
  <2> QED BY <1>2, <2>2 DEF RewardOK, RowOK, fst, ret, known
<1>4. TypeOK
  <2>1. reward \in [Rewards -> Rows]
    BY <1>0, <1>2, <1>3 DEF StartRewards, RewardOK, RowOK
  <2> QED BY <1>0, <1>3, <2>1, ConstantFacts DEF StartRewards, TypeOK
<1>5. \A w \in Workers : JobOK(w) /\ ~Mutating(w)
  BY <1>0 DEF StartRewards, JobOK, Locking, Mutating
<1>6. OneMutator /\ OneInFlight
  BY <1>2, <1>5, NoRowOK DEF OneMutator, OneInFlight, NoRow
<1> QED BY <1>1, <1>3, <1>4, <1>5, <1>6 DEF ReferralInv

LEMMA StepKeeps == ASSUME ReferralInv, [Next]_vars PROVE ReferralInv'
<1>1. CASE UNCHANGED vars
  <2>1. \A w \in Workers : JobOK(w)'
    BY <1>1 DEF ReferralInv, JobOK, Locking, Owns, Row, AtBase, vars
  <2>2. TypeOK' /\ OneMutator' /\ OneInFlight' /\ (\A r \in Rewards : RewardOK(r)')
        /\ (\A s \in Sources : SourceOK(s)')
    BY <1>1 DEF ReferralInv, TypeOK, OneMutator, OneInFlight, RewardOK, SourceOK, vars,
                Mutating, First, Proved, Returned
  <2> QED BY <1>1, <2>1, <2>2 DEF ReferralInv, vars
<1>2. CASE Next
  <2>1. ASSUME NEW s \in Sources,
               ProveSource(s) \/ RefundSource(s) \/ MoveSource(s) \/ AssignReferralRewards(s)
        PROVE  ReferralInv'
    BY <2>1, SourceKeeps, AssignKeeps
  <2>2. ASSUME NEW u \in Recipients, PurchaseSubscription(u) PROVE ReferralInv'
    BY <2>2, PurchaseKeeps
  <2>3. ASSUME NEW r \in Rewards, LeaseExpires(r) \/ BackoffElapses(r) PROVE ReferralInv'
    BY <2>3, ClockKeeps
  <2>4. ASSUME NEW r \in Rewards, NEW confirm \in BOOLEAN, NEW drift \in BOOLEAN,
               Resolve(r, confirm, drift)
        PROVE  ReferralInv'
    BY <2>4, ResolveKeeps
  <2>5. ASSUME NEW w \in Workers, WorkerStep(w) PROVE ReferralInv'
    BY <2>5, RunEndsKeeps, ClaimKeeps, DeferKeeps, IssuePointsKeeps, PrepareKeeps,
       LockSourceKeeps, CallPanelKeeps, FinishKeeps, MarkManualKeeps DEF WorkerStep
  <2>6. ASSUME NEW w \in Workers, Sweep(w) \/ GrantFails(w) \/ Crash(w) PROVE ReferralInv'
    BY <2>6, SweepKeeps, GrantFailsKeeps, CrashKeeps
  <2>7. ASSUME NEW w \in Workers, NEW u \in Recipients, PickRecipient(w, u)
        PROVE  ReferralInv'
    BY <2>7, PickKeeps
  <2>8. ASSUME NEW w \in Workers, NEW r \in Rewards, LockRecipient(w, r)
        PROVE  ReferralInv'
    BY <2>8, LockRecipientKeeps
  <2> QED BY <1>2, <2>1, <2>2, <2>3, <2>4, <2>5, <2>6, <2>7, <2>8 DEF Next
<1> QED BY <1>1, <1>2

THEOREM InvariantHolds == Spec => []ReferralInv
<1>1. Init => ReferralInv
  BY StartsOK
<1>2. ReferralInv /\ [Next]_vars => ReferralInv'
  BY StepKeeps
<1> QED BY <1>1, <1>2, PTL DEF Spec

(* No statement writes a row the table rejects, nor a shape of its own.    *)
THEOREM TypeCorrect == Spec => []TypeOK
<1>1. ReferralInv => TypeOK
  BY DEF ReferralInv
<1> QED BY <1>1, InvariantHolds, PTL

(* A reward is granted once at most.                                       *)
THEOREM GrantedOnce == Spec => []GrantedAtMostOnce
<1>1. ReferralInv => GrantedAtMostOnce
  <2> SUFFICES ASSUME ReferralInv, NEW r \in Rewards PROVE effect[r] <= 1
    BY DEF GrantedAtMostOnce
  <2>1. effect[r] \in {0, 1}
    BY DEF ReferralInv, RewardOK, RowOK
  <2> QED BY <2>1
<1> QED BY <1>1, InvariantHolds, PTL

(* One reward of a recipient is in flight, one of a group has won.         *)
THEOREM OneInFlightKept == Spec => []OneInFlight
<1>1. ReferralInv => OneInFlight
  BY DEF ReferralInv
<1> QED BY <1>1, InvariantHolds, PTL

(* An ON_FIRST_PAYMENT reward goes to the first payment.                   *)
THEOREM FirstPaymentKept == Spec => []FirstPaymentOnly
<1>1. ReferralInv => FirstPaymentOnly
  <2> SUFFICES ASSUME ReferralInv, NEW r \in Rewards, reward[r].first, effect[r] > 0
               PROVE  /\ earlier[SourceOf[r]] = {}
                      /\ \A q \in Rewards \ {r} :
                           GroupOf[q] = GroupOf[r] /\ reward[q].first
                             => effect[q] = 0 /\ ~reward[q].issued
    BY DEF FirstPaymentOnly
  <2>1. reward[r].won /\ First(r)
    BY DEF ReferralInv, RewardOK, RowOK
  <2>2. ASSUME NEW q \in Rewards \ {r}, GroupOf[q] = GroupOf[r], reward[q].first
        PROVE  effect[q] = 0 /\ ~reward[q].issued
    <3>1. ~reward[q].won
      BY <2>1, <2>2 DEF ReferralInv, OneInFlight
    <3> QED BY <2>2, <3>1 DEF ReferralInv, RewardOK, RowOK
  <2> QED BY <2>1, <2>2 DEF First
<1> QED BY <1>1, InvariantHolds, PTL

(* A reward becomes an incident twice at most.                             *)
THEOREM IncidentsEndProved == Spec => []IncidentsEnd
<1>1. ReferralInv => IncidentsEnd
  BY DEF ReferralInv, RewardOK, RowOK, IncidentsEnd
<1> QED BY <1>1, InvariantHolds, PTL

-----------------------------------------------------------------------------
(* The steps that grant.                                                   *)

(* Points are credited to an owed reward of a received payment.            *)
LEMMA PointsGrant ==
  ASSUME ReferralInv, NEW w \in Workers, NEW r \in Rewards, r = worker[w].r, IssuePoints(w),
         Owns(w), SourceEligible(SourceOf[r])
  PROVE  /\ effect[r] = 0 /\ effect' = [effect EXCEPT ![r] = 1]
         /\ reward[r].state = "PROCESSING" /\ reward[r].type = "POINTS"
         /\ reward' = [reward EXCEPT ![r] = Issued(reward[r])]
         /\ money[SourceOf[r]] = "received" /\ money' = money
<1>1. /\ reward' = [reward EXCEPT ![r] = Issued(reward[r])] /\ reward[r].type = "POINTS"
      /\ effect' = [effect EXCEPT ![r] = effect[r] + 1] /\ money' = money
  BY DEF IssuePoints, Write, Row, purchase
<1>2. Fits(reward[r], effect[r], r) /\ reward[r].state = "PROCESSING"
  BY OwnRow
<1>3. effect[r] = 0
  BY <1>1, <1>2 DEF Fits, RowOK, RowAllowed
<1> QED BY <1>1, <1>2, <1>3 DEF SourceEligible

(* The days are applied to a panel that is where the target was computed.  *)
LEMMA DaysGrant ==
  ASSUME ReferralInv, NEW w \in Workers, NEW r \in Rewards, r = worker[w].r, CallPanel(w),
         effect' # effect
  PROVE  /\ effect[r] = 0 /\ effect' = [effect EXCEPT ![r] = 1]
         /\ reward[r].state = "PROCESSING" /\ reward' = reward
         /\ panel'[RecipientOf[r]] >= panel[RecipientOf[r]] + Days
         /\ money[SourceOf[r]] = "received" /\ money' = money
<1>1. /\ Fits(reward[r], effect[r], r) /\ reward[r].state = "PROCESSING"
      /\ reward[r].target \in Nat /\ Row(w) = reward[r]
      /\ worker[w].u = RecipientOf[r] /\ worker[w].u \in Recipients
      /\ JobOK(w) /\ money[SourceOf[r]] = "received" /\ worker[w].pc = "call"
  BY UnderLocks DEF CallPanel, Locking
<1>2. effect[r] = 0 /\ panel[RecipientOf[r]] = reward[r].base
  BY <1>1 DEF JobOK, AtBase
<1>3. /\ panel' = [panel EXCEPT ![RecipientOf[r]] = reward[r].target]
      /\ effect' = [effect EXCEPT ![r] = effect[r] + 1] /\ reward' = reward /\ money' = money
  BY <1>1 DEF CallPanel, purchase
<1>4. panel'[RecipientOf[r]] = reward[r].target
  BY <1>1, <1>3 DEF ReferralInv, TypeOK
<1>5. reward[r].target >= reward[r].base + Days
  BY <1>1, ConstantFacts DEF Fits, RowOK
<1> QED BY <1>1, <1>2, <1>3, <1>4, <1>5

(* No other step grants.                                                   *)
LEMMA OnlyGrants ==
  ASSUME [Next]_vars, effect' # effect
  PROVE  \E w \in Workers : IssuePoints(w) \/ CallPanel(w)
BY DEF Next, vars, ProveSource, RefundSource, MoveSource, AssignReferralRewards,
       PurchaseSubscription, LeaseExpires, BackoffElapses, Resolve, WorkerStep, RunEnds,
       ClaimReward, Defer, PrepareTarget, LockSource, FinishExtraDays, MarkManual, Sweep,
       GrantFails, Crash, PickRecipient, LockRecipient

(* A grant of extra days adds them to what the panel shows.                *)
THEOREM GrantsExtend == Spec => GrantExtends
<1> DEFINE Extends == \A r \in Rewards :
             effect'[r] > effect[r] /\ reward[r].type = "EXTRA_DAYS" =>
               panel'[RecipientOf[r]] >= panel[RecipientOf[r]] + Days
<1>1. ReferralInv /\ [Next]_vars => [Extends]_vars
  <2> SUFFICES ASSUME ReferralInv, [Next]_vars, NEW r \in Rewards, effect'[r] > effect[r],
                      reward[r].type = "EXTRA_DAYS"
               PROVE  panel'[RecipientOf[r]] >= panel[RecipientOf[r]] + Days
    OBVIOUS
  <2>0. effect \in [Rewards -> Nat]
    BY DEF ReferralInv, TypeOK
  <2>1. effect' # effect
    BY <2>0
  <2>2. PICK w \in Workers : IssuePoints(w) \/ CallPanel(w)
    BY <2>1, OnlyGrants
  <2>3. CASE IssuePoints(w)
    <3>1. PICK q \in Rewards : q = worker[w].r
      BY <2>3 DEF IssuePoints, MayMutate, ReferralInv, JobOK
    <3>2. Owns(w) /\ SourceEligible(SourceOf[q])
      BY <2>1, <2>3, <3>1 DEF IssuePoints
    <3>3. effect' = [effect EXCEPT ![q] = 1] /\ reward[q].type = "POINTS"
      BY <2>3, <3>1, <3>2, PointsGrant
    <3> QED BY <2>0, <3>3
  <2>4. CASE CallPanel(w)
    <3>1. PICK q \in Rewards : q = worker[w].r
      BY <2>4 DEF CallPanel, ReferralInv, JobOK
    <3>2. effect' = [effect EXCEPT ![q] = 1]
          /\ panel'[RecipientOf[q]] >= panel[RecipientOf[q]] + Days
      BY <2>1, <2>4, <3>1, DaysGrant
    <3> QED BY <2>0, <3>2
  <2> QED BY <2>2, <2>3, <2>4
<1>2. GrantExtends <=> [][Extends]_vars
  BY PTL DEF GrantExtends
<1> QED BY <1>1, <1>2, InvariantHolds, PTL DEF Spec

-----------------------------------------------------------------------------
(* The refinement.                                                         *)

stages == [r \in Rewards |-> Stage(reward[r])]
Abstract == <<money, stages, effect>>
AbstractStep == [Once!Next]_(Once!vars)

\* How a row may move without a grant, a record or a person.
StageMove(r) ==
  \/ Stage(reward'[r]) = Stage(reward[r])
  \/ Stage(reward[r]) = "owed" /\ effect[r] = 0 /\ Stage(reward'[r]) = "closed"
  \/ Stage(reward[r]) \in {"owed", "granted"} /\ Stage(reward'[r]) = "review"

LEMMA SettleStep ==
  ASSUME ReferralInv', UNCHANGED <<money, effect>>, \A r \in Rewards : StageMove(r)
  PROVE  AbstractStep
<1>1. \A r \in Rewards : reward'[r].state \in States
  BY DEF ReferralInv, TypeOK, Rows
<1>2. \A r \in Rewards :
        Stage(reward'[r]) \in {"none", "owed", "granted", "closed", "review"}
  BY <1>1 DEF Stage, States
<1>3. Once!Settle
  BY <1>2 DEF Once!Settle, Once!Stages, StageMove
<1> QED BY <1>3 DEF AbstractStep, Once!Next

LEMMA StutterStep ==
  ASSUME UNCHANGED <<money, effect>>,
         \A r \in Rewards : reward'[r].state = reward[r].state
  PROVE  AbstractStep
<1>1. \A r \in Rewards : Stage(reward'[r]) = Stage(reward[r])
  BY DEF Stage
<1> QED BY <1>1 DEF AbstractStep, Once!vars

LEMMA WriteStep ==
  ASSUME ReferralInv, ReferralInv', UNCHANGED <<money, effect>>, NEW r \in Rewards, NEW x,
         reward' = [reward EXCEPT ![r] = x], reward[r].state = "PROCESSING",
         \/ x.state \in {"PROCESSING", "RETRY_WAITING", "MANUAL_REQUIRED"}
         \/ x.state = "SUPERSEDED" /\ effect[r] = 0
  PROVE  AbstractStep
<1>1. /\ reward'[r] = x /\ \A q \in Rewards \ {r} : reward'[q] = reward[q]
  BY DEF ReferralInv, TypeOK
<1>2. StageMove(r)
  BY <1>1 DEF StageMove, Stage
<1>3. \A q \in Rewards \ {r} : StageMove(q)
  BY <1>1 DEF StageMove
<1> QED BY <1>2, <1>3, SettleStep

LEMMA KeepStep ==
  ASSUME ReferralInv, ReferralInv', UNCHANGED <<money, effect>>, NEW r \in Rewards, NEW x,
         reward' = [reward EXCEPT ![r] = x], reward[r].state = "PROCESSING",
         x.state \in {"PROCESSING", "RETRY_WAITING", "MANUAL_REQUIRED"}
  PROVE  AbstractStep
<1>1. reward'[r] = x /\ \A q \in Rewards \ {r} : reward'[q] = reward[q]
  BY DEF ReferralInv, TypeOK
<1>2. StageMove(r)
  BY <1>1 DEF StageMove, Stage
<1>3. \A q \in Rewards \ {r} : StageMove(q)
  BY <1>1 DEF StageMove
<1> QED BY <1>2, <1>3, SettleStep

(* The payments only pay, and money never comes back from a refund.        *)
LEMMA SourceStepMaps ==
  ASSUME ReferralInv, ReferralInv', NEW s \in Sources,
         ProveSource(s) \/ RefundSource(s) \/ MoveSource(s)
  PROVE  AbstractStep
<1>1. UNCHANGED <<reward, effect>>
  BY DEF ProveSource, RefundSource, MoveSource
<1>2. money' \in [Sources -> Moneys] /\ money \in [Sources -> Moneys]
  BY DEF ReferralInv
<1>3. \A t \in Sources : money[t] = "returned" => money'[t] = "returned"
  BY <1>2 DEF ProveSource, RefundSource, MoveSource, Promise!Prove, Promise!Return, Promise!Open,
              Promise!Void, Promise!Receive, Promise!Apply, Promise!HandOver
<1>4. Once!Pay
  BY <1>1, <1>2, <1>3 DEF Once!Pay, Once!Moneys, Moneys
<1> QED BY <1>4 DEF AbstractStep, Once!Next

(* The intents of a payment are owed together.                             *)
LEMMA AssignMaps ==
  ASSUME ReferralInv, NEW s \in Sources, AssignReferralRewards(s)
  PROVE  AbstractStep
<1>1. UNCHANGED <<money, effect>> /\ s \notin assigned
  BY DEF AssignReferralRewards, purchase
<1>2. CASE reward' = reward
  BY <1>1, <1>2, StutterStep
<1>3. ASSUME NEW type \in {"POINTS", "EXTRA_DAYS"}, NEW first \in BOOLEAN,
             reward' = [r \in Rewards |-> IF SourceOf[r] = s THEN Intent(type, first)
                                                             ELSE reward[r]]
      PROVE  AbstractStep
  <2>1. \A r \in Rewards : SourceOf[r] = s => reward[r].state = "ABSENT"
    BY <1>1 DEF ReferralInv, RewardOK, RowOK
  <2>2. \A r \in Rewards : SourceOf[r] = s => Stage(reward[r]) = "none"
    BY <2>1 DEF Stage
  <2>3. Stage(Intent(type, first)) = "owed"
    BY IntentOK DEF Stage
  <2>4. \A r \in Rewards : Stage(reward'[r]) = IF SourceOf[r] = s THEN "owed"
                                               ELSE Stage(reward[r])
    BY <1>3, <2>3
  <2>5. Once!Owe(s)
    BY <1>1, <2>2, <2>4 DEF Once!Owe
  <2> QED BY <2>5 DEF AbstractStep, Once!Next
<1> QED BY <1>2, <1>3 DEF AssignReferralRewards

(* The operator rules on what is under review.                             *)
LEMMA ResolveMaps ==
  ASSUME ReferralInv, NEW r \in Rewards, NEW confirm \in BOOLEAN, NEW drift \in BOOLEAN,
         Resolve(r, confirm, drift)
  PROVE  AbstractStep
<1> DEFINE final == IF confirm THEN "ISSUED" ELSE "SUPERSEDED"
<1>1. UNCHANGED <<money, effect>> /\ reward[r].state = "MANUAL_REQUIRED"
  BY DEF Resolve, purchase
<1>2. reward \in [Rewards -> Rows] /\ reward[r] \in Rows
  BY DEF ReferralInv, TypeOK
<1>3. /\ reward'[r].state = final
      /\ \A q \in Rewards \ {r} : reward'[q] = reward[q]
  BY <1>2 DEF Resolve, Rows
<1>4. Stage(reward[r]) = "review" /\ Stage(reward'[r]) \in {"granted", "closed"}
  BY <1>1, <1>3 DEF Stage
<1>5. stages \in [Rewards -> {"none", "owed", "granted", "closed", "review"}]
  BY <1>2 DEF stages, Stage, Rows, States
<1>6. stages' = [stages EXCEPT ![r] = Stage(reward'[r])]
  BY <1>3 DEF stages
<1>7. Once!Rule(r)
  BY <1>1, <1>4, <1>6 DEF Once!Rule, stages
<1> QED BY <1>7 DEF AbstractStep, Once!Next

LEMMA ClaimStepMaps ==
  ASSUME ReferralInv, ReferralInv', NEW w \in Workers,
         Sweep(w) \/ ClaimReward(w) \/ RunEnds(w)
  PROVE  AbstractStep
<1>1. UNCHANGED <<money, effect>>
  BY DEF Sweep, ClaimReward, RunEnds, purchase
<1>2. \A q \in Rewards : RewardOK(q)
  BY DEF ReferralInv
<1>3. CASE Sweep(w)
  <2>1. \A q \in Rewards : Settled(reward[q], reward'[q], effect[q])
    BY <1>2, <1>3, SweptOK DEF Sweep
  <2> QED BY <1>1, <2>1, SettleStep DEF Settled, StageMove
<1>4. CASE reward' = Alerted
  <2>1. \A q \in Rewards : reward'[q].state = reward[q].state
    BY <1>2, <1>4, AlertedOK
  <2> QED BY <1>1, <2>1, StutterStep
<1>5. CASE ClaimReward(w) /\ reward' # Alerted
  <2>1. PICK r \in Rewards : r = worker[w].r
    BY <1>5 DEF ClaimReward, ReferralInv, JobOK
  <2>2. /\ Claimable(r)
        /\ reward' = [q \in Rewards |-> IF q = r THEN Claimed(reward[r], w)
                                        ELSE IF LosesTo(q, r) THEN Superseded(reward[q])
                                        ELSE reward[q]]
    BY <1>5, <2>1 DEF ClaimReward
  <2>3. ASSUME NEW q \in Rewards PROVE StageMove(q)
    <3>1. CASE q = r
      <4>1. reward[r].state \in {"PENDING", "RETRY_WAITING"}
        BY <2>2 DEF Claimable, Waiting
      <4>2. reward'[r].state = "PROCESSING"
        BY <1>2, <2>2, WinnerOK
      <4> QED BY <3>1, <4>1, <4>2 DEF StageMove, Stage
    <3>2. CASE q # r /\ LosesTo(q, r)
      <4>1. Waiting(reward[q]) /\ reward'[q] = Superseded(reward[q])
        BY <2>2, <3>2 DEF LosesTo
      <4>2. reward'[q].state = "SUPERSEDED"
        BY <1>2, <4>1, LoserOK
      <4>3. reward[q].state \in {"PENDING", "RETRY_WAITING"} /\ effect[q] = 0
        BY <1>2, <4>1 DEF Waiting, RewardOK, RowOK
      <4> QED BY <4>2, <4>3 DEF StageMove, Stage
    <3>3. CASE q # r /\ ~LosesTo(q, r)
      BY <2>2, <3>3 DEF StageMove
    <3> QED BY <3>1, <3>2, <3>3
  <2> QED BY <1>1, <2>3, SettleStep
<1> QED BY <1>3, <1>4, <1>5 DEF RunEnds

(* What an owner writes, as a step of the promise.                         *)
LEMMA CancelMaps ==
  ASSUME ReferralInv, ReferralInv', UNCHANGED <<money, effect>>, NEW w \in Workers,
         NEW r \in Rewards, r = worker[w].r, CancelClaimed(w), Owns(w) => effect[r] = 0
  PROVE  AbstractStep
<1>1. CASE Owns(w)
  <2>1. reward' = [reward EXCEPT ![r] = Superseded(reward[r])] /\ reward[r].state = "PROCESSING"
    BY <1>1 DEF CancelClaimed, Owns
  <2>2. Superseded(reward[r]).state = "SUPERSEDED" /\ effect[r] = 0
    BY <1>1, OwnRow DEF Superseded, Freed, Fits, RowOK, Rows
  <2> HIDE DEF Superseded
  <2> QED BY <2>1, <2>2, WriteStep
<1>2. CASE ~Owns(w)
  BY <1>2, StutterStep DEF CancelClaimed
<1> QED BY <1>1, <1>2

LEMMA HandOverMaps ==
  ASSUME ReferralInv, ReferralInv', UNCHANGED <<money, effect>>, NEW w \in Workers,
         NEW r \in Rewards, r = worker[w].r, Owns(w), Write(w, Manual(Row(w), "OTHER"))
  PROVE  AbstractStep
<1>1. reward' = [reward EXCEPT ![r] = Manual(reward[r], "OTHER")]
      /\ reward[r].state = "PROCESSING"
  BY DEF Write, Row, Owns
<1>2. Manual(reward[r], "OTHER").state = "MANUAL_REQUIRED"
  BY OwnRow DEF Manual, Freed, Fits, RowOK, Rows
<1>3. PICK x : x = Manual(reward[r], "OTHER")
  OBVIOUS
<1> QED BY <1>1, <1>2, <1>3, KeepStep

(* The steps that grant or record.                                         *)
LEMMA GrantMaps ==
  ASSUME ReferralInv, NEW r \in Rewards, effect[r] = 0, effect' = [effect EXCEPT ![r] = 1],
         reward[r].state = "PROCESSING", money[SourceOf[r]] = "received", money' = money,
         \/ reward' = reward
         \/ reward' = [reward EXCEPT ![r] = Issued(reward[r])]
  PROVE  AbstractStep
<1>1. Stage(reward[r]) = "owed" /\ reward \in [Rewards -> Rows]
  BY DEF Stage, ReferralInv, TypeOK
<1>2. CASE reward' = reward
  <2>1. Once!Grant(r)
    BY <1>1, <1>2 DEF Once!Grant
  <2> QED BY <2>1 DEF AbstractStep, Once!Next
<1>3. CASE reward' = [reward EXCEPT ![r] = Issued(reward[r])]
  <2>1. /\ reward'[r] = Issued(reward[r])
        /\ \A q \in Rewards \ {r} : reward'[q] = reward[q]
    BY <1>1, <1>3
  <2>2. Issued(reward[r]).state = "ISSUED"
    BY <1>1 DEF Issued, Freed, Rows
  <2>3. Stage(reward'[r]) = "granted"
    BY <2>1, <2>2 DEF Stage
  <2>4. stages' = [stages EXCEPT ![r] = "granted"]
    BY <2>1, <2>3 DEF stages
  <2>5. Once!Grant(r)
    BY <1>1, <2>4 DEF Once!Grant, stages
  <2> QED BY <2>5 DEF AbstractStep, Once!Next
<1> QED BY <1>2, <1>3

LEMMA IssueMaps ==
  ASSUME ReferralInv, ReferralInv', NEW w \in Workers, IssuePoints(w)
  PROVE  AbstractStep
<1>1. PICK r \in Rewards : r = worker[w].r
  BY DEF IssuePoints, MayMutate, ReferralInv, JobOK
<1>2. CASE Owns(w) /\ SourceEligible(SourceOf[r])
  BY <1>1, <1>2, PointsGrant, GrantMaps
<1>3. CASE ~(Owns(w) /\ SourceEligible(SourceOf[r]))
  <2>1. CancelClaimed(w) /\ UNCHANGED <<money, effect>> /\ Row(w).type = "POINTS"
    BY <1>1, <1>3 DEF IssuePoints, purchase
  <2>2. Owns(w) => effect[r] = 0
    <3> SUFFICES ASSUME Owns(w) PROVE effect[r] = 0
      OBVIOUS
    <3>1. Fits(reward[r], effect[r], r) /\ reward[r].state = "PROCESSING"
          /\ reward[r].type = "POINTS"
      BY <1>1, <2>1, OwnRow
    <3> QED BY <3>1 DEF Fits, RowOK, RowAllowed
  <2> QED BY <1>1, <2>1, <2>2, CancelMaps
<1> QED BY <1>2, <1>3

LEMMA LockSourceMaps ==
  ASSUME ReferralInv, ReferralInv', NEW w \in Workers, LockSource(w)
  PROVE  AbstractStep
<1>0. worker[w].pc = "prepared" /\ UNCHANGED <<money, effect>>
  BY DEF LockSource, purchase
<1>1. PICK r \in Rewards : r = worker[w].r /\ (Owns(w) => effect[r] = 0)
  BY <1>0 DEF ReferralInv, JobOK
<1>2. CASE CancelClaimed(w)
  BY <1>0, <1>1, <1>2, CancelMaps
<1>3. CASE reward' = reward
  BY <1>0, <1>3, StutterStep
<1>4. CASE Owns(w) /\ Write(w, Manual(Row(w), "OTHER"))
  BY <1>0, <1>1, <1>4, HandOverMaps
<1> QED BY <1>2, <1>3, <1>4 DEF LockSource

LEMMA PrepareMaps ==
  ASSUME ReferralInv, ReferralInv', NEW w \in Workers, PrepareTarget(w)
  PROVE  AbstractStep
<1>0. UNCHANGED <<money, effect>>
  BY DEF PrepareTarget, purchase
<1>1. PICK r \in Rewards : r = worker[w].r
  BY DEF PrepareTarget, MayMutate, ReferralInv, JobOK
<1>2. CASE reward' = reward
  BY <1>0, <1>2, StutterStep
<1>3. CASE reward' # reward
  <2>1. Owns(w)
    BY <1>3 DEF PrepareTarget
  <2>2. PICK base, today : reward' = [reward EXCEPT ![r] = Aimed(reward[r], base, today)]
    BY <1>1, <1>3 DEF PrepareTarget, Write, Row
  <2>3. reward[r].state = "PROCESSING" /\ reward[r] \in Rows
    BY <1>1, <2>1, OwnRow DEF Fits, RowOK
  <2>4. Aimed(reward[r], base, today).state = "PROCESSING"
    BY <2>3 DEF Aimed, Rows
  <2>5. PICK x : x = Aimed(reward[r], base, today)
    OBVIOUS
  <2> QED BY <1>0, <2>2, <2>3, <2>4, <2>5, KeepStep
<1> QED BY <1>2, <1>3

LEMMA DeferMaps ==
  ASSUME ReferralInv, ReferralInv', NEW w \in Workers, Defer(w)
  PROVE  AbstractStep
<1>0. UNCHANGED <<money, effect>>
  BY DEF Defer, purchase
<1>1. PICK r \in Rewards : r = worker[w].r
  BY DEF Defer, ReferralInv, JobOK
<1>2. CASE reward' = reward
  BY <1>0, <1>2, StutterStep
<1>3. CASE Owns(w) /\ reward' = [reward EXCEPT ![r] = Deferred(reward[r])]
  <2>1. reward[r].state = "PROCESSING" /\ reward[r] \in Rows
    BY <1>1, <1>3, OwnRow DEF Fits, RowOK
  <2>2. Deferred(reward[r]).state = "RETRY_WAITING"
    BY <2>1 DEF Deferred, Retried, Freed, Rows
  <2>3. PICK x : x = Deferred(reward[r])
    OBVIOUS
  <2> QED BY <1>0, <1>3, <2>1, <2>2, <2>3, KeepStep
<1> QED BY <1>1, <1>2, <1>3 DEF Defer, Deferred

LEMMA CallMaps ==
  ASSUME ReferralInv, NEW w \in Workers, CallPanel(w)
  PROVE  AbstractStep
<1>0. money' = money /\ reward' = reward
  BY DEF CallPanel, purchase
<1>1. PICK r \in Rewards : r = worker[w].r
  BY DEF CallPanel, ReferralInv, JobOK
<1>2. CASE effect' = effect
  BY <1>0, <1>2, StutterStep
<1>3. CASE effect' # effect
  BY <1>1, <1>3, DaysGrant, GrantMaps
<1> QED BY <1>2, <1>3

LEMMA FinishMaps ==
  ASSUME ReferralInv, NEW w \in Workers, FinishExtraDays(w)
  PROVE  AbstractStep
<1>0. UNCHANGED <<money, effect>> /\ Locking(w) /\ worker[w].pc = "finish"
  BY DEF FinishExtraDays, Locking, purchase
<1>1. PICK r \in Rewards : r = worker[w].r
  BY <1>0, JobShape
<1>2. reward[r].state = "PROCESSING" /\ effect[r] = 1 /\ Row(w) = reward[r]
  BY <1>0, <1>1, UnderLocks DEF JobOK
<1>3. CASE reward' = reward
  BY <1>0, <1>3, StutterStep
<1>4. CASE reward' = [reward EXCEPT ![r] = Issued(reward[r])]
  <2>1. Stage(reward[r]) = "owed" /\ reward \in [Rewards -> Rows]
    BY <1>2 DEF Stage, ReferralInv, TypeOK
  <2>2. /\ reward'[r] = Issued(reward[r])
        /\ \A q \in Rewards \ {r} : reward'[q] = reward[q]
    BY <1>4, <2>1
  <2>3. Issued(reward[r]).state = "ISSUED"
    BY <2>1 DEF Issued, Freed, Rows
  <2>4. Stage(reward'[r]) = "granted"
    BY <2>2, <2>3 DEF Stage
  <2>5. stages' = [stages EXCEPT ![r] = "granted"]
    BY <2>2, <2>4 DEF stages
  <2>6. Once!Record(r)
    BY <1>0, <1>2, <2>1, <2>5 DEF Once!Record, stages
  <2> QED BY <2>6 DEF AbstractStep, Once!Next
<1> QED BY <1>1, <1>2, <1>3, <1>4 DEF FinishExtraDays, Write

LEMMA MarkManualMaps ==
  ASSUME ReferralInv, ReferralInv', NEW w \in Workers, MarkManual(w)
  PROVE  AbstractStep
<1>0. UNCHANGED <<money, effect>>
  BY DEF MarkManual, purchase
<1>1. PICK r \in Rewards : r = worker[w].r
  BY DEF MarkManual, ReferralInv, JobOK
<1>2. CASE reward' = reward
  BY <1>0, <1>2, StutterStep
<1>3. CASE Owns(w) /\ Write(w, Manual(Row(w), "OTHER"))
  BY <1>0, <1>1, <1>3, HandOverMaps
<1> QED BY <1>2, <1>3 DEF MarkManual, Ambiguous

\* The clock, other purchases and the steps that write no row.
LEMMA OtherMaps ==
  ASSUME ReferralInv,
         \/ \E u \in Recipients : PurchaseSubscription(u)
         \/ \E r \in Rewards : LeaseExpires(r)
         \/ \E w \in Workers :
              \/ GrantFails(w) \/ Crash(w)
              \/ \E u \in Recipients : PickRecipient(w, u)
              \/ \E r \in Rewards : LockRecipient(w, r)
  PROVE  AbstractStep
<1>1. UNCHANGED <<money, effect>>
  BY DEF PurchaseSubscription, LeaseExpires, GrantFails, Crash, PickRecipient, LockRecipient,
         purchase
<1>2. CASE \E r \in Rewards : LeaseExpires(r)
  <2>1. PICK r \in Rewards : reward' = [reward EXCEPT ![r].lease = "EXPIRED"]
    BY <1>2 DEF LeaseExpires
  <2>2. reward \in [Rewards -> Rows]
    BY DEF ReferralInv, TypeOK
  <2>3. \A q \in Rewards : reward'[q].state = reward[q].state
    BY <2>1, <2>2 DEF Rows
  <2> QED BY <1>1, <2>3, StutterStep
<1>3. CASE ~\E r \in Rewards : LeaseExpires(r)
  <2>1. reward' = reward
    BY <1>3 DEF PurchaseSubscription, GrantFails, Crash, PickRecipient, LockRecipient
  <2> QED BY <1>1, <2>1, StutterStep
<1> QED BY <1>2, <1>3

LEMMA BackoffMaps ==
  ASSUME ReferralInv, NEW r \in Rewards, BackoffElapses(r)
  PROVE  AbstractStep
<1>1. UNCHANGED <<money, effect>> /\ reward' = [reward EXCEPT ![r].due = TRUE]
  BY DEF BackoffElapses, purchase
<1>2. reward \in [Rewards -> Rows]
  BY DEF ReferralInv, TypeOK
<1>3. \A q \in Rewards : reward'[q].state = reward[q].state
  BY <1>1, <1>2 DEF Rows
<1> QED BY <1>1, <1>3, StutterStep

(* The referral engine implements the promise of a reward.                 *)
THEOREM KeepsPromise == Spec => ImplementsRewardOnce
<1>1. Init => Once!Init
  <2> SUFFICES ASSUME Init PROVE Once!Init
    OBVIOUS
  <2>1. ReferralInv
    BY StartsOK
  <2>2. \A r \in Rewards : reward[r].state = "ABSENT" /\ effect[r] = 0
    BY DEF Init, StartRewards, NoRow
  <2>3. money \in [Sources -> Once!Moneys] /\ effect = [r \in Rewards |-> 0]
    BY <2>1 DEF ReferralInv, Moneys, Once!Moneys, Init, StartRewards
  <2> QED BY <2>2, <2>3 DEF Once!Init, Stage
<1>2. ReferralInv /\ ReferralInv' /\ [Next]_vars => [Once!Next]_(Once!vars)
  <2> SUFFICES ASSUME ReferralInv, ReferralInv', [Next]_vars PROVE AbstractStep
    BY DEF AbstractStep
  <2>1. CASE UNCHANGED vars
    BY <2>1, StutterStep DEF vars
  <2>2. ASSUME NEW w \in Workers, WorkerStep(w) PROVE AbstractStep
    BY <2>2, ClaimStepMaps, DeferMaps, IssueMaps, PrepareMaps, LockSourceMaps, CallMaps,
       FinishMaps, MarkManualMaps DEF WorkerStep
  <2>3. CASE Next
    BY <2>2, <2>3, SourceStepMaps, AssignMaps, ResolveMaps, ClaimStepMaps, OtherMaps,
       BackoffMaps DEF Next
  <2> QED BY <2>1, <2>3
<1> QED BY <1>1, <1>2, InvariantHolds, PTL DEF Spec, ImplementsRewardOnce, Once!Spec

=============================================================================
