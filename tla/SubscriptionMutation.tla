------------------------ MODULE SubscriptionMutation ------------------------
(***************************************************************************)
(* The use cases that write a subscription twice, on the Remnawave panel   *)
(* and in the local database, under one Redis lock per user: purchases,    *)
(* trials, promocodes, the administrator's edits, grace, synchronisation   *)
(* in both directions, and the panel's webhooks.                           *)
(*                                                                         *)
(* Whatever order a use case writes in, its local write is seen when its   *)
(* transaction commits, after the panel answered: a mutation is a read     *)
(* under the lock, one call to the panel and one commit.  The traffic, the *)
(* device limit, the squads and the tag are one value, the plan.  Instants *)
(* never coincide: what expires on a day is over once that day begins.     *)
(***************************************************************************)
EXTENDS Naturals, FiniteSets

CONSTANTS
  Users,
  Workers,     \* concurrent executions of a use case
  Kinds,       \* the use cases that are called
  Plans,
  Days,        \* duration of a plan, of a bonus and of a grace period
  MaxUses,     \* max_activations of the promocode, which is not reusable
  MaxDay, MaxExpiry,  \* bounds of the clock and of an expiry
  MaxUuid,     \* bound on the panel users created for one user
  MaxFaults,   \* bound on failed calls, lost answers and lost leases
  None

ASSUME MutationConstants ==
  /\ IsFiniteSet(Users)
  /\ Kinds \subseteq {"TOGGLE", "DELETE", "LIMITS", "DAYS", "LEAVE", "REJOIN", "SET_PLAN", "NEW",
                      "RENEW", "CHANGE", "TRIAL", "PROMO", "PULL", "PUSH"}
  /\ Days \in Nat \ {0}
  /\ MaxUses \in Nat /\ MaxDay \in Nat /\ MaxExpiry \in Nat /\ MaxUuid \in Nat
  /\ MaxFaults \in Nat
  /\ None \notin Users \cup Workers

VARIABLES
  row,       \* row[u]: the current subscription of u
  panel,     \* panel[u]: the panel user of u
  created,   \* created[u]: how many panel users u has had
  notices,   \* notices[u]: webhooks the panel has not delivered yet
  lock,      \* lock[u]: the worker that holds the mutation lock
  worker,    \* worker[w]: the mutation it executes
  wire,      \* panel calls whose caller gave up
  trialFree, \* trialFree[u]: is_trial_available
  trials,    \* trials[u]: trials committed
  uses,      \* uses[u]: promocode activations
  today, faults,
  late,      \* users on whose panel user a call landed whose caller had no lease any more
  torn       \* users for whom a row was committed without the lease, or too late for a webhook

vars == <<row, panel, created, notices, lock, worker, wire, trialFree, trials, uses,
          today, faults, late, torn>>

\* STATUS is user.enabled and user.disabled.
Webhooks == {"MODIFIED", "STATUS", "EXPIRED", "DELETED"}
Events == [event : Webhooks, uuid : 1 .. MaxUuid]
Statuses == {"ACTIVE", "DISABLED", "EXPIRED"}
Profiles == [uuid : 1 .. MaxUuid, expire : 0 .. MaxExpiry, status : Statuses,
             plan : Plans \cup {"grace"}]
Rows == [uuid : 1 .. MaxUuid, expire : 0 .. MaxExpiry, status : Statuses,
         plan : Plans \cup {"grace"}, trial : BOOLEAN, grace : BOOLEAN, left : BOOLEAN]

\* No record of the panel or of the database is taken for None.
ASSUME NoneIsNoRecord ==
  /\ None \notin [uuid : Nat, expire : Nat, status : Statuses, plan : Plans \cup {"grace"}]
  /\ None \notin [uuid : Nat, expire : Nat, status : Statuses, plan : Plans \cup {"grace"},
                  trial : BOOLEAN, grace : BOOLEAN, left : BOOLEAN]

Idle == [pc |-> "idle"]

Over(e) == e <= today
When(c, S) == IF c THEN S ELSE {}
Later(a, b) == IF a >= b THEN a ELSE b

-----------------------------------------------------------------------------
(* What each use case makes of the row s it read under the lock and of the *)
(* panel user p: the possible pairs of a row to commit and a panel user.   *)
(* The empty set is an early return, or an error before any write.         *)

Pair(s, p) == [row |-> s, panel |-> p]

Reached(s, p) == s # None /\ p # None /\ p.uuid = s.uuid

\* The panel's own record, as _build_update_request writes it.
Sent(s) == [uuid |-> s.uuid, expire |-> s.expire, plan |-> s.plan,
            status |-> IF s.status = "DISABLED" THEN "DISABLED" ELSE "ACTIVE"]

\* A full update: the panel refuses an expiry in the past.
Push(s, p) == When(Reached(s, p) /\ ~Over(s.expire), {Pair(s, Sent(s))})

Bought(id, q) == [uuid |-> id, expire |-> today + Days, status |-> "ACTIVE", plan |-> q]

NewRow(p, trial) == [uuid |-> p.uuid, expire |-> p.expire, status |-> p.status,
                     plan |-> p.plan, trial |-> trial, grace |-> FALSE, left |-> FALSE]

\* create_user: a second user of that name is a conflict.
Create(p, id, trial) ==
  When(p = None, {Pair(NewRow(Bought(id, q), trial), Bought(id, q)) : q \in Plans})

SetStatus(s, p, to, left) ==
  {Pair([s EXCEPT !.status = to, !.left = left], [p EXCEPT !.status = to])}

ToggleStatus(s, p) ==
  When(Reached(s, p),
       SetStatus(s, p, IF s.status = "ACTIVE" THEN "DISABLED" ELSE "ACTIVE", s.left))

\* delete_user may answer that nothing was deleted; its callers do not look.
Deletion(p) == {Pair(None, None), Pair(None, p)}

Delete(s, p) == When(s # None, IF Reached(s, p) THEN Deletion(p) ELSE {Pair(None, p)})

\* UpdateTrafficLimit, UpdateDeviceLimit, ToggleInternalSquad, ToggleExternalSquad
UpdateLimits(s, p) ==
  When(s # None, UNION {Push([s EXCEPT !.plan = q], p) : q \in Plans})

AddDuration(s, p) ==
  When(s # None, UNION {Push([s EXCEPT !.expire = e], p) :
                          e \in {s.expire + Days} \cup When(s.expire > Days, {s.expire - Days})})

LeaveChannel(s, p) ==
  When(Reached(s, p) /\ s.trial /\ s.status = "ACTIVE" /\ ~Over(s.expire),
       SetStatus(s, p, "DISABLED", TRUE))

RejoinChannel(s, p) ==
  When(Reached(s, p) /\ s.trial /\ s.left /\ s.status = "DISABLED" /\ ~Over(s.expire),
       SetStatus(s, p, "ACTIVE", FALSE))

EndGrace(s, p) == Pair([s EXCEPT !.grace = FALSE], [p EXCEPT !.status = "DISABLED"])

StartGrace(s, p) ==
  Pair([s EXCEPT !.grace = TRUE],
       [uuid |-> p.uuid, expire |-> today + Days, status |-> "ACTIVE", plan |-> "grace"])

MayAlwaysStartGrace(s) == TRUE
MayStartGrace(s) == ~s.trial

\* Grace may be switched off in the settings at any time.
EnterGrace(s, p) ==
  When(Reached(s, p),
       IF s.grace THEN {EndGrace(s, p)}
       ELSE When(MayStartGrace(s), {StartGrace(s, p), Pair(s, p)}))

\* The plan chosen by an administrator replaces the row, on the same panel user.
SetPlan(s, p, id) ==
  IF s = None THEN Create(p, id, FALSE)
  ELSE When(Reached(s, p),
            {Pair(NewRow(Bought(s.uuid, q), FALSE), Bought(s.uuid, q)) : q \in Plans})

Renewed(s, q) ==
  [s EXCEPT !.expire = (IF s.grace THEN today ELSE Later(s.expire, today)) + Days,
            !.plan = q, !.grace = FALSE, !.status = "ACTIVE"]

Changed(s, q) ==
  [s EXCEPT !.status = "ACTIVE", !.trial = FALSE, !.plan = q,
            !.expire = today + Days, !.grace = FALSE]

Renew(s, p) == When(s # None, UNION {Push(Renewed(s, q), p) : q \in Plans})

Change(s, p) ==
  When(Reached(s, p), {Pair(Changed(s, q), Bought(s.uuid, q)) : q \in Plans})

Purchase(type, s, p, id) ==
  IF s = None THEN When(type = "NEW", Create(p, id, FALSE))
  ELSE IF type = "CHANGE" \/ s.trial THEN Change(s, p) ELSE Renew(s, p)

PulledKeepingStatus(s, p) ==
  IF s = None THEN NewRow(p, FALSE)
  ELSE [s EXCEPT !.uuid = p.uuid, !.expire = p.expire, !.plan = p.plan]

\* A record read back from the panel wins over the local row.
Pulled(s, p) ==
  IF s = None THEN NewRow([p EXCEPT !.status = IF Over(p.expire) THEN "EXPIRED" ELSE @], FALSE)
  ELSE [s EXCEPT !.uuid = p.uuid, !.expire = p.expire, !.status = p.status, !.plan = p.plan]

\* SyncRemnaUser re-reads the user that a webhook or a listing named.
SyncRemnaUser(s, p, id) == When(p # None /\ p.uuid = id, {Pair(Pulled(s, p), p)})

\* Both ask for the panel users of a Telegram id; whether there is one is left open.
SyncFromRemnawave(s, p) ==
  IF s # None /\ ~Reached(s, p) THEN {Pair(None, p)}
  ELSE When(p # None, {Pair(Pulled(s, p), p)}) \cup When(s = None, {Pair(None, p)})

\* A missing panel user is created again, under its old uuid and enabled.
Recreated(s) == [Sent(s) EXCEPT !.status = "ACTIVE"]

\* SyncSubscriptionFromRemnashop; SyncAllUsersFromBot without the first case
SyncFromRemnashop(s, p) ==
  IF s = None THEN Deletion(p)
  ELSE IF Reached(s, p) THEN Push(s, p)
  ELSE When(p = None /\ ~Over(s.expire), {Pair(Pulled(s, Recreated(s)), Recreated(s))})

\* The handler of user.deleted does not ask the panel.
ProcessDeleted(s, p, id) == When(s # None /\ s.uuid = id, {Pair(None, p)})

-----------------------------------------------------------------------------
(* Promocodes and trials.                                                  *)

Activations == {u \in Users : uses[u] > 0}

Validated(u) == uses[u] = 0 /\ Cardinality(Activations) < MaxUses

AdmissibleUnchecked(u) == TRUE

\* create_activation looks again, under the lock of the promocode's row.
Admissible(u) == uses[u] = 0 /\ Cardinality(Activations) < MaxUses

Running(s) == s # None /\ s.status = "ACTIVE" /\ ~Over(s.expire)

\* Rewards: days, limits, a plan, or a discount that is no subscription's business
Redeem(s, p, id) ==
  When(Running(s) /\ ~s.trial, Push([s EXCEPT !.expire = @ + Days], p))
  \cup When(Running(s), UpdateLimits(s, p))
  \cup (IF s = None THEN Create(p, id, FALSE)
        ELSE When(Reached(s, p),
                  {Pair([Changed(s, q) EXCEPT !.trial = s.trial, !.grace = s.grace],
                        Bought(s.uuid, q)) : q \in Plans}))
  \cup {Pair(s, p)}

-----------------------------------------------------------------------------
(* One mutation.                                                           *)

Outcomes(j, s, p) ==
  LET id == created[j.u] + 1
      outcomes ==
        CASE j.kind = "TOGGLE" -> ToggleStatus(s, p)
          [] j.kind = "DELETE" -> Delete(s, p)
          [] j.kind = "LIMITS" -> UpdateLimits(s, p)
          [] j.kind = "DAYS" -> AddDuration(s, p)
          [] j.kind = "LEAVE" -> LeaveChannel(s, p)
          [] j.kind = "REJOIN" -> RejoinChannel(s, p)
          [] j.kind = "SET_PLAN" -> SetPlan(s, p, id)
          [] j.kind \in {"NEW", "RENEW", "CHANGE"} -> Purchase(j.kind, s, p, id)
          [] j.kind = "TRIAL" -> When(trialFree[j.u], Create(p, id, TRUE))
          [] j.kind = "PROMO" -> When(Validated(j.u), Redeem(s, p, id))
          [] j.kind = "PULL" -> SyncFromRemnawave(s, p)
          [] j.kind = "PUSH" -> SyncFromRemnashop(s, p)
          [] j.kind \in {"MODIFIED", "STATUS", "EXPIRED"} -> SyncRemnaUser(s, p, j.uuid)
          [] j.kind = "DELETED" -> ProcessDeleted(s, p, j.uuid)
          [] j.kind = "GRACE" -> EnterGrace(s, p)
  IN {o \in outcomes : o.panel = None \/ (o.panel.uuid <= MaxUuid /\ o.panel.expire <= MaxExpiry)}

\* user.created is not acted on.
Announced(before, after) ==
  IF before = None \/ before = after THEN {}
  ELSE {[event |-> IF after = None THEN "DELETED"
                   ELSE IF after = [before EXCEPT !.status = after.status] THEN "STATUS"
                   ELSE "MODIFIED",
         uuid |-> before.uuid]}

Settle(u, after) ==
  /\ panel' = [panel EXCEPT ![u] = after]
  /\ notices' = [notices EXCEPT ![u] = @ \cup Announced(panel[u], after)]
  /\ created' = [created EXCEPT ![u] = IF after = None THEN @ ELSE Later(@, after.uuid)]

With(S, u, really) == IF really THEN S \cup {u} ELSE S

Release(w) ==
  lock' = [u \in Users |-> IF lock[u] = w THEN None ELSE lock[u]]

Done(w) ==
  /\ Release(w)
  /\ worker' = [worker EXCEPT ![w] =
       IF @.kind = "EXPIRED" THEN [pc |-> "grace", u |-> @.u, uuid |-> @.uuid] ELSE Idle]

\* A webhook that failed is answered with 503 and delivered again.
Owed(j) ==
  IF j.kind = "GRACE" THEN {[event |-> "EXPIRED", uuid |-> j.uuid]}
  ELSE {e \in Events : e.event = j.kind /\ e.uuid = j.uuid}

Drop(w) ==
  /\ Release(w)
  /\ worker' = [worker EXCEPT ![w] = Idle]
  /\ notices' = [notices EXCEPT ![worker[w].u] = @ \cup Owed(worker[w])]

FreeAlways(u) == TRUE
Free(u) == lock[u] = None

\* hold(), and the first read under the lock.  A caller that still waits for
\* the lock has read nothing that it will use, so it is not represented.
Hold(w, u, kind, uuid) ==
  /\ Free(u)
  /\ lock' = [lock EXCEPT ![u] = w]
  /\ worker' = [worker EXCEPT ![w] =
       [pc |-> "calling", u |-> u, kind |-> kind, uuid |-> uuid, seen |-> row[u], lease |-> TRUE]]
  /\ UNCHANGED <<row, panel, created, wire, trialFree, trials, uses, today, faults, late, torn>>

Call(w, u, kind) ==
  /\ worker[w].pc = "idle"
  /\ Hold(w, u, kind, 0)
  /\ UNCHANGED notices

Deliver(w, u, e) ==
  /\ worker[w].pc = "idle"
  /\ e \in notices[u]
  /\ Hold(w, u, e.event, e.uuid)
  /\ notices' = [notices EXCEPT ![u] = @ \ {e}]

\* handle_user_event goes on from the synchronisation of EXPIRED to grace.
Continue(w) ==
  LET j == worker[w] IN
  /\ j.pc = "grace"
  /\ Hold(w, j.u, "GRACE", j.uuid)
  /\ UNCHANGED notices

\* The subscription a webhook is about is looked up before the lock; user.modified also
\* finds its user by a Telegram id, if there is one.
Concerns(u, e) == row[u] # None /\ row[u].uuid = e.uuid

\* A row with that uuid is about to be committed.
Upcoming(u, e) ==
  \E w \in Workers : /\ worker[w].pc = "landed" /\ worker[w].u = u
                     /\ worker[w].want # None /\ worker[w].want.uuid = e.uuid

\* A webhook that finds nobody is acknowledged and dropped.
Ignore(u, e) ==
  /\ e \in notices[u] /\ ~Concerns(u, e)
  /\ notices' = [notices EXCEPT ![u] = @ \ {e}]
  /\ torn' = With(torn, u, Upcoming(u, e))
  /\ UNCHANGED <<row, panel, created, lock, worker, wire, trialFree, trials, uses, today,
                 faults, late>>

\* claim_trial holds the user's row until its transaction ends.
ClaimFree(w) ==
  worker[w].kind = "TRIAL" =>
    \A v \in Workers : worker[v].pc = "landed" =>
      worker[v].kind # "TRIAL" \/ worker[v].u # worker[w].u

\* The panel did what it was asked, and the caller heard of it.
Land(w) ==
  LET j == worker[w] IN
  /\ j.pc = "calling" /\ ClaimFree(w)
  /\ \E o \in Outcomes(j, j.seen, panel[j.u]) :
       /\ Settle(j.u, o.panel)
       /\ worker' = [worker EXCEPT ![w] =
            [pc |-> "landed", u |-> j.u, kind |-> j.kind, uuid |-> j.uuid, seen |-> j.seen,
             lease |-> j.lease, want |-> o.row]]
       /\ late' = With(late, j.u, o.panel # panel[j.u] /\ ~j.lease)
  /\ UNCHANGED <<row, lock, wire, trialFree, trials, uses, today, faults, torn>>

Refuse(w) ==
  LET j == worker[w] IN
  /\ j.pc = "calling" /\ ClaimFree(w)
  /\ Outcomes(j, j.seen, panel[j.u]) = {}
  /\ Done(w)
  /\ UNCHANGED <<row, panel, created, notices, wire, trialFree, trials, uses, today, faults,
                 late, torn>>

\* SubscriptionDao.update writes the fields this mutation changed.
Merged(now, j) ==
  IF j.seen = None \/ j.want = None \/ now = None \/ j.kind = "SET_PLAN" THEN j.want
  ELSE [f \in DOMAIN now |-> IF j.want[f] # j.seen[f] THEN j.want[f] ELSE now[f]]

Commit(w) ==
  LET j == worker[w] IN
  /\ j.pc = "landed"
  /\ j.kind = "PROMO" => Admissible(j.u)
  /\ row' = [row EXCEPT ![j.u] = Merged(@, j)]
  /\ trialFree' = [trialFree EXCEPT ![j.u] =
       @ /\ j.kind \notin {"TRIAL", "SET_PLAN"} /\ ~(j.kind = "NEW" /\ j.seen = None)]
  /\ trials' = [trials EXCEPT ![j.u] = IF j.kind = "TRIAL" THEN @ + 1 ELSE @]
  /\ uses' = [uses EXCEPT ![j.u] = IF j.kind = "PROMO" THEN @ + 1 ELSE @]
  /\ torn' = With(torn, j.u, ~j.lease)
  /\ Done(w)
  /\ UNCHANGED <<panel, created, notices, wire, today, faults, late>>

\* The last activation went to somebody else while the panel was called.
Reject(w) ==
  LET j == worker[w] IN
  /\ j.pc = "landed" /\ j.kind = "PROMO" /\ ~Admissible(j.u)
  /\ Done(w)
  /\ UNCHANGED <<row, panel, created, notices, wire, trialFree, trials, uses, today, faults,
                 late, torn>>

-----------------------------------------------------------------------------
(* Faults, the panel's own life and the clock.                             *)

\* A fault happens, or the heartbeat cancels a holder that lost its lease.
Struck(w) ==
  IF worker[w].lease THEN faults < MaxFaults /\ faults' = faults + 1
  ELSE UNCHANGED faults

\* The call never reached the panel, or was answered with an error.
Fail(w) ==
  /\ worker[w].pc = "calling" /\ Struck(w) /\ Drop(w)
  /\ UNCHANGED <<row, panel, created, wire, trialFree, trials, uses, today, late, torn>>

Reads == Webhooks \cup {"PULL"}

\* The caller gives up while its request is still on the wire.
Abandon(w) ==
  LET j == worker[w] IN
  /\ j.pc = "calling" /\ j.kind \notin Reads /\ Struck(w) /\ Drop(w)
  /\ wire' = wire \cup {[u |-> j.u, kind |-> j.kind, uuid |-> j.uuid, seen |-> j.seen]}
  /\ UNCHANGED <<row, panel, created, trialFree, trials, uses, today, late, torn>>

LandLate(m) ==
  /\ m \in wire /\ wire' = wire \ {m}
  /\ \E o \in Outcomes(m, m.seen, panel[m.u]) :
       Settle(m.u, o.panel) /\ late' = With(late, m.u, o.panel # panel[m.u])
  /\ UNCHANGED <<row, lock, worker, trialFree, trials, uses, today, faults, torn>>

\* The transaction is rolled back after the panel was written.
RollBack(w) ==
  /\ worker[w].pc = "landed" /\ Struck(w) /\ Drop(w)
  /\ UNCHANGED <<row, panel, created, wire, trialFree, trials, uses, today, late, torn>>

\* The heartbeat missed its lease; the holder has not noticed yet.
LeaseEnds(u) ==
  /\ lock[u] # None /\ faults < MaxFaults
  /\ faults' = faults + 1
  /\ lock' = [lock EXCEPT ![u] = None]
  /\ worker' = [worker EXCEPT ![lock[u]].lease = FALSE]
  /\ UNCHANGED <<row, panel, created, notices, wire, trialFree, trials, uses, today,
                 late, torn>>

PanelExpires(u) ==
  /\ panel[u] # None /\ panel[u].status = "ACTIVE" /\ Over(panel[u].expire)
  /\ panel' = [panel EXCEPT ![u].status = "EXPIRED"]
  /\ notices' = [notices EXCEPT ![u] = @ \cup {[event |-> "EXPIRED", uuid |-> panel[u].uuid]}]
  /\ UNCHANGED <<row, created, lock, worker, wire, trialFree, trials, uses, today, faults, late,
                 torn>>

\* An operator works on the panel itself.
PanelEdits(u) ==
  /\ panel[u] # None /\ ~Over(panel[u].expire)
  /\ \E after \in {None, [panel[u] EXCEPT !.status = "DISABLED"]} : Settle(u, after)
  /\ UNCHANGED <<row, lock, worker, wire, trialFree, trials, uses, today, faults, late, torn>>

Tick ==
  /\ today < MaxDay
  /\ today' = today + 1
  /\ UNCHANGED <<row, panel, created, notices, lock, worker, wire, trialFree, trials, uses,
                 faults, late, torn>>

-----------------------------------------------------------------------------
Init ==
  /\ row = [u \in Users |-> None]
  /\ panel = [u \in Users |-> None]
  /\ created = [u \in Users |-> 0]
  /\ notices = [u \in Users |-> {}]
  /\ lock = [u \in Users |-> None]
  /\ worker = [w \in Workers |-> Idle]
  /\ wire = {}
  /\ trialFree = [u \in Users |-> TRUE]
  /\ trials = [u \in Users |-> 0]
  /\ uses = [u \in Users |-> 0]
  /\ today = 0 /\ faults = 0 /\ late = {} /\ torn = {}

Next ==
  \/ \E w \in Workers, u \in Users, kind \in Kinds : Call(w, u, kind)
  \/ \E w \in Workers, u \in Users : \E e \in notices[u] : Deliver(w, u, e)
  \/ \E u \in Users : \E e \in notices[u] : Ignore(u, e)
  \/ \E w \in Workers :
       Continue(w) \/ Land(w) \/ Refuse(w) \/ Commit(w) \/ Reject(w)
       \/ Fail(w) \/ Abandon(w) \/ RollBack(w)
  \/ \E m \in wire : LandLate(m)
  \/ \E u \in Users : LeaseEnds(u) \/ PanelExpires(u) \/ PanelEdits(u)
  \/ Tick

Spec == Init /\ [][Next]_vars

-----------------------------------------------------------------------------
(* Properties.                                                             *)

(* Every variable keeps the shape of its table, lock or record; a trial    *)
(* is never in grace and only a panel user that was created is known.      *)
TypeOK ==
  /\ \A u \in Users : row[u] # None => row[u] \in Rows /\ row[u].uuid <= created[u]
  /\ \A u \in Users : panel[u] # None => panel[u] \in Profiles
  /\ \A u \in Users \ torn : row[u] # None => ~(row[u].trial /\ row[u].grace)
  /\ created \in [Users -> 0 .. MaxUuid]
  /\ notices \in [Users -> SUBSET Events]
  /\ lock \in [Users -> Workers \cup {None}]
  /\ uses \in [Users -> Nat] /\ trials \in [Users -> Nat]
  /\ today \in 0 .. MaxDay /\ faults \in 0 .. MaxFaults

Quiet(u) ==
  notices[u] = {} /\ \A w \in Workers : worker[w].pc = "idle" \/ worker[w].u # u

\* An import calls a user expired before the panel does.
Same(s, p) ==
  /\ p # None
  /\ \A f \in {"uuid", "expire", "plan"} : s[f] = p[f]
  /\ s.status = p.status \/ (s.status = "EXPIRED" /\ Over(p.expire))

(* Once the webhooks of a user are handled and nobody works on him, what   *)
(* the database says of his subscription is what the panel says: whatever  *)
(* use cases, rollbacks, late panel writes, panel edits, expiries and      *)
(* dropped or reordered webhooks there were.  Of a user without a          *)
(* subscription nothing is said: the panel may have kept its user, since   *)
(* nobody looks at what delete_user answers.                               *)
PanelAgrees ==
  \A u \in Users \ torn : Quiet(u) /\ row[u] # None => Same(row[u], panel[u])

(* Days that were paid for are added to the days there are: a renewal of a *)
(* subscription extends the row that is stored when it commits, not one    *)
(* read earlier, and the panel has the same expiry, unless a call that its *)
(* caller had given up landed on the panel.                                *)
PaidDaysStand ==
  [][\A w \in Workers :
       LET j == worker[w] IN
       (Commit(w) /\ j.kind \in {"NEW", "RENEW"} /\ row[j.u] # None
          /\ ~row[j.u].trial /\ ~row[j.u].grace /\ j.u \notin torn')
         => /\ row'[j.u].expire >= row[j.u].expire + Days
            /\ j.u \notin late /\ panel[j.u] # None => panel[j.u].expire = row'[j.u].expire]_vars

(* A promocode is activated at most max_activations times and once by each *)
(* user, and a user has one trial, also when executions race or are        *)
(* rolled back after the panel was written.                                *)
GrantedWithinLimits ==
  /\ Cardinality(Activations) <= MaxUses
  /\ \A u \in Users : uses[u] <= 1 /\ trials[u] <= 1
=============================================================================
