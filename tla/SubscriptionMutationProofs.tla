--------------------- MODULE SubscriptionMutationProofs ---------------------
(***************************************************************************)
(* Theorems about SubscriptionMutation, for any number of users and        *)
(* executions: types, what is granted, that paid days stand, and that the  *)
(* panel and the database agree once nothing is under way.                 *)
(***************************************************************************)
EXTENDS SubscriptionMutation, Counting

UseCases == {"TOGGLE", "DELETE", "LIMITS", "DAYS", "LEAVE", "REJOIN", "SET_PLAN", "NEW", "RENEW",
             "CHANGE", "TRIAL", "PROMO", "PULL", "PUSH"}
AllKinds == UseCases \cup Webhooks \cup {"GRACE"}

\* A trial that is in grace.
Tried(s) == s # None /\ s.trial /\ s.grace

\* A purchase that extends the subscription it finds.
Paid(kind, s) == kind \in {"NEW", "RENEW"} /\ s # None /\ ~s.trial /\ ~s.grace

-----------------------------------------------------------------------------
(* The invariant.                                                          *)

Graced == [pc : {"grace"}, u : Users, uuid : 1 .. MaxUuid]
Calling == [pc : {"calling"}, u : Users, kind : AllKinds, uuid : 0 .. MaxUuid,
            seen : Rows \cup {None}, lease : BOOLEAN]
Landed == [pc : {"landed"}, u : Users, kind : AllKinds, uuid : 0 .. MaxUuid,
           seen : Rows \cup {None}, lease : BOOLEAN, want : Rows \cup {None}]
Requests == [u : Users, kind : AllKinds, uuid : 0 .. MaxUuid, seen : Rows \cup {None}]

Shaped ==
  /\ row \in [Users -> Rows \cup {None}]
  /\ panel \in [Users -> Profiles \cup {None}]
  /\ created \in [Users -> 0 .. MaxUuid]
  /\ notices \in [Users -> SUBSET Events]
  /\ lock \in [Users -> Workers \cup {None}]
  /\ worker \in [Workers -> {Idle} \cup Graced \cup Calling \cup Landed]
  /\ wire \subseteq Requests
  /\ trialFree \in [Users -> BOOLEAN]
  /\ uses \in [Users -> Nat] /\ trials \in [Users -> Nat]
  /\ today \in 0 .. MaxDay /\ faults \in 0 .. MaxFaults

\* Nobody knows of a panel user that was not created, and a webhook is about one.
Numbered(c, j) ==
  /\ j.kind \in Webhooks \cup {"GRACE"} => j.uuid > 0
  /\ j.seen # None => j.seen.uuid <= c[j.u]

Busy == {"calling", "landed"}

Counted(c) ==
  /\ \A u \in Users : /\ row[u] # None => row[u].uuid <= c[u]
                      /\ panel[u] # None => panel[u].uuid <= c[u]
  /\ \A w \in Workers :
       /\ worker[w].pc \in Busy => Numbered(c, worker[w])
       /\ worker[w].pc = "landed" /\ worker[w].want # None => worker[w].want.uuid <= c[worker[w].u]
  /\ \A m \in wire : Numbered(c, m)

At(w, u) == worker[w].pc \in Busy /\ worker[w].u = u
Holder(w, u) == At(w, u) /\ worker[w].lease

\* The lock of a user names the one execution that has a lease on him.
Locked == \A w \in Workers, u \in Users : lock[u] = w <=> Holder(w, u)

\* What the panel has announced of a user and nobody has worked in yet: the webhooks
\* that wait, and those that an execution in W is handling.
Bears(v, u) ==
  /\ At(v, u) /\ worker[v].kind \in Webhooks
  /\ worker[v].kind = "DELETED" => worker[v].seen # None /\ worker[v].seen.uuid = worker[v].uuid
Note(v) == [event |-> worker[v].kind, uuid |-> worker[v].uuid]
News(u, W) == notices[u] \cup {Note(v) : v \in {x \in W : Bears(x, u)}}

Updates == {"MODIFIED", "STATUS", "EXPIRED"}
Updated(id, news) == \E k \in Updates : [event |-> k, uuid |-> id] \in news

\* The row s and the panel user p agree, or there is news of how they differ.
Agreeing(s, p, news) ==
  s # None =>
    \/ [event |-> "DELETED", uuid |-> s.uuid] \in news
    \/ p # None /\ p.uuid = s.uuid /\ (Same(s, p) \/ Updated(p.uuid, news))

\* What holds of an execution that still has its lease on u: it has read the row that
\* is stored, and what it will commit agrees with the panel as the row itself does.
Prepared(u, j, p, news) ==
  /\ ~Tried(j.want)
  /\ Agreeing(j.want, p, news)
  /\ Paid(j.kind, j.seen) => /\ j.want # None /\ j.want.expire >= j.seen.expire + Days
                             /\ u \notin late /\ p # None => p.expire = j.want.expire

HolderOK(w, u) ==
  Holder(w, u) =>
    /\ worker[w].seen = row[u]
    /\ worker[w].pc = "landed" => Prepared(u, worker[w], panel[u], News(u, Workers \ {w}))

WholeOK(u) ==
  /\ ~Tried(row[u])
  /\ Agreeing(row[u], panel[u], News(u, Workers))
  /\ \A w \in Workers : HolderOK(w, u)

Claims(w, u) == At(w, u) /\ worker[w].pc = "landed" /\ worker[w].kind = "TRIAL"

GrantsOK(u) ==
  /\ uses[u] <= 1 /\ trials[u] <= 1
  /\ trials[u] > 0 => ~trialFree[u]
  /\ \A w \in Workers : Claims(w, u) => trials[u] = 0 /\ \A v \in Workers : Claims(v, u) => v = w

MutationInv ==
  /\ Shaped
  /\ Counted(created)
  /\ Locked
  /\ \A u \in Users \ torn : WholeOK(u)
  /\ \A u \in Users : GrantsOK(u)
  /\ Cardinality(Activations) <= MaxUses

-----------------------------------------------------------------------------
(* What a use case makes of the row it read and the panel user it found.   *)

\* Records before the bounds of the model are applied to them.
AnyProfile == [uuid : Nat, expire : Nat, status : Statuses, plan : Plans \cup {"grace"}]
AnyRow == [uuid : Nat, expire : Nat, status : Statuses, plan : Plans \cup {"grace"},
           trial : BOOLEAN, grace : BOOLEAN, left : BOOLEAN]

Within(o) == o.panel = None \/ (o.panel.uuid <= MaxUuid /\ o.panel.expire <= MaxExpiry)

Typed(o) ==
  /\ o.row # None => o.row \in Rows
  /\ o.panel # None => o.panel \in Profiles

\* Only a creation uses a new identity, and the row follows the panel.
Bounded(n, o) ==
  /\ o.panel # None => o.panel.uuid <= n + 1
  /\ o.row # None => o.row.uuid <= n \/ (o.panel # None /\ o.row.uuid = o.panel.uuid)

\* A row that stays is made from the same values as the panel user, or the panel has
\* announced the change, or both are left as they were.
Paired(s, p, o) ==
  /\ p # None /\ o.panel # None => o.panel.uuid = p.uuid
  /\ o.row # None =>
       \/ Same(o.row, o.panel)
       \/ p # None /\ o.panel # None /\ o.panel # p /\ o.row.uuid = p.uuid
       \/ s # None /\ o.panel = p /\ o.row.uuid = s.uuid /\ (Same(s, p) => Same(o.row, p))

Fits(n, s, p, o) == Typed(o) /\ Bounded(n, o) /\ (Tried(o.row) => Tried(s)) /\ Paired(s, p, o)

Known(n, s, p) ==
  /\ n \in Nat /\ today \in Nat
  /\ s # None => s \in Rows /\ s.uuid <= n
  /\ p # None => p \in Profiles /\ p.uuid <= n

LEMMA Constants == /\ Days \in Nat /\ MaxExpiry \in Nat /\ MaxUuid \in Nat
                   /\ None \notin AnyProfile /\ None \notin AnyRow
BY MutationConstants, NoneIsNoRecord DEF AnyProfile, AnyRow

LEMMA RowFields ==
  ASSUME NEW s \in Rows
  PROVE  /\ s \in AnyRow /\ s # None
         /\ s.uuid \in 1 .. MaxUuid /\ s.uuid \in Nat /\ s.expire \in 0 .. MaxExpiry /\ s.expire \in Nat
         /\ s.status \in Statuses /\ s.plan \in Plans \cup {"grace"}
         /\ s.trial \in BOOLEAN /\ s.grace \in BOOLEAN /\ s.left \in BOOLEAN
<1>1. /\ s.uuid \in 1 .. MaxUuid /\ s.expire \in 0 .. MaxExpiry
      /\ s.status \in Statuses /\ s.plan \in Plans \cup {"grace"}
      /\ s.trial \in BOOLEAN /\ s.grace \in BOOLEAN /\ s.left \in BOOLEAN
  BY DEF Rows
<1>2. s.uuid \in Nat /\ s.expire \in Nat
  BY <1>1, Constants
<1>3. s \in AnyRow
  BY <1>1, <1>2 DEF Rows, AnyRow
<1> QED BY <1>1, <1>2, <1>3, Constants

LEMMA ProfileFields ==
  ASSUME NEW p \in Profiles
  PROVE  /\ p \in AnyProfile /\ p # None
         /\ p.uuid \in 1 .. MaxUuid /\ p.uuid \in Nat /\ p.expire \in 0 .. MaxExpiry /\ p.expire \in Nat
         /\ p.status \in Statuses /\ p.plan \in Plans \cup {"grace"}
<1>1. /\ p.uuid \in 1 .. MaxUuid /\ p.expire \in 0 .. MaxExpiry
      /\ p.status \in Statuses /\ p.plan \in Plans \cup {"grace"}
  BY DEF Profiles
<1>2. p.uuid \in Nat /\ p.expire \in Nat
  BY <1>1, Constants
<1>3. p \in AnyProfile
  BY <1>1, <1>2 DEF Profiles, AnyProfile
<1> QED BY <1>1, <1>2, <1>3, Constants

\* What is within the bounds has its type.
LEMMA Narrow ==
  /\ \A a \in AnyProfile : a.uuid > 0 /\ a.uuid <= MaxUuid /\ a.expire <= MaxExpiry => a \in Profiles
  /\ \A r \in AnyRow : r.uuid > 0 /\ r.uuid <= MaxUuid /\ r.expire <= MaxExpiry => r \in Rows
<1>1. ASSUME NEW n \in Nat, NEW m \in Nat, n <= m PROVE n \in 0 .. m /\ (n > 0 => n \in 1 .. m)
  BY <1>1
<1> QED BY <1>1, Constants DEF AnyProfile, AnyRow, Profiles, Rows

\* A row and the panel user that is made from it.
LEMMA MadeFits ==
  ASSUME NEW n, NEW s, NEW p, Known(n, s, p), NEW r \in AnyRow, NEW a \in AnyProfile,
         NEW o, o = Pair(r, a), Within(o), r.uuid > 0, r.uuid <= n + 1,
         a.uuid = r.uuid, a.expire = r.expire \/ r.expire <= MaxExpiry,
         ~Tried(r) \/ Tried(s),
         p # None => a.uuid = p.uuid,
         p = None => Same(r, a),
         a = p => Same(r, a) \/ (s # None /\ r.uuid = s.uuid /\ (Same(s, p) => Same(r, a)))
  PROVE  Fits(n, s, p, o)
<1>1. o.row = r /\ o.panel = a /\ r # None /\ a # None
  BY Constants DEF Pair
<1>2. r.uuid <= MaxUuid /\ r.expire <= MaxExpiry /\ a.expire <= MaxExpiry
  BY <1>1 DEF Within
<1>3. r \in Rows /\ a \in Profiles
  BY <1>2, Narrow
<1>4. Typed(o) /\ Bounded(n, o)
  BY <1>1, <1>3 DEF Typed, Bounded
<1>5. Paired(s, p, o)
  BY <1>1 DEF Paired
<1> QED BY <1>1, <1>4, <1>5 DEF Fits

\* A full update of the panel user from the row.
LEMMA PushFits ==
  ASSUME NEW n, NEW s, NEW p, Known(n, s, p), s # None, NEW r \in AnyRow, r.uuid = s.uuid,
         r.status \in {s.status, "ACTIVE"}, ~Tried(r) \/ Tried(s),
         NEW o \in Push(r, p), Within(o)
  PROVE  Fits(n, s, p, o) /\ o = Pair(r, Sent(r))
<1> DEFINE a == Sent(r)
<1>1. o = Pair(r, a) /\ p # None /\ p.uuid = r.uuid /\ r.status \in Statuses /\ ~Over(r.expire)
  BY DEF Push, When, Reached, AnyRow
<1>2. p \in Profiles /\ p.uuid <= n /\ n \in Nat /\ p.uuid > 0 /\ p.uuid \in Nat
  <2>1. p \in Profiles /\ p.uuid <= n /\ n \in Nat
    BY <1>1 DEF Known
  <2>2. p.uuid \in 1 .. MaxUuid /\ MaxUuid \in Nat
    BY <2>1, ProfileFields, Constants
  <2> QED BY <2>1, <2>2
<1>3. a \in AnyProfile /\ a.uuid = r.uuid /\ a.expire = r.expire /\ a.plan = r.plan
      /\ a.status = IF r.status = "DISABLED" THEN "DISABLED" ELSE "ACTIVE"
  BY <1>1 DEF Sent, AnyRow, AnyProfile, Statuses
<1>4. r.uuid > 0 /\ r.uuid <= n + 1
  BY <1>1, <1>2
<1>5. r # None
  BY Constants
<1> HIDE DEF a
<1>6. a = p /\ Same(s, p) => Same(r, a)
  <2> SUFFICES ASSUME a = p, Same(s, p) PROVE Same(r, a)
    OBVIOUS
  <2>1. s.status = p.status
    BY <1>1, <1>3 DEF Same
  <2>2. r.status = a.status
    BY <1>1, <1>3, <2>1 DEF Statuses
  <2> QED BY <1>1, <1>3, <1>5, <2>2 DEF Same
<1>7. Fits(n, s, p, o)
  BY <1>1, <1>3, <1>4, <1>6, MadeFits
<1> QED BY <1>1, <1>7 DEF a

\* Known rows and panel users, with the fields the use cases read.
LEMMA KnownFields ==
  ASSUME NEW n, NEW s, NEW p, Known(n, s, p)
  PROVE  /\ n \in Nat /\ today \in Nat
         /\ s # None => /\ s \in Rows /\ s \in AnyRow /\ s.uuid <= n + 1 /\ s.uuid > 0
                        /\ s.uuid \in Nat /\ s.expire \in Nat /\ s.expire <= MaxExpiry
         /\ p # None => /\ p \in Profiles /\ p \in AnyProfile /\ p.uuid <= n + 1 /\ p.uuid > 0
                        /\ p.uuid \in Nat /\ p.expire \in Nat /\ p.expire <= MaxExpiry
<1>1. ASSUME NEW a \in Nat, NEW b \in Nat, NEW i \in 1 .. a, NEW e \in 0 .. b, i <= n
      PROVE  i <= n + 1 /\ i > 0 /\ e <= b
  BY <1>1 DEF Known
<1> QED BY <1>1, RowFields, ProfileFields, Constants DEF Known

LEMMA StatusFits ==
  ASSUME NEW n, NEW s, NEW p, Known(n, s, p), Reached(s, p),
         NEW to \in Statuses, NEW left \in BOOLEAN,
         NEW o \in SetStatus(s, p, to, left), Within(o)
  PROVE  Fits(n, s, p, o)
<1> DEFINE r == [s EXCEPT !.status = to, !.left = left]
           a == [p EXCEPT !.status = to]
<1>1. o = Pair(r, a) /\ s # None /\ p # None /\ p.uuid = s.uuid
  BY DEF SetStatus, Reached
<1>2. /\ s \in AnyRow /\ s.uuid <= n + 1 /\ s.uuid > 0 /\ s.expire <= MaxExpiry
      /\ p \in AnyProfile
  BY <1>1, KnownFields
<1>3. /\ r \in AnyRow /\ r.uuid = s.uuid /\ r.expire = s.expire /\ r.plan = s.plan /\ r.status = to
      /\ (r.trial <=> s.trial) /\ (r.grace <=> s.grace)
  BY <1>2 DEF AnyRow
<1>4. a \in AnyProfile /\ a.uuid = p.uuid /\ a.status = to
  BY <1>2 DEF AnyProfile
<1> HIDE DEF r, a
<1>5. a = p => (Same(s, p) => Same(r, a))
  BY <1>3, <1>4 DEF Same
<1>6. ~Tried(r) \/ Tried(s)
  BY <1>1, <1>3 DEF Tried
<1> QED BY <1>1, <1>2, <1>3, <1>4, <1>5, <1>6, MadeFits

\* A plan that replaces what the row says, on the same panel user or a new one.
LEMMA BoughtFits ==
  ASSUME NEW n, NEW s, NEW p, Known(n, s, p), NEW q \in Plans, NEW i \in Nat, i > 0, i <= n + 1,
         p # None => i = p.uuid,
         NEW r \in AnyRow, r.uuid = i, r.expire = today + Days, r.status = "ACTIVE", r.plan = q,
         ~Tried(r) \/ Tried(s),
         NEW o, o = Pair(r, Bought(i, q)), Within(o)
  PROVE  Fits(n, s, p, o)
<1> DEFINE a == Bought(i, q)
<1>1. today + Days \in Nat
  BY Constants DEF Known
<1>2. /\ a \in AnyProfile /\ a.uuid = i /\ a.expire = r.expire /\ a.status = r.status /\ a.plan = r.plan
  BY <1>1 DEF Bought, AnyProfile, Statuses
<1>3. r # None /\ a # None
  BY <1>2, Constants
<1>4. Same(r, a)
  BY <1>2, <1>3 DEF Same
<1> QED BY <1>2, <1>4, MadeFits

LEMMA NewRowFits ==
  ASSUME NEW q \in Plans, NEW i \in Nat, NEW t \in BOOLEAN, today \in Nat
  PROVE  LET r == NewRow(Bought(i, q), t) IN
         /\ r \in AnyRow /\ r.uuid = i /\ r.expire = today + Days /\ r.status = "ACTIVE" /\ r.plan = q
         /\ ~Tried(r)
<1>1. today + Days \in Nat
  BY Constants
<1> QED BY <1>1 DEF NewRow, Bought, AnyRow, Statuses, Tried

LEMMA CreateFits ==
  ASSUME NEW n, NEW s, NEW p, Known(n, s, p), NEW t \in BOOLEAN,
         NEW o \in Create(p, n + 1, t), Within(o)
  PROVE  Fits(n, s, p, o)
<1>1. PICK q \in Plans : o = Pair(NewRow(Bought(n + 1, q), t), Bought(n + 1, q))
  BY DEF Create, When
<1>2. p = None
  BY DEF Create, When
<1>3. n + 1 \in Nat /\ n + 1 > 0 /\ today \in Nat
  BY DEF Known
<1> QED BY <1>1, <1>2, <1>3, NewRowFits, BoughtFits

LEMMA SetPlanFits ==
  ASSUME NEW n, NEW s, NEW p, Known(n, s, p), NEW o \in SetPlan(s, p, n + 1), Within(o)
  PROVE  Fits(n, s, p, o)
<1>1. CASE s = None
  BY <1>1, CreateFits DEF SetPlan
<1>2. CASE s # None
  <2>1. PICK q \in Plans : o = Pair(NewRow(Bought(s.uuid, q), FALSE), Bought(s.uuid, q))
    BY <1>2 DEF SetPlan, When
  <2>2. p # None /\ p.uuid = s.uuid
    BY <1>2 DEF SetPlan, When, Reached
  <2>3. s.uuid \in Nat /\ s.uuid > 0 /\ s.uuid <= n + 1 /\ today \in Nat
    BY <1>2, KnownFields
  <2> QED BY <2>1, <2>2, <2>3, NewRowFits, BoughtFits
<1> QED BY <1>1, <1>2

LEMMA ChangedFits ==
  ASSUME NEW n, NEW s, NEW p, Known(n, s, p), Reached(s, p), NEW q \in Plans,
         NEW r, r = Changed(s, q) \/ r = [Changed(s, q) EXCEPT !.trial = s.trial, !.grace = s.grace],
         NEW o, o = Pair(r, Bought(s.uuid, q)), Within(o)
  PROVE  Fits(n, s, p, o)
<1>1. s # None /\ p # None /\ p.uuid = s.uuid
  BY DEF Reached
<1>2. s \in AnyRow /\ s.uuid <= n + 1 /\ s.uuid > 0 /\ s.uuid \in Nat /\ today + Days \in Nat
  BY <1>1, KnownFields, Constants
<1> DEFINE c == Changed(s, q)
<1>3. /\ c \in AnyRow /\ c.uuid = s.uuid /\ c.expire = today + Days /\ c.status = "ACTIVE" /\ c.plan = q
      /\ ~c.trial
  BY <1>2 DEF Changed, AnyRow, Statuses
<1>4. c.left = s.left
  BY <1>2 DEF Changed, AnyRow
<1> HIDE DEF c
<1>5. /\ r \in AnyRow /\ r.uuid = s.uuid /\ r.expire = today + Days /\ r.status = "ACTIVE" /\ r.plan = q
      /\ r.trial => s.trial /\ (r.grace <=> s.grace)
  <2>1. CASE r = c
    BY <1>3, <2>1
  <2>2. CASE r = [c EXCEPT !.trial = s.trial, !.grace = s.grace]
    BY <1>2, <1>3, <2>2 DEF AnyRow
  <2> QED BY <2>1, <2>2 DEF c
<1>6. ~Tried(r) \/ Tried(s)
  BY <1>1, <1>5 DEF Tried
<1> QED BY <1>1, <1>2, <1>5, <1>6, BoughtFits

LEMMA ChangeFits ==
  ASSUME NEW n, NEW s, NEW p, Known(n, s, p), NEW o \in Change(s, p), Within(o)
  PROVE  Fits(n, s, p, o)
<1>1. Reached(s, p) /\ \E q \in Plans : o = Pair(Changed(s, q), Bought(s.uuid, q))
  BY DEF Change, When
<1> QED BY <1>1, ChangedFits

\* A renewal adds the days to what there is.
LEMMA RenewedFits ==
  ASSUME NEW n, NEW s, NEW p, Known(n, s, p), s # None, NEW q \in Plans
  PROVE  LET r == Renewed(s, q) IN
         /\ r \in AnyRow /\ r.uuid = s.uuid /\ r.status = "ACTIVE" /\ ~Tried(r)
         /\ ~s.grace => r.expire >= s.expire + Days
<1>0. s \in AnyRow /\ s.expire \in Nat /\ today \in Nat /\ Days \in Nat
  BY KnownFields, Constants
<1> DEFINE e == (IF s.grace THEN today ELSE Later(s.expire, today)) + Days
<1>1. e \in Nat /\ (~s.grace => e >= s.expire + Days)
  BY <1>0 DEF Later
<1>2. Renewed(s, q) = [s EXCEPT !.expire = e, !.plan = q, !.grace = FALSE, !.status = "ACTIVE"]
  BY DEF Renewed
<1> HIDE DEF e
<1> DEFINE r == [s EXCEPT !.expire = e, !.plan = q, !.grace = FALSE, !.status = "ACTIVE"]
<1>3. r.expire = e /\ r.uuid = s.uuid /\ r.status = "ACTIVE" /\ ~r.grace
  BY <1>0 DEF AnyRow
<1>4. r \in AnyRow
  BY <1>0, <1>1 DEF AnyRow, Statuses
<1>5. Renewed(s, q) = r
  BY <1>2
<1> HIDE DEF r
<1> QED BY <1>1, <1>3, <1>4, <1>5 DEF Tried

LEMMA RenewFits ==
  ASSUME NEW n, NEW s, NEW p, Known(n, s, p), NEW o \in Renew(s, p), Within(o)
  PROVE  /\ Fits(n, s, p, o)
         /\ o.row # None /\ o.panel # None /\ o.panel.expire = o.row.expire
         /\ ~s.grace => o.row.expire >= s.expire + Days
<1>1. PICK q \in Plans : s # None /\ o \in Push(Renewed(s, q), p)
  BY DEF Renew, When
<1> DEFINE r == Renewed(s, q)
<1>2. /\ r \in AnyRow /\ r.uuid = s.uuid /\ r.status = "ACTIVE" /\ ~Tried(r)
      /\ ~s.grace => r.expire >= s.expire + Days
  BY <1>1, RenewedFits
<1>3. o \in Push(r, p)
  BY <1>1
<1> HIDE DEF r
<1>4. Fits(n, s, p, o) /\ o = Pair(r, Sent(r))
  BY <1>1, <1>2, <1>3, PushFits
<1>5. o.row = r /\ o.panel = Sent(r) /\ Sent(r).expire = r.expire
  BY <1>4 DEF Pair, Sent
<1>6. Sent(r) \in AnyProfile
  BY <1>2 DEF Sent, AnyRow, AnyProfile, Statuses
<1> QED BY <1>2, <1>4, <1>5, <1>6, Constants

LEMMA PurchaseFits ==
  ASSUME NEW n, NEW s, NEW p, Known(n, s, p), NEW type,
         NEW o \in Purchase(type, s, p, n + 1), Within(o)
  PROVE  Fits(n, s, p, o)
<1>1. \/ o \in Create(p, n + 1, FALSE)
      \/ o \in Change(s, p)
      \/ o \in Renew(s, p)
  BY DEF Purchase, When
<1> QED BY <1>1, CreateFits, ChangeFits, RenewFits

\* A full update that changes the plan or the expiry only.
LEMMA EditFits ==
  ASSUME NEW n, NEW s, NEW p, Known(n, s, p), s # None,
         NEW q \in Plans \cup {"grace"}, NEW e \in Nat,
         NEW o \in Push([s EXCEPT !.expire = e, !.plan = q], p), Within(o)
  PROVE  Fits(n, s, p, o)
<1> DEFINE r == [s EXCEPT !.expire = e, !.plan = q]
<1>1. s \in AnyRow
  BY KnownFields
<1>2. r \in AnyRow /\ r.uuid = s.uuid /\ r.status = s.status
      /\ (r.trial <=> s.trial) /\ (r.grace <=> s.grace)
  BY <1>1 DEF AnyRow
<1>3. o \in Push(r, p)
  OBVIOUS
<1> HIDE DEF r
<1>4. ~Tried(r) \/ Tried(s)
  BY <1>2 DEF Tried
<1> QED BY <1>2, <1>3, <1>4, PushFits

LEMMA UpdateLimitsFits ==
  ASSUME NEW n, NEW s, NEW p, Known(n, s, p), NEW o \in UpdateLimits(s, p), Within(o)
  PROVE  Fits(n, s, p, o)
<1>1. PICK q \in Plans : s # None /\ o \in Push([s EXCEPT !.plan = q], p)
  BY DEF UpdateLimits, When
<1>2. s \in AnyRow /\ s.expire \in Nat
  BY <1>1, KnownFields
<1>3. [s EXCEPT !.plan = q] = [s EXCEPT !.expire = s.expire, !.plan = q]
  BY <1>2 DEF AnyRow
<1> QED BY <1>1, <1>2, <1>3, EditFits

LEMMA LongerFits ==
  ASSUME NEW n, NEW s, NEW p, Known(n, s, p), s # None, NEW e \in Nat,
         NEW o \in Push([s EXCEPT !.expire = e], p), Within(o)
  PROVE  Fits(n, s, p, o)
<1>1. s \in AnyRow /\ s.plan \in Plans \cup {"grace"}
  BY KnownFields DEF AnyRow
<1>2. [s EXCEPT !.expire = e] = [s EXCEPT !.expire = e, !.plan = s.plan]
  BY <1>1 DEF AnyRow
<1> QED BY <1>1, <1>2, EditFits

LEMMA AddDurationFits ==
  ASSUME NEW n, NEW s, NEW p, Known(n, s, p), NEW o \in AddDuration(s, p), Within(o)
  PROVE  Fits(n, s, p, o)
<1>1. PICK e \in {s.expire + Days} \cup When(s.expire > Days, {s.expire - Days}) :
         s # None /\ o \in Push([s EXCEPT !.expire = e], p)
  BY DEF AddDuration, When
<1>2. s.expire \in Nat /\ Days \in Nat
  BY <1>1, KnownFields, Constants
<1>3. e \in Nat
  BY <1>1, <1>2 DEF When
<1> QED BY <1>1, <1>3, LongerFits

LEMMA TrialStatusFits ==
  ASSUME NEW n, NEW s, NEW p, Known(n, s, p),
         NEW o \in ToggleStatus(s, p) \cup LeaveChannel(s, p) \cup RejoinChannel(s, p), Within(o)
  PROVE  Fits(n, s, p, o)
<1>1. Reached(s, p) /\ s \in AnyRow
  <2>1. Reached(s, p)
    BY DEF ToggleStatus, LeaveChannel, RejoinChannel, When
  <2> QED BY <2>1, KnownFields DEF Reached
<1>2. \E to \in {"ACTIVE", "DISABLED"}, left \in {s.left, TRUE, FALSE} :
        o \in SetStatus(s, p, to, left)
  BY DEF ToggleStatus, LeaveChannel, RejoinChannel, When
<1>3. {"ACTIVE", "DISABLED"} \subseteq Statuses /\ {s.left, TRUE, FALSE} \subseteq BOOLEAN
  BY <1>1 DEF Statuses, AnyRow
<1> QED BY <1>1, <1>2, <1>3, StatusFits

\* The row and the panel user stay.
LEMMA KeptFits ==
  ASSUME NEW n, NEW s, NEW p, Known(n, s, p), NEW o, o = Pair(s, p)
  PROVE  Fits(n, s, p, o)
<1>1. o.row = s /\ o.panel = p
  BY DEF Pair
<1>2. Typed(o) /\ Bounded(n, o)
  <2>1. n \in Nat /\ (p # None => p.uuid <= n + 1)
    BY KnownFields
  <2> QED BY <1>1, <2>1 DEF Typed, Bounded, Known
<1>3. Paired(s, p, o)
  BY <1>1 DEF Paired
<1> QED BY <1>1, <1>2, <1>3 DEF Fits

\* The row goes, and the panel user may stay.
LEMMA GoneFits ==
  ASSUME NEW n, NEW s, NEW p, Known(n, s, p), NEW o, o \in Deletion(p)
  PROVE  Fits(n, s, p, o) /\ o.row = None
<1>1. o.row = None /\ (o.panel = None \/ o.panel = p)
  BY DEF Pair, Deletion
<1>2. Typed(o) /\ Bounded(n, o) /\ ~Tried(o.row)
  <2>1. n \in Nat /\ (p # None => p.uuid <= n + 1)
    BY KnownFields
  <2> QED BY <1>1, <2>1 DEF Typed, Bounded, Known, Tried
<1>3. Paired(s, p, o)
  BY <1>1 DEF Paired
<1> QED BY <1>1, <1>2, <1>3 DEF Fits

LEMMA DeleteFits ==
  ASSUME NEW n, NEW s, NEW p, Known(n, s, p), NEW o \in Delete(s, p)
  PROVE  Fits(n, s, p, o)
<1>1. o \in Deletion(p)
  BY DEF Delete, Deletion, When
<1> QED BY <1>1, GoneFits

LEMMA EnterGraceFits ==
  ASSUME NEW n, NEW s, NEW p, Known(n, s, p), NEW o \in EnterGrace(s, p), Within(o)
  PROVE  Fits(n, s, p, o)
<1>1. s # None /\ p # None /\ p.uuid = s.uuid
  BY DEF EnterGrace, When, Reached
<1>2. /\ s \in AnyRow /\ s.uuid <= n + 1 /\ s.uuid > 0 /\ s.expire <= MaxExpiry
      /\ p \in AnyProfile /\ today + Days \in Nat
  BY <1>1, KnownFields, Constants
<1>3. CASE o = EndGrace(s, p)
  <2> DEFINE r == [s EXCEPT !.grace = FALSE]
             a == [p EXCEPT !.status = "DISABLED"]
  <2>1. /\ r \in AnyRow /\ r.uuid = s.uuid /\ r.expire = s.expire /\ ~r.grace
        /\ r.status = s.status /\ r.plan = s.plan
    BY <1>2 DEF AnyRow
  <2>2. a \in AnyProfile /\ a.uuid = p.uuid
    BY <1>2 DEF AnyProfile, Statuses
  <2>3. o = Pair(r, a)
    BY <1>3 DEF EndGrace
  <2> HIDE DEF r, a
  <2>4. r # None /\ a # None /\ ~Tried(r)
    BY <2>1, <2>2, Constants DEF Tried
  <2>5. a = p /\ Same(s, p) => Same(r, a)
    BY <1>1, <2>1, <2>4 DEF Same
  <2> QED BY <1>1, <1>2, <2>1, <2>2, <2>3, <2>4, <2>5, MadeFits
<1>4. CASE o = StartGrace(s, p) /\ ~s.trial
  <2> DEFINE r == [s EXCEPT !.grace = TRUE]
             a == [uuid |-> p.uuid, expire |-> today + Days, status |-> "ACTIVE", plan |-> "grace"]
  <2>1. /\ r \in AnyRow /\ r.uuid = s.uuid /\ r.expire = s.expire /\ ~r.trial
        /\ r.status = s.status /\ r.plan = s.plan
    BY <1>2, <1>4 DEF AnyRow
  <2>2. a \in AnyProfile /\ a.uuid = p.uuid
    BY <1>2 DEF AnyProfile, Statuses
  <2>3. o = Pair(r, a)
    BY <1>4 DEF StartGrace
  <2> HIDE DEF r, a
  <2>4. r # None /\ a # None /\ ~Tried(r)
    BY <2>1, <2>2, Constants DEF Tried
  <2>5. a = p /\ Same(s, p) => Same(r, a)
    BY <1>1, <2>1, <2>4 DEF Same
  <2> QED BY <1>1, <1>2, <2>1, <2>2, <2>3, <2>4, <2>5, MadeFits
<1>5. CASE o = Pair(s, p)
  BY <1>5, KeptFits
<1> QED BY <1>3, <1>4, <1>5 DEF EnterGrace, When, MayStartGrace

\* What is read back from the panel wins; the panel user stays.
LEMMA PulledFits ==
  ASSUME NEW n, NEW s, NEW p, Known(n, s, p), p # None, NEW o, o = Pair(Pulled(s, p), p)
  PROVE  Fits(n, s, p, o) /\ o.panel = p /\ Same(o.row, p)
<1>1. p \in Profiles /\ p \in AnyProfile /\ p.uuid <= n + 1 /\ p.uuid > 0 /\ p.expire <= MaxExpiry
  BY KnownFields
<1> DEFINE r == Pulled(s, p)
<1>2. r \in AnyRow /\ r.uuid = p.uuid /\ r.expire = p.expire /\ (Tried(r) => Tried(s))
      /\ r.plan = p.plan /\ (r.status = p.status \/ (r.status = "EXPIRED" /\ Over(p.expire)))
  <2>1. CASE s = None
    <3>1. p.uuid \in Nat /\ p.expire \in Nat /\ p.status \in Statuses /\ p.plan \in Plans \cup {"grace"}
      BY <1>1 DEF AnyProfile
    <3>2. PICK st \in Statuses : /\ st = IF Over(p.expire) THEN "EXPIRED" ELSE p.status
                                 /\ st = p.status \/ (st = "EXPIRED" /\ Over(p.expire))
      BY <3>1 DEF Statuses
    <3> DEFINE a == [p EXCEPT !.status = st]
    <3>3. a.uuid = p.uuid /\ a.expire = p.expire /\ a.plan = p.plan /\ a.status = st
      BY <1>1 DEF AnyProfile
    <3>4. r = NewRow(a, FALSE)
      BY <2>1, <3>2 DEF Pulled
    <3> HIDE DEF a, r
    <3>5. r = [uuid |-> p.uuid, expire |-> p.expire, status |-> st, plan |-> p.plan,
               trial |-> FALSE, grace |-> FALSE, left |-> FALSE]
      BY <3>3, <3>4 DEF NewRow
    <3> QED BY <3>1, <3>2, <3>5 DEF AnyRow, Tried
  <2>2. CASE s # None
    <3>1. s \in AnyRow
      BY <2>2, KnownFields
    <3>2. r = [s EXCEPT !.uuid = p.uuid, !.expire = p.expire, !.status = p.status, !.plan = p.plan]
      BY <2>2 DEF Pulled
    <3>3. (r.trial <=> s.trial) /\ (r.grace <=> s.grace)
      BY <3>1, <3>2 DEF AnyRow
    <3>4. r \in AnyRow /\ r.uuid = p.uuid /\ r.expire = p.expire /\ r.status = p.status /\ r.plan = p.plan
      BY <1>1, <3>1, <3>2 DEF AnyRow, AnyProfile
    <3> HIDE DEF r
    <3> QED BY <2>2, <3>3, <3>4 DEF Tried
  <2> QED BY <2>1, <2>2
<1>3. o.panel = p /\ o.row = r /\ r # None
  BY <1>2, Constants DEF Pair
<1> HIDE DEF r
<1>4. Same(r, p)
  BY <1>2 DEF Same
<1>6. Within(o)
  BY <1>1, <1>3, ProfileFields, Constants DEF Within
<1>7. o = Pair(r, p)
  BY DEF r
<1> QED BY <1>1, <1>2, <1>3, <1>4, <1>6, <1>7, MadeFits

LEMMA SyncFits ==
  ASSUME NEW n, NEW s, NEW p, Known(n, s, p), NEW i, NEW o \in SyncRemnaUser(s, p, i)
  PROVE  Fits(n, s, p, o) /\ p # None /\ o.panel = p /\ Same(o.row, p)
<1>1. p # None /\ o = Pair(Pulled(s, p), p)
  BY DEF SyncRemnaUser, When
<1> QED BY <1>1, PulledFits

LEMMA PullFits ==
  ASSUME NEW n, NEW s, NEW p, Known(n, s, p), NEW o \in SyncFromRemnawave(s, p)
  PROVE  Fits(n, s, p, o)
<1>1. \/ o \in Deletion(p)
      \/ p # None /\ o = Pair(Pulled(s, p), p)
  BY DEF SyncFromRemnawave, When, Deletion
<1> QED BY <1>1, PulledFits, GoneFits

\* A panel user that is created again, from the row.
LEMMA RecreatedFits ==
  ASSUME NEW n, NEW s, NEW p, Known(n, s, p), s # None, p = None,
         NEW o, o = Pair(Pulled(s, Recreated(s)), Recreated(s)), Within(o)
  PROVE  Fits(n, s, p, o)
<1> DEFINE a == Recreated(s)  r == Pulled(s, a)
<1>1. s \in AnyRow /\ s.uuid <= n + 1 /\ s.uuid > 0
  BY KnownFields
<1>2. a \in AnyProfile /\ a.uuid = s.uuid /\ a.expire = s.expire
  BY <1>1 DEF Recreated, Sent, AnyRow, AnyProfile, Statuses
<1> HIDE DEF a
<1>3. r = [s EXCEPT !.uuid = a.uuid, !.expire = a.expire, !.status = a.status, !.plan = a.plan]
  BY DEF Pulled
<1>4. (r.trial <=> s.trial) /\ (r.grace <=> s.grace)
  BY <1>1, <1>3 DEF AnyRow
<1>5. r \in AnyRow /\ r.uuid = a.uuid /\ r.expire = a.expire /\ r.status = a.status /\ r.plan = a.plan
  BY <1>1, <1>2, <1>3 DEF AnyRow, AnyProfile
<1>6. o = Pair(r, a)
  BY DEF a
<1> HIDE DEF r
<1>7. ~Tried(r) \/ Tried(s)
  BY <1>4 DEF Tried
<1>8. r # None /\ a # None
  BY <1>2, <1>5, Constants
<1>9. Same(r, a)
  BY <1>5, <1>8 DEF Same
<1> QED BY <1>1, <1>2, <1>5, <1>6, <1>7, <1>9, MadeFits

LEMMA PushAllFits ==
  ASSUME NEW n, NEW s, NEW p, Known(n, s, p), NEW o \in SyncFromRemnashop(s, p), Within(o)
  PROVE  Fits(n, s, p, o)
<1>1. CASE s = None
  BY <1>1, GoneFits DEF SyncFromRemnashop
<1>2. CASE s # None /\ o \in Push(s, p)
  <2>1. s \in AnyRow /\ s.uuid = s.uuid /\ s.status \in {s.status, "ACTIVE"} /\ (~Tried(s) \/ Tried(s))
    BY <1>2, KnownFields
  <2> QED BY <1>2, <2>1, PushFits
<1>3. CASE s # None /\ p = None /\ o = Pair(Pulled(s, Recreated(s)), Recreated(s))
  BY <1>3, RecreatedFits
<1> QED BY <1>1, <1>2, <1>3 DEF SyncFromRemnashop, When

LEMMA RedeemFits ==
  ASSUME NEW n, NEW s, NEW p, Known(n, s, p), NEW o \in Redeem(s, p, n + 1), Within(o)
  PROVE  Fits(n, s, p, o)
<1>1. CASE s # None /\ o \in Push([s EXCEPT !.expire = @ + Days], p)
  <2>1. s.expire + Days \in Nat
    BY <1>1, KnownFields, Constants
  <2> QED BY <1>1, <2>1, LongerFits
<1>2. CASE o \in UpdateLimits(s, p)
  BY <1>2, UpdateLimitsFits
<1>3. CASE o \in Create(p, n + 1, FALSE)
  BY <1>3, CreateFits
<1>4. CASE Reached(s, p) /\ \E q \in Plans :
             o = Pair([Changed(s, q) EXCEPT !.trial = s.trial, !.grace = s.grace], Bought(s.uuid, q))
  BY <1>4, ChangedFits
<1>5. CASE o = Pair(s, p)
  BY <1>5, KeptFits
<1> QED BY <1>1, <1>2, <1>3, <1>4, <1>5 DEF Redeem, When, Running

\* The local row goes because the panel user did, without asking the panel.
LEMMA DeletedFits ==
  ASSUME NEW n, NEW s, NEW p, Known(n, s, p), NEW i, NEW o \in ProcessDeleted(s, p, i)
  PROVE  Fits(n, s, p, o) /\ o.row = None
<1>1. o \in Deletion(p)
  BY DEF ProcessDeleted, When, Deletion
<1> QED BY <1>1, GoneFits

\* What any use case makes of the row it read and the panel user it found.
LEMMA OutcomeFits ==
  ASSUME NEW j, j.kind \in AllKinds, created[j.u] \in Nat,
         NEW s, NEW p, Known(created[j.u], s, p), NEW o \in Outcomes(j, s, p)
  PROVE  /\ Typed(o) /\ Bounded(created[j.u], o)
         /\ Tried(o.row) => Tried(s)
         /\ Paired(s, p, o)
         /\ j.kind = "DELETED" => o.row = None
         /\ j.kind \in Updates => o.panel = p /\ Same(o.row, p)
         /\ Paid(j.kind, s) =>
              /\ o.row # None /\ o.row.expire >= s.expire + Days
              /\ o.panel # None /\ o.panel.expire = o.row.expire
         /\ j.kind = "TRIAL" => trialFree[j.u]
<1> DEFINE n == created[j.u]
<1>0. Within(o) /\ Known(n, s, p)
  BY DEF Outcomes, Within
<1>1. ASSUME Fits(n, s, p, o), j.kind \notin Webhooks \cup {"NEW", "RENEW", "TRIAL"}
      PROVE  /\ Typed(o) /\ Bounded(n, o) /\ (Tried(o.row) => Tried(s))
             /\ Paired(s, p, o)
             /\ j.kind \notin Updates \cup {"DELETED"} /\ ~Paid(j.kind, s) /\ j.kind # "TRIAL"
  BY <1>1 DEF Fits, Paid, Webhooks, Updates
<1>2. CASE j.kind \in {"TOGGLE", "LEAVE", "REJOIN"}
  <2>1. o \in ToggleStatus(s, p) \cup LeaveChannel(s, p) \cup RejoinChannel(s, p)
    BY <1>2 DEF Outcomes
  <2>2. Fits(n, s, p, o)
    BY <1>0, <2>1, TrialStatusFits
  <2> QED BY <1>1, <1>2, <2>2 DEF Webhooks
<1>3. CASE j.kind \in {"DELETE", "LIMITS", "DAYS"}
  <2>1. o \in Delete(s, p) \/ o \in UpdateLimits(s, p) \/ o \in AddDuration(s, p)
    BY <1>3 DEF Outcomes
  <2>2. Fits(n, s, p, o)
    BY <1>0, <2>1, DeleteFits, UpdateLimitsFits, AddDurationFits
  <2> QED BY <1>1, <1>3, <2>2 DEF Webhooks
<1>4. CASE j.kind = "SET_PLAN"
  <2>1. o \in SetPlan(s, p, n + 1)
    BY <1>4 DEF Outcomes
  <2>2. Fits(n, s, p, o)
    BY <1>0, <2>1, SetPlanFits
  <2> QED BY <1>1, <1>4, <2>2 DEF Webhooks
<1>5. CASE j.kind \in {"NEW", "RENEW", "CHANGE"}
  <2>1. o \in Purchase(j.kind, s, p, n + 1)
    BY <1>5 DEF Outcomes
  <2>2. Fits(n, s, p, o)
    BY <1>0, <2>1, PurchaseFits
  <2>3. Paid(j.kind, s) => /\ o.row # None /\ o.row.expire >= s.expire + Days
                           /\ o.panel # None /\ o.panel.expire = o.row.expire
    <3>1. Paid(j.kind, s) => o \in Renew(s, p) /\ ~s.grace
      BY <1>5, <2>1 DEF Paid, Purchase
    <3> QED BY <1>0, <3>1, RenewFits
  <2> QED BY <1>5, <2>2, <2>3 DEF Updates, Fits
<1>6. CASE j.kind = "TRIAL"
  <2>1. trialFree[j.u] /\ o \in Create(p, n + 1, TRUE)
    BY <1>6 DEF Outcomes, When
  <2>2. Fits(n, s, p, o)
    BY <1>0, <2>1, CreateFits
  <2> QED BY <1>6, <2>1, <2>2 DEF Updates, Fits, Paid
<1>7. CASE j.kind = "PROMO"
  <2>1. o \in Redeem(s, p, n + 1)
    BY <1>7 DEF Outcomes, When
  <2>2. Fits(n, s, p, o)
    BY <1>0, <2>1, RedeemFits
  <2> QED BY <1>1, <1>7, <2>2 DEF Webhooks
<1>8. CASE j.kind \in {"PULL", "PUSH", "GRACE"}
  <2>1. o \in SyncFromRemnawave(s, p) \/ o \in SyncFromRemnashop(s, p) \/ o \in EnterGrace(s, p)
    BY <1>8 DEF Outcomes
  <2>2. Fits(n, s, p, o)
    BY <1>0, <2>1, PullFits, PushAllFits, EnterGraceFits
  <2> QED BY <1>1, <1>8, <2>2 DEF Webhooks
<1>9. CASE j.kind \in Updates
  <2>1. o \in SyncRemnaUser(s, p, j.uuid)
    BY <1>9 DEF Outcomes, Updates
  <2> QED BY <1>0, <1>9, <2>1, SyncFits DEF Fits, Paid, Updates
<1>10. CASE j.kind = "DELETED"
  <2>1. o \in ProcessDeleted(s, p, j.uuid)
    BY <1>10 DEF Outcomes
  <2> QED BY <1>0, <1>10, <2>1, DeletedFits DEF Fits, Paid, Updates
<1> QED BY <1>2, <1>3, <1>4, <1>5, <1>6, <1>7, <1>8, <1>9, <1>10 DEF AllKinds, UseCases, Webhooks, Updates

\* A webhook handler that the panel or the row bears out does not refuse.
LEMMA HandlerActs ==
  ASSUME NEW j, NEW s, NEW p, p # None => p \in Profiles
  PROVE  /\ j.kind \in Updates /\ p # None /\ p.uuid = j.uuid => Outcomes(j, s, p) # {}
         /\ j.kind = "DELETED" /\ s # None /\ s.uuid = j.uuid => Outcomes(j, s, p) # {}
<1>1. p = None \/ (p.uuid <= MaxUuid /\ p.expire <= MaxExpiry)
  BY ProfileFields, Constants
<1>2. ASSUME j.kind \in Updates, p # None, p.uuid = j.uuid
      PROVE  Pair(Pulled(s, p), p) \in Outcomes(j, s, p)
  <2>1. Pair(Pulled(s, p), p) \in SyncRemnaUser(s, p, j.uuid) /\ Pair(Pulled(s, p), p).panel = p
    BY <1>2 DEF SyncRemnaUser, When, Pair
  <2> HIDE DEF Pair, SyncRemnaUser
  <2> QED BY <1>1, <1>2, <2>1 DEF Outcomes, Updates
<1>3. ASSUME j.kind = "DELETED", s # None, s.uuid = j.uuid
      PROVE  Pair(None, p) \in Outcomes(j, s, p)
  <2>1. Pair(None, p) \in ProcessDeleted(s, p, j.uuid) /\ Pair(None, p).panel = p
    BY <1>3 DEF ProcessDeleted, When, Pair
  <2> QED BY <1>1, <1>3, <2>1 DEF Outcomes
<1> QED BY <1>2, <1>3

-----------------------------------------------------------------------------
(* Merging what a mutation changed into the row that is stored.            *)

LEMMA MergedFits ==
  ASSUME NEW now \in Rows, NEW a \in Rows, NEW b \in Rows
  PROVE  LET r == [f \in DOMAIN now |-> IF b[f] # a[f] THEN b[f] ELSE now[f]]
         IN  r \in Rows /\ r.uuid \in {b.uuid, now.uuid} /\ (now = a => r = b)
<1> DEFINE r == [f \in DOMAIN now |-> IF b[f] # a[f] THEN b[f] ELSE now[f]]
           pick(f) == IF b[f] # a[f] THEN b[f] ELSE now[f]
<1>1. DOMAIN now = {"uuid", "expire", "status", "plan", "trial", "grace", "left"}
  BY DEF Rows
<1>2. r = [uuid |-> pick("uuid"), expire |-> pick("expire"), status |-> pick("status"),
           plan |-> pick("plan"), trial |-> pick("trial"), grace |-> pick("grace"),
           left |-> pick("left")]
  BY <1>1
<1>3. r \in Rows
  BY <1>2 DEF Rows
<1>4. r.uuid \in {b.uuid, now.uuid}
  BY <1>1
<1>5. ASSUME now = a PROVE r = b
  <2>1. \A f \in DOMAIN now : r[f] = b[f]
    BY <1>5
  <2>2. DOMAIN b = DOMAIN now
    BY <1>1 DEF Rows
  <2> QED BY <2>1, <2>2 DEF Rows
<1> QED BY <1>3, <1>4, <1>5

LEMMA MergedRow ==
  ASSUME NEW now \in Rows \cup {None}, NEW j, j.seen \in Rows \cup {None}, j.want \in Rows \cup {None}
  PROVE  LET r == Merged(now, j) IN
         /\ r \in Rows \cup {None}
         /\ r # None => \/ j.want # None /\ r.uuid = j.want.uuid
                        \/ now # None /\ r.uuid = now.uuid
         /\ now = j.seen => r = j.want
<1>1. CASE j.seen = None \/ j.want = None \/ now = None \/ j.kind = "SET_PLAN"
  <2>1. Merged(now, j) = j.want
    BY <1>1 DEF Merged
  <2> QED BY <2>1
<1>2. CASE ~(j.seen = None \/ j.want = None \/ now = None \/ j.kind = "SET_PLAN")
  <2>1. now \in Rows /\ j.seen \in Rows /\ j.want \in Rows
    BY <1>2
  <2>2. Merged(now, j) = [f \in DOMAIN now |-> IF j.want[f] # j.seen[f] THEN j.want[f] ELSE now[f]]
    BY <1>2 DEF Merged
  <2> DEFINE r == [f \in DOMAIN now |-> IF j.want[f] # j.seen[f] THEN j.want[f] ELSE now[f]]
  <2>3. r \in Rows /\ r.uuid \in {j.want.uuid, now.uuid} /\ (now = j.seen => r = j.want)
    BY <2>1, MergedFits
  <2> HIDE DEF r
  <2> QED BY <1>2, <2>2, <2>3 DEF r
<1> QED BY <1>1, <1>2

-----------------------------------------------------------------------------
(* Executions: what they are, and how they begin, land and end.            *)

LEMMA JobFacts ==
  ASSUME Shaped, NEW w \in Workers
  PROVE  /\ worker[w].pc \in {"idle", "grace", "calling", "landed"}
         /\ worker[w].pc = "grace" => worker[w].u \in Users /\ worker[w].uuid \in 1 .. MaxUuid
         /\ worker[w].pc = "calling" => worker[w] \in Calling
         /\ worker[w].pc = "landed" =>
              /\ worker[w] \in Landed
              /\ worker[w].want \in Rows \cup {None}
         /\ worker[w].pc \in Busy =>
              /\ worker[w].u \in Users /\ worker[w].kind \in AllKinds
              /\ worker[w].uuid \in 0 .. MaxUuid /\ worker[w].seen \in Rows \cup {None}
              /\ worker[w].lease \in BOOLEAN
<1>1. worker[w] \in {Idle} \cup Graced \cup Calling \cup Landed
  BY DEF Shaped
<1>2. CASE worker[w] = Idle
  BY <1>2 DEF Idle, Busy
<1>3. CASE worker[w] \in Graced
  BY <1>3 DEF Graced, Busy
<1>4. CASE worker[w] \in Calling
  BY <1>4 DEF Calling, Busy
<1>5. CASE worker[w] \in Landed
  BY <1>5 DEF Landed, Busy
<1> QED BY <1>1, <1>2, <1>3, <1>4, <1>5

LEMMA UserFacts ==
  ASSUME Shaped, NEW u \in Users
  PROVE  /\ row[u] \in Rows \cup {None} /\ panel[u] \in Profiles \cup {None}
         /\ created[u] \in 0 .. MaxUuid /\ created[u] \in Nat /\ notices[u] \subseteq Events
         /\ lock[u] \in Workers \cup {None} /\ today \in Nat /\ MaxUuid \in Nat
BY MutationConstants DEF Shaped

Others(w) == \A v \in Workers \ {w} : worker'[v] = worker[v]

\* An execution is over: it goes on to grace or is idle, and holds no lock.
Leaves(w) ==
  /\ worker'[w].pc \in {"idle", "grace"} /\ worker'[w].pc \notin Busy /\ Others(w)
  /\ worker' \in [Workers -> {Idle} \cup Graced \cup Calling \cup Landed]
  /\ \A u \in Users : lock'[u] = IF lock[u] = w THEN None ELSE lock[u]
  /\ lock' \in [Users -> Workers \cup {None}]

LEMMA Released ==
  ASSUME Shaped, NEW w \in Workers, Release(w), NEW j \in {Idle} \cup Graced,
         worker' = [worker EXCEPT ![w] = j]
  PROVE  Leaves(w)
<1>1. j.pc \in {"idle", "grace"}
  BY DEF Idle, Graced
<1>2. worker'[w] = j /\ Others(w)
      /\ worker' \in [Workers -> {Idle} \cup Graced \cup Calling \cup Landed]
  BY DEF Shaped, Others
<1>3. /\ \A u \in Users : lock'[u] = IF lock[u] = w THEN None ELSE lock[u]
      /\ lock' \in [Users -> Workers \cup {None}]
  BY DEF Shaped, Release
<1> QED BY <1>1, <1>2, <1>3 DEF Leaves, Busy

LEMMA DoneLeaves ==
  ASSUME Shaped, Counted(created), NEW w \in Workers, worker[w].pc \in Busy, Done(w)
  PROVE  Leaves(w)
<1> DEFINE j == IF worker[w].kind = "EXPIRED"
                 THEN [pc |-> "grace", u |-> worker[w].u, uuid |-> worker[w].uuid] ELSE Idle
<1>1. worker[w].u \in Users /\ worker[w].uuid \in 0 .. MaxUuid
  BY JobFacts
<1>2. worker[w].kind = "EXPIRED" => worker[w].uuid \in 1 .. MaxUuid
  BY <1>1, MutationConstants DEF Counted, Numbered, Webhooks
<1>3. j \in {Idle} \cup Graced
  BY <1>1, <1>2 DEF Graced
<1>4. Release(w) /\ worker' = [worker EXCEPT ![w] = j]
  BY DEF Done
<1> HIDE DEF j
<1> QED BY <1>3, <1>4, Released

\* A failed webhook is owed again.
LEMMA DropLeaves ==
  ASSUME Shaped, Counted(created), NEW w \in Workers, worker[w].pc \in Busy, Drop(w)
  PROVE  /\ Leaves(w) /\ worker'[w] = Idle
         /\ notices' \in [Users -> SUBSET Events]
         /\ \A u \in Users : notices[u] \subseteq notices'[u]
         /\ \A u \in Users \ {worker[w].u} : notices'[u] = notices[u]
         /\ worker[w].kind \in Webhooks => Note(w) \in notices'[worker[w].u]
<1>1. worker[w].u \in Users /\ worker[w].uuid \in 0 .. MaxUuid /\ worker[w].kind \in AllKinds
  BY JobFacts
<1>2. worker[w].kind \in Webhooks \cup {"GRACE"} => worker[w].uuid \in 1 .. MaxUuid
  BY <1>1, MutationConstants DEF Counted, Numbered
<1>3. Owed(worker[w]) \subseteq Events
  BY <1>2 DEF Owed, Events, Webhooks
<1>4. worker[w].kind \in Webhooks => Note(w) \in Owed(worker[w])
  BY <1>2 DEF Owed, Events, Webhooks, Note
<1>5. notices' = [notices EXCEPT ![worker[w].u] = notices[worker[w].u] \cup Owed(worker[w])]
  BY DEF Drop
<1>6. Leaves(w) /\ worker'[w] = Idle
  <2>1. Release(w) /\ worker' = [worker EXCEPT ![w] = Idle]
    BY DEF Drop
  <2> QED BY <2>1, Released DEF Shaped
<1> HIDE DEF Owed, Note
<1> QED BY <1>1, <1>3, <1>4, <1>5, <1>6 DEF Shaped

\* An execution takes the lock and reads the row.
Begins(w, u, kind, uuid) ==
  /\ lock[u] = None /\ lock' = [lock EXCEPT ![u] = w] /\ Others(w)
  /\ worker'[w] \in Calling
  /\ worker'[w].pc = "calling" /\ worker'[w].u = u /\ worker'[w].kind = kind
  /\ worker'[w].uuid = uuid /\ worker'[w].seen = row[u] /\ worker'[w].lease
  /\ worker' \in [Workers -> {Idle} \cup Graced \cup Calling \cup Landed]

LEMMA HoldBegins ==
  ASSUME Shaped, NEW w \in Workers, NEW u \in Users, NEW kind \in AllKinds,
         NEW uuid \in 0 .. MaxUuid, Hold(w, u, kind, uuid)
  PROVE  Begins(w, u, kind, uuid)
<1> DEFINE c == [pc |-> "calling", u |-> u, kind |-> kind, uuid |-> uuid, seen |-> row[u],
                 lease |-> TRUE]
<1>1. row[u] \in Rows \cup {None}
  BY UserFacts
<1>2. /\ c \in Calling /\ c.pc = "calling" /\ c.u = u /\ c.kind = kind /\ c.uuid = uuid
      /\ c.seen = row[u] /\ c.lease
  BY <1>1 DEF Calling
<1>3. worker' = [worker EXCEPT ![w] = c] /\ lock[u] = None /\ lock' = [lock EXCEPT ![u] = w]
  BY DEF Hold, Free
<1> HIDE DEF c
<1> QED BY <1>2, <1>3 DEF Shaped, Begins, Others

\* The panel answered.
Lands(w, o) ==
  /\ Others(w)
  /\ worker'[w] \in Landed /\ worker'[w].pc = "landed" /\ worker'[w].u = worker[w].u
  /\ worker'[w].kind = worker[w].kind /\ worker'[w].uuid = worker[w].uuid
  /\ worker'[w].seen = worker[w].seen /\ (worker'[w].lease <=> worker[w].lease)
  /\ worker'[w].want = o.row
  /\ worker' \in [Workers -> {Idle} \cup Graced \cup Calling \cup Landed]

LEMMA LandLands ==
  ASSUME Shaped, NEW w \in Workers, worker[w].pc = "calling", NEW o, o.row \in Rows \cup {None},
         worker' = [worker EXCEPT ![w] =
            [pc |-> "landed", u |-> worker[w].u, kind |-> worker[w].kind, uuid |-> worker[w].uuid,
             seen |-> worker[w].seen, lease |-> worker[w].lease, want |-> o.row]]
  PROVE  Lands(w, o)
<1> DEFINE c == [pc |-> "landed", u |-> worker[w].u, kind |-> worker[w].kind,
                 uuid |-> worker[w].uuid, seen |-> worker[w].seen, lease |-> worker[w].lease,
                 want |-> o.row]
<1>1. /\ worker[w].u \in Users /\ worker[w].kind \in AllKinds /\ worker[w].uuid \in 0 .. MaxUuid
      /\ worker[w].seen \in Rows \cup {None} /\ worker[w].lease \in BOOLEAN
  BY JobFacts DEF Busy
<1>2. /\ c \in Landed /\ c.pc = "landed" /\ c.u = worker[w].u /\ c.kind = worker[w].kind
      /\ c.uuid = worker[w].uuid /\ c.seen = worker[w].seen /\ c.lease = worker[w].lease
      /\ c.want = o.row
  BY <1>1 DEF Landed
<1>3. worker' = [worker EXCEPT ![w] = c]
  OBVIOUS
<1> HIDE DEF c
<1>4. worker'[w] = c /\ Others(w)
      /\ worker' \in [Workers -> {Idle} \cup Graced \cup Calling \cup Landed]
  BY <1>2, <1>3 DEF Shaped, Others
<1>5. c.lease <=> worker[w].lease
  BY <1>2
<1> QED BY <1>2, <1>4, <1>5 DEF Lands

-----------------------------------------------------------------------------
(* The panel.                                                              *)

Settled(u, after) ==
  /\ panel' \in [Users -> Profiles \cup {None}] /\ panel'[u] = after
  /\ \A v \in Users \ {u} : panel'[v] = panel[v] /\ notices'[v] = notices[v]
  /\ notices' \in [Users -> SUBSET Events]
  /\ notices'[u] = notices[u] \cup Announced(panel[u], after)
  /\ created' \in [Users -> 0 .. MaxUuid]
  /\ \A v \in Users : created'[v] >= created[v]
  /\ after # None => after.uuid <= created'[u]

LEMMA AnnouncedFits ==
  ASSUME NEW p \in Profiles \cup {None}, NEW q
  PROVE  Announced(p, q) \subseteq Events
<1>1. p # None => p.uuid \in 1 .. MaxUuid
  BY ProfileFields
<1> QED BY <1>1 DEF Announced, Events, Webhooks

LEMMA SettleFits ==
  ASSUME Shaped, NEW u \in Users, NEW after \in Profiles \cup {None}, Settle(u, after)
  PROVE  Settled(u, after)
<1>1. panel' = [panel EXCEPT ![u] = after] /\ panel \in [Users -> Profiles \cup {None}]
  BY DEF Settle, Shaped
<1>2. /\ notices' = [notices EXCEPT ![u] = notices[u] \cup Announced(panel[u], after)]
      /\ notices \in [Users -> SUBSET Events] /\ Announced(panel[u], after) \subseteq Events
  BY AnnouncedFits DEF Settle, Shaped
<1> DEFINE n == IF after = None THEN created[u] ELSE Later(created[u], after.uuid)
<1>3. created' = [created EXCEPT ![u] = n] /\ created \in [Users -> 0 .. MaxUuid]
  BY DEF Settle, Shaped
<1>4. n \in 0 .. MaxUuid /\ n >= created[u] /\ (after # None => after.uuid <= n)
  <2>1. \A v \in Users : created[v] \in 0 .. MaxUuid
    BY <1>3
  <2>2. after # None => after.uuid \in 1 .. MaxUuid
    BY ProfileFields
  <2> QED BY <2>1, <2>2, MutationConstants DEF Later
<1>5. \A v \in Users : created[v] >= created[v]
  BY <1>3
<1> HIDE DEF n
<1>6. /\ created' \in [Users -> 0 .. MaxUuid] /\ created'[u] = n
      /\ \A v \in Users : created'[v] >= created[v]
  BY <1>3, <1>4, <1>5
<1>7. /\ notices' \in [Users -> SUBSET Events]
      /\ notices'[u] = notices[u] \cup Announced(panel[u], after)
      /\ \A v \in Users \ {u} : notices'[v] = notices[v]
  BY <1>2
<1>8. /\ panel' \in [Users -> Profiles \cup {None}] /\ panel'[u] = after
      /\ \A v \in Users \ {u} : panel'[v] = panel[v]
  BY <1>1
<1> QED BY <1>4, <1>6, <1>7, <1>8 DEF Settled

-----------------------------------------------------------------------------
(* Every step keeps the shapes.                                            *)

Facts(u) == Known(created[u], row[u], panel[u])

LEMMA FactsHold ==
  ASSUME Shaped, Counted(created), NEW u \in Users
  PROVE  Facts(u)
<1>1. row[u] \in Rows \cup {None} /\ panel[u] \in Profiles \cup {None}
      /\ created[u] \in Nat /\ today \in Nat
  BY UserFacts
<1> QED BY <1>1 DEF Facts, Known, Counted

\* What an execution read is known as well.
LEMMA SeenKnown ==
  ASSUME Shaped, Counted(created), NEW u \in Users, NEW s \in Rows \cup {None},
         s # None => s.uuid <= created[u]
  PROVE  Known(created[u], s, panel[u])
BY FactsHold DEF Facts, Known

LEMMA OutcomeShapes ==
  ASSUME Shaped, Counted(created), NEW j, j.u \in Users, j.kind \in AllKinds,
         j.seen \in Rows \cup {None}, Numbered(created, j),
         NEW o \in Outcomes(j, j.seen, panel[j.u])
  PROVE  /\ o.row \in Rows \cup {None} /\ o.panel \in Profiles \cup {None}
         /\ o.row # None => o.row.uuid <= created[j.u] \/ (o.panel # None /\ o.row.uuid = o.panel.uuid)
<1>1. Known(created[j.u], j.seen, panel[j.u])
  BY SeenKnown DEF Numbered
<1>2. Typed(o) /\ Bounded(created[j.u], o)
  BY <1>1, OutcomeFits DEF Known
<1> QED BY <1>2 DEF Typed, Bounded

LEMMA ShapeStep ==
  ASSUME Shaped, Counted(created), [Next]_vars
  PROVE  Shaped'
<1> USE MutationConstants
<1>1. CASE UNCHANGED vars
  BY <1>1 DEF Shaped, vars
<1>2. ASSUME NEW w \in Workers, NEW u \in Users, NEW kind \in Kinds, Call(w, u, kind) PROVE Shaped'
  <2>1. Begins(w, u, kind, 0)
    <3>1. kind \in AllKinds /\ 0 \in 0 .. MaxUuid
      BY DEF AllKinds, UseCases
    <3> QED BY <1>2, <3>1, HoldBegins DEF Call
  <2> QED BY <1>2, <2>1 DEF Shaped, Begins, Call, Hold
<1>3. ASSUME NEW w \in Workers, NEW u \in Users, NEW e \in notices[u], Deliver(w, u, e) PROVE Shaped'
  <2>1. e \in Events
    BY UserFacts
  <2>2. e.event \in AllKinds /\ e.uuid \in 0 .. MaxUuid
    BY <2>1 DEF Events, AllKinds
  <2>3. Begins(w, u, e.event, e.uuid)
    BY <1>3, <2>2, HoldBegins DEF Deliver
  <2> QED BY <1>3, <2>3 DEF Shaped, Begins, Deliver, Hold
<1>4. ASSUME NEW u \in Users, NEW e \in notices[u], Ignore(u, e) PROVE Shaped'
  BY <1>4 DEF Shaped, Ignore
<1>5. ASSUME NEW w \in Workers, Continue(w) PROVE Shaped'
  <2>1. worker[w].u \in Users /\ worker[w].uuid \in 0 .. MaxUuid /\ "GRACE" \in AllKinds
    BY <1>5, JobFacts DEF Continue, AllKinds
  <2>2. Begins(w, worker[w].u, "GRACE", worker[w].uuid)
    BY <1>5, <2>1, HoldBegins DEF Continue
  <2> QED BY <1>5, <2>1, <2>2 DEF Shaped, Begins, Continue, Hold
<1>6. ASSUME NEW w \in Workers, Land(w) PROVE Shaped'
  <2>1. worker[w].pc = "calling" /\ worker[w].u \in Users /\ worker[w].kind \in AllKinds
        /\ worker[w].seen \in Rows \cup {None} /\ Numbered(created, worker[w])
    BY <1>6, JobFacts DEF Land, Busy, Counted
  <2>2. PICK o \in Outcomes(worker[w], worker[w].seen, panel[worker[w].u]) :
          /\ Settle(worker[w].u, o.panel)
          /\ worker' = [worker EXCEPT ![w] =
               [pc |-> "landed", u |-> worker[w].u, kind |-> worker[w].kind, uuid |-> worker[w].uuid,
                seen |-> worker[w].seen, lease |-> worker[w].lease, want |-> o.row]]
    BY <1>6 DEF Land
  <2>3. o.row \in Rows \cup {None} /\ o.panel \in Profiles \cup {None}
    BY <2>1, OutcomeShapes
  <2>4. Lands(w, o)
    BY <2>1, <2>2, <2>3, LandLands
  <2>5. Settled(worker[w].u, o.panel)
    BY <2>1, <2>2, <2>3, SettleFits
  <2> QED BY <1>6, <2>4, <2>5 DEF Shaped, Lands, Settled, Land
<1>7. ASSUME NEW w \in Workers, Refuse(w) PROVE Shaped'
  <2>1. Leaves(w)
    BY <1>7, DoneLeaves DEF Refuse, Busy
  <2> QED BY <1>7, <2>1 DEF Shaped, Refuse, Leaves
<1>8. ASSUME NEW w \in Workers, Commit(w) PROVE Shaped'
  <2>1. Leaves(w)
    BY <1>8, DoneLeaves DEF Commit, Busy
  <2>2. worker[w].u \in Users /\ worker[w].seen \in Rows \cup {None} /\ worker[w].want \in Rows \cup {None}
    BY <1>8, JobFacts DEF Commit, Busy
  <2>3. Merged(row[worker[w].u], worker[w]) \in Rows \cup {None}
    BY <2>2, UserFacts, MergedRow
  <2>4. row' \in [Users -> Rows \cup {None}]
    BY <1>8, <2>3 DEF Shaped, Commit
  <2>5. trialFree' \in [Users -> BOOLEAN]
    BY <1>8 DEF Shaped, Commit
  <2>6. trials' \in [Users -> Nat] /\ uses' \in [Users -> Nat]
    <3>1. PICK t \in Nat, n \in Nat : /\ trials' = [trials EXCEPT ![worker[w].u] = t]
                                     /\ uses' = [uses EXCEPT ![worker[w].u] = n]
      <4>1. trials[worker[w].u] \in Nat /\ uses[worker[w].u] \in Nat
        BY <2>2 DEF Shaped
      <4>2. \A i \in Nat : i + 1 \in Nat
        OBVIOUS
      <4> QED BY <1>8, <4>1, <4>2 DEF Commit
    <3> QED BY <3>1 DEF Shaped
  <2>7. UNCHANGED <<panel, created, notices, wire, today, faults>>
    BY <1>8 DEF Commit
  <2> QED BY <2>1, <2>4, <2>5, <2>6, <2>7 DEF Shaped, Leaves
<1>9. ASSUME NEW w \in Workers, Reject(w) PROVE Shaped'
  <2>1. Leaves(w)
    BY <1>9, DoneLeaves DEF Reject, Busy
  <2> QED BY <1>9, <2>1 DEF Shaped, Reject, Leaves
<1>10. ASSUME NEW w \in Workers, worker[w].pc \in Busy, Struck(w) PROVE faults' \in 0 .. MaxFaults
  BY <1>10 DEF Shaped, Struck
<1>11. ASSUME NEW w \in Workers, Fail(w) \/ RollBack(w) PROVE Shaped'
  <2>1. worker[w].pc \in Busy /\ Drop(w) /\ Struck(w)
    BY <1>11 DEF Fail, RollBack, Busy
  <2>2. Leaves(w) /\ notices' \in [Users -> SUBSET Events] /\ faults' \in 0 .. MaxFaults
    BY <1>10, <2>1, DropLeaves
  <2> QED BY <1>11, <2>2 DEF Shaped, Fail, RollBack, Leaves
<1>12. ASSUME NEW w \in Workers, Abandon(w) PROVE Shaped'
  <2>1. worker[w].pc \in Busy /\ Drop(w) /\ Struck(w)
    BY <1>12 DEF Abandon, Busy
  <2>2. Leaves(w) /\ notices' \in [Users -> SUBSET Events] /\ faults' \in 0 .. MaxFaults
    BY <1>10, <2>1, DropLeaves
  <2>3. wire' \subseteq Requests
    BY <1>12, <2>1, JobFacts DEF Shaped, Abandon, Requests
  <2> QED BY <1>12, <2>2, <2>3 DEF Shaped, Abandon, Leaves
<1>13. ASSUME NEW m \in wire, LandLate(m) PROVE Shaped'
  <2>1. m.u \in Users /\ m.kind \in AllKinds /\ m.seen \in Rows \cup {None} /\ Numbered(created, m)
    BY DEF Shaped, Requests, Counted
  <2>2. PICK o \in Outcomes(m, m.seen, panel[m.u]) : Settle(m.u, o.panel)
    BY <1>13 DEF LandLate
  <2>3. Settled(m.u, o.panel)
    BY <2>1, <2>2, OutcomeShapes, SettleFits
  <2> QED BY <1>13, <2>3 DEF Shaped, Settled, LandLate
<1>14. ASSUME NEW u \in Users, LeaseEnds(u) PROVE Shaped'
  <2>1. lock[u] \in Workers
    BY <1>14, UserFacts DEF LeaseEnds
  <2>2. PICK v \in Workers : v = lock[u]
    BY <2>1
  <2>3. worker' = [worker EXCEPT ![v] = [worker[v] EXCEPT !.lease = FALSE]]
    BY <1>14, <2>2 DEF LeaseEnds
  <2>4. [worker[v] EXCEPT !.lease = FALSE] \in {Idle} \cup Graced \cup Calling \cup Landed
    <3>1. worker[v] \in {Idle} \cup Graced \cup Calling \cup Landed
      BY DEF Shaped
    <3>2. CASE worker[v] = Idle
      BY <3>2 DEF Idle
    <3>3. CASE worker[v] \in Graced
      BY <3>3 DEF Graced
    <3>4. CASE worker[v] \in Calling
      BY <3>4 DEF Calling
    <3>5. CASE worker[v] \in Landed
      BY <3>5 DEF Landed
    <3> QED BY <3>1, <3>2, <3>3, <3>4, <3>5
  <2>5. worker' \in [Workers -> {Idle} \cup Graced \cup Calling \cup Landed]
    BY <2>3, <2>4 DEF Shaped
  <2>6. lock' \in [Users -> Workers \cup {None}] /\ faults' \in 0 .. MaxFaults
    BY <1>14 DEF Shaped, LeaseEnds
  <2> QED BY <1>14, <2>5, <2>6 DEF Shaped, LeaseEnds
<1>15. ASSUME NEW u \in Users, PanelExpires(u) PROVE Shaped'
  <2> DEFINE a == [panel[u] EXCEPT !.status = "EXPIRED"]
             e == [event |-> "EXPIRED", uuid |-> panel[u].uuid]
  <2>1. panel[u] \in Profiles
    BY <1>15, UserFacts DEF PanelExpires
  <2>2. a \in Profiles /\ e \in Events
    BY <2>1 DEF Profiles, Events, Webhooks, Statuses
  <2>3. panel' = [panel EXCEPT ![u] = a] /\ notices' = [notices EXCEPT ![u] = notices[u] \cup {e}]
    BY <1>15 DEF PanelExpires
  <2> HIDE DEF a, e
  <2>4. panel' \in [Users -> Profiles \cup {None}] /\ notices' \in [Users -> SUBSET Events]
    BY <2>2, <2>3 DEF Shaped
  <2> QED BY <1>15, <2>4 DEF Shaped, PanelExpires
<1>16. ASSUME NEW u \in Users, PanelEdits(u) PROVE Shaped'
  <2>1. panel[u] \in Profiles
    BY <1>16, UserFacts DEF PanelEdits
  <2>2. [panel[u] EXCEPT !.status = "DISABLED"] \in Profiles
    BY <2>1 DEF Profiles, Statuses
  <2>3. PICK after \in Profiles \cup {None} : Settle(u, after)
    BY <1>16, <2>2 DEF PanelEdits
  <2>4. Settled(u, after)
    BY <2>3, SettleFits
  <2> QED BY <1>16, <2>4 DEF Shaped, Settled, PanelEdits
<1>17. CASE Tick
  <2>1. today' \in 0 .. MaxDay
    BY <1>17 DEF Shaped, Tick
  <2> QED BY <1>17, <2>1 DEF Shaped, Tick
<1> QED BY <1>1, <1>2, <1>3, <1>4, <1>5, <1>6, <1>7, <1>8, <1>9, <1>11, <1>12, <1>13, <1>14, <1>15,
           <1>16, <1>17 DEF Next

-----------------------------------------------------------------------------
(* Every step keeps the numbers of the panel users.                        *)

LEMMA NumbersKept ==
  ASSUME Shaped, Shaped', Counted(created), \A u \in Users : created'[u] >= created[u],
         \A u \in Users : row'[u] = row[u] \/ (row'[u] # None => row'[u].uuid <= created'[u]),
         \A u \in Users : panel'[u] = panel[u] \/ (panel'[u] # None => panel'[u].uuid <= created'[u]),
         \A w \in Workers :
           \/ worker'[w] = worker[w]
           \/ worker'[w].pc \notin Busy
           \/ /\ Numbered(created', worker'[w])
              /\ worker'[w].pc = "landed" /\ worker'[w].want # None =>
                   worker'[w].want.uuid <= created'[worker'[w].u],
         \A m \in wire' : m \in wire \/ Numbered(created', m)
  PROVE  Counted(created)'
<1>1. \A u \in Users : created[u] \in Nat /\ created'[u] \in Nat
  BY MutationConstants DEF Shaped
<1>2. ASSUME NEW u \in Users, NEW i \in Nat, i <= created[u] PROVE i <= created'[u]
  BY <1>1, <1>2
<1>3. ASSUME NEW s \in Rows \cup {None}, s # None PROVE s.uuid \in Nat
  BY <1>3, RowFields
<1>4. ASSUME NEW p \in Profiles \cup {None}, p # None PROVE p.uuid \in Nat
  BY <1>4, ProfileFields
<1>5. ASSUME NEW u \in Users PROVE /\ row'[u] # None => row'[u].uuid <= created'[u]
                                   /\ panel'[u] # None => panel'[u].uuid <= created'[u]
  <2>1. row[u] # None => row[u].uuid \in Nat /\ row[u].uuid <= created[u]
    BY <1>3, UserFacts DEF Counted
  <2>2. panel[u] # None => panel[u].uuid \in Nat /\ panel[u].uuid <= created[u]
    BY <1>4, UserFacts DEF Counted
  <2> QED BY <1>2, <2>1, <2>2
<1>6. ASSUME NEW j, j.u \in Users, j.seen \in Rows \cup {None}, Numbered(created, j)
      PROVE  Numbered(created', j)
  BY <1>2, <1>3, <1>6 DEF Numbered
<1>7. ASSUME NEW w \in Workers
      PROVE  /\ worker'[w].pc \in Busy => Numbered(created', worker'[w])
             /\ worker'[w].pc = "landed" /\ worker'[w].want # None =>
                  worker'[w].want.uuid <= created'[worker'[w].u]
  <2>1. CASE worker'[w] = worker[w]
    <3>1. worker[w].pc \in Busy => Numbered(created', worker[w])
      BY <1>6, JobFacts DEF Counted
    <3>2. worker[w].pc = "landed" /\ worker[w].want # None => worker[w].want.uuid <= created'[worker[w].u]
      <4>1. worker[w].pc = "landed" => worker[w].u \in Users /\ worker[w].want \in Rows \cup {None}
        BY JobFacts DEF Busy
      <4> QED BY <1>2, <1>3, <4>1 DEF Counted
    <3> QED BY <2>1, <3>1, <3>2
  <2>2. CASE worker'[w].pc \notin Busy
    BY <2>2 DEF Busy
  <2> QED BY <2>1, <2>2
<1>8. ASSUME NEW m \in wire' PROVE Numbered(created', m)
  <2>1. m \in wire => m.u \in Users /\ m.seen \in Rows \cup {None} /\ Numbered(created, m)
    BY DEF Shaped, Requests, Counted
  <2> QED BY <1>6, <2>1
<1> QED BY <1>5, <1>7, <1>8 DEF Counted

\* The heartbeat missed its lease: the execution goes on without.
LosesLease(v, u) ==
  /\ lock[u] = v /\ lock' = [lock EXCEPT ![u] = None] /\ Others(v)
  /\ worker[v].pc \in Busy /\ worker[v].u = u
  /\ worker'[v].pc = worker[v].pc /\ worker'[v].u = worker[v].u /\ worker'[v].kind = worker[v].kind
  /\ worker'[v].uuid = worker[v].uuid /\ worker'[v].seen = worker[v].seen /\ ~worker'[v].lease
  /\ worker[v].pc = "landed" => worker'[v].want = worker[v].want

LEMMA LeaseLost ==
  ASSUME Shaped, Locked, NEW u \in Users, LeaseEnds(u)
  PROVE  \E v \in Workers : LosesLease(v, u)
<1>1. PICK v \in Workers : v = lock[u]
  BY UserFacts DEF LeaseEnds
<1>2. worker' = [worker EXCEPT ![v] = [worker[v] EXCEPT !.lease = FALSE]]
      /\ lock' = [lock EXCEPT ![u] = None]
      /\ worker \in [Workers -> {Idle} \cup Graced \cup Calling \cup Landed]
  BY <1>1 DEF LeaseEnds, Shaped
<1>3. worker[v].pc \in Busy /\ worker[v].u = u
  BY <1>1 DEF Locked, Holder, At
<1>4. \/ worker[v].pc = "calling" /\ worker[v] \in Calling
      \/ worker[v].pc = "landed" /\ worker[v] \in Landed
  BY <1>3, JobFacts DEF Busy
<1> DEFINE j == [worker[v] EXCEPT !.lease = FALSE]
<1>5. /\ j.pc = worker[v].pc /\ j.u = worker[v].u /\ j.kind = worker[v].kind
      /\ j.uuid = worker[v].uuid /\ j.seen = worker[v].seen /\ ~j.lease
  BY <1>4 DEF Calling, Landed
<1>6. worker[v].pc = "landed" => j.want = worker[v].want
  BY <1>4 DEF Landed
<1> HIDE DEF j
<1>7. worker'[v] = j /\ Others(v)
  BY <1>2 DEF Others, j
<1> QED BY <1>1, <1>2, <1>3, <1>5, <1>6, <1>7 DEF LosesLease

LEMMA CountStep ==
  ASSUME Shaped, Shaped', Counted(created), Locked, [Next]_vars
  PROVE  Counted(created)'
<1>0. \A u \in Users : created[u] >= created[u]
  BY UserFacts
<1>1. ASSUME UNCHANGED <<created, row, panel, wire>>,
             \A w \in Workers : worker'[w] = worker[w] \/ worker'[w].pc \notin Busy
                                \/ (worker'[w].pc = "calling" /\ Numbered(created, worker'[w]))
      PROVE  Counted(created)'
  BY <1>0, <1>1, NumbersKept
<1>2. ASSUME NEW w \in Workers, NEW u \in Users, NEW kind, NEW i, Begins(w, u, kind, i),
             kind \in Webhooks \cup {"GRACE"} => i > 0, UNCHANGED <<created, row, panel, wire>>
      PROVE  Counted(created)'
  <2>1. Numbered(created, worker'[w])
    BY <1>2 DEF Begins, Numbered, Counted
  <2> QED BY <1>1, <1>2, <2>1 DEF Begins, Others
<1>3. ASSUME NEW w \in Workers, NEW u \in Users, NEW kind \in Kinds, Call(w, u, kind)
      PROVE  Counted(created)'
  <2>1. kind \in AllKinds /\ 0 \in 0 .. MaxUuid /\ kind \notin Webhooks \cup {"GRACE"}
    BY MutationConstants DEF AllKinds, UseCases, Webhooks
  <2>2. Begins(w, u, kind, 0)
    BY <1>3, <2>1, HoldBegins DEF Call
  <2> QED BY <1>2, <1>3, <2>1, <2>2 DEF Call, Hold
<1>4. ASSUME NEW w \in Workers, NEW u \in Users, NEW e \in notices[u], Deliver(w, u, e)
      PROVE  Counted(created)'
  <2>1. e \in Events
    BY UserFacts
  <2>2. e.event \in AllKinds /\ e.uuid \in 0 .. MaxUuid /\ e.uuid > 0
    BY <2>1, MutationConstants DEF Events, AllKinds
  <2>3. Begins(w, u, e.event, e.uuid)
    BY <1>4, <2>2, HoldBegins DEF Deliver
  <2> QED BY <1>2, <1>4, <2>2, <2>3 DEF Deliver, Hold
<1>5. ASSUME NEW w \in Workers, Continue(w) PROVE Counted(created)'
  <2>1. worker[w].u \in Users /\ worker[w].uuid \in 1 .. MaxUuid /\ "GRACE" \in AllKinds
    BY <1>5, JobFacts DEF Continue, AllKinds
  <2>2. worker[w].uuid \in 0 .. MaxUuid /\ worker[w].uuid > 0
    BY <2>1, MutationConstants
  <2>3. Begins(w, worker[w].u, "GRACE", worker[w].uuid)
    BY <1>5, <2>1, <2>2, HoldBegins DEF Continue
  <2> QED BY <1>2, <1>5, <2>1, <2>2, <2>3 DEF Continue, Hold
<1>6. ASSUME NEW u \in Users, NEW after, Settled(u, after) PROVE
             /\ \A v \in Users : created'[v] >= created[v]
             /\ \A v \in Users : panel'[v] = panel[v] \/ (panel'[v] # None => panel'[v].uuid <= created'[v])
  BY <1>6 DEF Settled
<1>7. ASSUME NEW w \in Workers, Land(w) PROVE Counted(created)'
  <2> DEFINE u == worker[w].u
  <2>1. worker[w].pc = "calling" /\ u \in Users /\ worker[w].kind \in AllKinds
        /\ worker[w].seen \in Rows \cup {None} /\ Numbered(created, worker[w])
    BY <1>7, JobFacts DEF Land, Busy, Counted
  <2>2. PICK o \in Outcomes(worker[w], worker[w].seen, panel[u]) :
          /\ Settle(u, o.panel)
          /\ worker' = [worker EXCEPT ![w] =
               [pc |-> "landed", u |-> worker[w].u, kind |-> worker[w].kind, uuid |-> worker[w].uuid,
                seen |-> worker[w].seen, lease |-> worker[w].lease, want |-> o.row]]
    BY <1>7 DEF Land
  <2>3. /\ o.row \in Rows \cup {None} /\ o.panel \in Profiles \cup {None}
        /\ o.row # None => o.row.uuid <= created[u] \/ (o.panel # None /\ o.row.uuid = o.panel.uuid)
    BY <2>1, OutcomeShapes
  <2>4. Lands(w, o)
    BY <2>1, <2>2, <2>3, LandLands
  <2>5. Settled(u, o.panel)
    BY <2>1, <2>2, <2>3, SettleFits
  <2> HIDE DEF u
  <2>6. created[u] \in Nat /\ created'[u] \in Nat /\ created'[u] >= created[u]
    BY <2>1, <2>5, UserFacts, MutationConstants DEF Settled
  <2>7. ASSUME NEW s \in Rows \cup {None}, s # None, s.uuid <= created[u] PROVE s.uuid <= created'[u]
    BY <2>6, <2>7, RowFields
  <2>8. o.row # None => o.row.uuid <= created'[u]
    BY <2>3, <2>5, <2>7 DEF Settled
  <2>9. worker[w].seen # None => worker[w].seen.uuid <= created'[u]
    BY <2>1, <2>7 DEF Numbered, u
  <2>10. Numbered(created', worker'[w]) /\ worker'[w].u = u /\ worker'[w].want = o.row
    BY <2>1, <2>4, <2>9 DEF Numbered, Lands, u
  <2>11. UNCHANGED <<row, wire>>
    BY <1>7 DEF Land
  <2> QED BY <1>6, <2>1, <2>4, <2>5, <2>8, <2>10, <2>11, NumbersKept DEF Lands, Others
<1>8. ASSUME NEW w \in Workers, Refuse(w) \/ Reject(w) \/ Fail(w) \/ RollBack(w) PROVE Counted(created)'
  <2>1. worker[w].pc \in Busy /\ (Done(w) \/ Drop(w)) /\ UNCHANGED <<created, row, panel, wire>>
    BY <1>8 DEF Refuse, Reject, Fail, RollBack, Busy
  <2>2. Leaves(w)
    BY <2>1, DoneLeaves, DropLeaves
  <2> QED BY <1>1, <2>1, <2>2 DEF Leaves, Others
<1>9. ASSUME NEW w \in Workers, Commit(w) PROVE Counted(created)'
  <2>1. Leaves(w) /\ UNCHANGED <<panel, created, wire>>
    BY <1>9, DoneLeaves DEF Commit, Busy
  <2>2. PICK u \in Users : u = worker[w].u
    BY <1>9, JobFacts DEF Commit, Busy
  <2>3. /\ worker[w].seen \in Rows \cup {None} /\ worker[w].want \in Rows \cup {None}
        /\ worker[w].want # None => worker[w].want.uuid <= created[u]
    BY <1>9, <2>2, JobFacts DEF Commit, Busy, Counted
  <2>4. row' = [row EXCEPT ![u] = Merged(row[u], worker[w])] /\ row \in [Users -> Rows \cup {None}]
    BY <1>9, <2>2 DEF Commit, Shaped
  <2>5. Merged(row[u], worker[w]) # None => Merged(row[u], worker[w]).uuid <= created[u]
    <3>1. row[u] \in Rows \cup {None} /\ (row[u] # None => row[u].uuid <= created[u])
      BY UserFacts DEF Counted
    <3> QED BY <2>3, <3>1, MergedRow
  <2>6. \A v \in Users : row'[v] = row[v] \/ (row'[v] # None => row'[v].uuid <= created'[v])
    BY <2>1, <2>4, <2>5
  <2> QED BY <1>0, <2>1, <2>6, NumbersKept DEF Leaves, Others
<1>10. ASSUME NEW w \in Workers, Abandon(w) PROVE Counted(created)'
  <2>1. worker[w].pc = "calling" /\ worker[w].pc \in Busy /\ Drop(w) /\ UNCHANGED <<created, row, panel>>
    BY <1>10 DEF Abandon, Busy
  <2>2. Leaves(w)
    BY <2>1, DropLeaves
  <2> DEFINE m == [u |-> worker[w].u, kind |-> worker[w].kind, uuid |-> worker[w].uuid,
                   seen |-> worker[w].seen]
  <2>3. wire' = wire \cup {m}
    BY <1>10 DEF Abandon
  <2>4. Numbered(created', m)
    BY <2>1 DEF Numbered, Counted
  <2> HIDE DEF m
  <2> QED BY <1>0, <2>1, <2>2, <2>3, <2>4, NumbersKept DEF Leaves, Others
<1>11. ASSUME NEW m \in wire, LandLate(m) PROVE Counted(created)'
  <2>1. m.u \in Users /\ m.kind \in AllKinds /\ m.seen \in Rows \cup {None} /\ Numbered(created, m)
    BY DEF Shaped, Requests, Counted
  <2>2. PICK o \in Outcomes(m, m.seen, panel[m.u]) : Settle(m.u, o.panel)
    BY <1>11 DEF LandLate
  <2>3. Settled(m.u, o.panel)
    BY <2>1, <2>2, OutcomeShapes, SettleFits
  <2>4. UNCHANGED <<row, worker>> /\ wire' \subseteq wire
    BY <1>11 DEF LandLate
  <2> QED BY <1>6, <2>1, <2>3, <2>4, NumbersKept
<1>12. ASSUME NEW u \in Users, LeaseEnds(u) PROVE Counted(created)'
  <2>1. PICK v \in Workers : LosesLease(v, u)
    BY <1>12, LeaseLost
  <2>2. Numbered(created', worker'[v])
        /\ (worker'[v].pc = "landed" /\ worker'[v].want # None => worker'[v].want.uuid <= created'[worker'[v].u])
    BY <1>12, <2>1 DEF LosesLease, LeaseEnds, Numbered, Counted
  <2> QED BY <1>0, <1>12, <2>1, <2>2, NumbersKept DEF LosesLease, LeaseEnds, Others
<1>13. ASSUME NEW u \in Users, PanelExpires(u) PROVE Counted(created)'
  <2>1. panel[u] \in Profiles /\ panel[u].uuid <= created[u]
    BY <1>13, UserFacts DEF PanelExpires, Counted
  <2>2. [panel[u] EXCEPT !.status = "EXPIRED"].uuid = panel[u].uuid
    BY <2>1 DEF Profiles
  <2>3. \A v \in Users : panel'[v] = panel[v] \/ (panel'[v] # None => panel'[v].uuid <= created'[v])
    BY <1>13, <2>1, <2>2 DEF PanelExpires, Shaped
  <2> QED BY <1>0, <1>13, <2>3, NumbersKept DEF PanelExpires
<1>14. ASSUME NEW u \in Users, PanelEdits(u) PROVE Counted(created)'
  <2>1. panel[u] \in Profiles
    BY <1>14, UserFacts DEF PanelEdits
  <2>2. [panel[u] EXCEPT !.status = "DISABLED"] \in Profiles
    BY <2>1 DEF Profiles, Statuses
  <2>3. PICK after \in Profiles \cup {None} : Settle(u, after)
    BY <1>14, <2>2 DEF PanelEdits
  <2>4. Settled(u, after)
    BY <2>3, SettleFits
  <2> QED BY <1>6, <1>14, <2>4, NumbersKept DEF PanelEdits
<1>15. CASE UNCHANGED vars \/ Tick \/ \E u \in Users : \E e \in notices[u] : Ignore(u, e)
  BY <1>1, <1>15 DEF vars, Tick, Ignore
<1> QED BY <1>3, <1>4, <1>5, <1>7, <1>8, <1>9, <1>10, <1>11, <1>12, <1>13, <1>14, <1>15 DEF Next

-----------------------------------------------------------------------------
(* Every step keeps the lock and the lease together.                       *)

LEMMA LeavesLocked ==
  ASSUME Locked, NEW w \in Workers, Leaves(w)
  PROVE  Locked'
BY MutationConstants DEF Locked, Holder, At, Leaves, Others

LEMMA BeginsLocked ==
  ASSUME Shaped, Locked, NEW w \in Workers, worker[w].pc \notin Busy, NEW u \in Users, NEW kind, NEW i,
         Begins(w, u, kind, i)
  PROVE  Locked'
<1>1. lock' = [lock EXCEPT ![u] = w] /\ lock \in [Users -> Workers \cup {None}] /\ lock[u] = None
      /\ worker'[w].pc = "calling" /\ worker'[w].u = u /\ worker'[w].lease /\ Others(w)
  BY DEF Begins, Shaped
<1>2. \A x \in Users : lock[x] # w
  BY DEF Locked, Holder, At
<1>3. \A v \in Workers : lock[u] # v
  BY <1>1, MutationConstants
<1> QED BY <1>1, <1>2, <1>3 DEF Locked, Holder, At, Busy, Others

LEMMA LockStep ==
  ASSUME Shaped, Counted(created), Locked, [Next]_vars
  PROVE  Locked'
<1>1. CASE UNCHANGED <<lock, worker>>
  BY <1>1 DEF Locked, Holder, At
<1>2. ASSUME NEW w \in Workers, NEW u \in Users, NEW kind \in Kinds, Call(w, u, kind) PROVE Locked'
  <2>1. kind \in AllKinds /\ 0 \in 0 .. MaxUuid
    BY MutationConstants DEF AllKinds, UseCases
  <2> QED BY <1>2, <2>1, HoldBegins, BeginsLocked DEF Call, Busy
<1>3. ASSUME NEW w \in Workers, NEW u \in Users, NEW e \in notices[u], Deliver(w, u, e) PROVE Locked'
  <2>1. e \in Events
    BY UserFacts
  <2>2. e.event \in AllKinds /\ e.uuid \in 0 .. MaxUuid
    BY <2>1, MutationConstants DEF Events, AllKinds
  <2> QED BY <1>3, <2>2, HoldBegins, BeginsLocked DEF Deliver, Busy
<1>4. ASSUME NEW w \in Workers, Continue(w) PROVE Locked'
  <2>1. worker[w].u \in Users /\ worker[w].uuid \in 0 .. MaxUuid /\ "GRACE" \in AllKinds
    BY <1>4, JobFacts, MutationConstants DEF Continue, AllKinds
  <2> QED BY <1>4, <2>1, HoldBegins, BeginsLocked DEF Continue, Busy
<1>5. ASSUME NEW w \in Workers, Land(w) PROVE Locked'
  <2>1. worker[w].pc = "calling" /\ worker[w].u \in Users /\ worker[w].kind \in AllKinds
        /\ worker[w].seen \in Rows \cup {None} /\ Numbered(created, worker[w])
    BY <1>5, JobFacts DEF Land, Busy, Counted
  <2>2. PICK o \in Outcomes(worker[w], worker[w].seen, panel[worker[w].u]) :
          worker' = [worker EXCEPT ![w] =
               [pc |-> "landed", u |-> worker[w].u, kind |-> worker[w].kind, uuid |-> worker[w].uuid,
                seen |-> worker[w].seen, lease |-> worker[w].lease, want |-> o.row]]
    BY <1>5 DEF Land
  <2>3. Lands(w, o)
    BY <2>1, <2>2, OutcomeShapes, LandLands
  <2> QED BY <1>5, <2>1, <2>3 DEF Land, Lands, Locked, Holder, At, Busy, Others
<1>6. ASSUME NEW w \in Workers,
             Refuse(w) \/ Commit(w) \/ Reject(w) \/ Fail(w) \/ Abandon(w) \/ RollBack(w)
      PROVE  Locked'
  <2>1. worker[w].pc \in Busy /\ (Done(w) \/ Drop(w))
    BY <1>6 DEF Refuse, Commit, Reject, Fail, Abandon, RollBack, Busy
  <2> QED BY <2>1, DoneLeaves, DropLeaves, LeavesLocked
<1>7. ASSUME NEW u \in Users, LeaseEnds(u) PROVE Locked'
  <2>1. PICK v \in Workers : LosesLease(v, u)
    BY <1>7, LeaseLost
  <2>2. lock \in [Users -> Workers \cup {None}]
    BY DEF Shaped
  <2> QED BY <2>1, <2>2, MutationConstants DEF LosesLease, Others, Locked, Holder, At
<1>8. CASE UNCHANGED vars \/ Tick \/ (\E m \in wire : LandLate(m))
           \/ (\E u \in Users : PanelExpires(u) \/ PanelEdits(u))
           \/ \E u \in Users : \E e \in notices[u] : Ignore(u, e)
  BY <1>1, <1>8 DEF vars, Tick, LandLate, PanelExpires, PanelEdits, Ignore
<1> QED BY <1>2, <1>3, <1>4, <1>5, <1>6, <1>7, <1>8 DEF Next

-----------------------------------------------------------------------------
(* What a step may do to a user without making him disagree.               *)

\* A note that does not explain how the row s and the panel user p differ.
Stale(e, s, p) ==
  \/ s = None \/ s.uuid # e.uuid
  \/ e.event # "DELETED" /\ (p = None \/ p.uuid # e.uuid)

\* The panel user p becomes q, and the panel says so.
Moves(p, q, news) ==
  \/ p = None \/ q = p
  \/ IF q = None THEN [event |-> "DELETED", uuid |-> p.uuid] \in news
     ELSE q.uuid = p.uuid /\ Updated(p.uuid, news)

\* What agrees with the panel goes on to do so when the clock moves.
Lasting == \A s : \A p \in Profiles : Same(s, p) => Same(s, p)'

LEMMA TimeLasts ==
  ASSUME Shaped, [Next]_vars
  PROVE  Lasting /\ late \subseteq late'
<1>1. ASSUME NEW w \in Workers
      PROVE  Continue(w) \/ Land(w) \/ Refuse(w) \/ Commit(w) \/ Reject(w) \/ Fail(w) \/ Abandon(w)
             \/ RollBack(w) => today' = today /\ late \subseteq late'
  BY DEF Continue, Hold, Land, Refuse, Commit, Reject, Fail, Abandon, RollBack, With
<1>2. ASSUME NEW w \in Workers, NEW u \in Users
      PROVE  /\ \A kind \in Kinds : Call(w, u, kind) => today' = today /\ late \subseteq late'
             /\ \A e \in notices[u] : Deliver(w, u, e) => today' = today /\ late \subseteq late'
  BY DEF Call, Deliver, Hold
<1>3. ASSUME NEW u \in Users
      PROVE  /\ \A e \in notices[u] : Ignore(u, e) => today' = today /\ late \subseteq late'
             /\ LeaseEnds(u) \/ PanelExpires(u) \/ PanelEdits(u) => today' = today /\ late \subseteq late'
  BY DEF Ignore, LeaseEnds, PanelExpires, PanelEdits
<1>4. ASSUME NEW m \in wire, LandLate(m) PROVE today' = today /\ late \subseteq late'
  BY <1>4 DEF LandLate, With
<1>5. UNCHANGED vars \/ Tick => (today' = today \/ today' = today + 1) /\ late \subseteq late'
  BY DEF vars, Tick
<1>6. (today' = today \/ today' = today + 1) /\ late \subseteq late'
  BY <1>1, <1>2, <1>3, <1>4, <1>5 DEF Next
<1>7. ASSUME NEW i \in Nat, i <= today PROVE i <= today'
  <2>1. today \in Nat
    BY MutationConstants DEF Shaped
  <2> QED BY <1>6, <1>7, <2>1
<1>8. ASSUME NEW s, NEW p \in Profiles, Same(s, p) PROVE Same(s, p)'
  <2>1. p.expire \in Nat
    BY ProfileFields
  <2>2. Over(p.expire) => Over(p.expire)'
    BY <1>7, <2>1 DEF Over
  <2> QED BY <1>8, <2>2 DEF Same
<1> QED BY <1>6, <1>8 DEF Lasting

LEMMA AgreeMoves ==
  ASSUME Lasting, NEW s, NEW p \in Profiles \cup {None}, NEW q, NEW N, NEW K, NEW M,
         Agreeing(s, p, N), \A e \in N : e \in M \/ Stale(e, s, p), Moves(p, q, K), K \subseteq M
  PROVE  s # None =>
           \/ [event |-> "DELETED", uuid |-> s.uuid] \in M
           \/ q # None /\ q.uuid = s.uuid /\ (Same(s, q)' \/ Updated(q.uuid, M))
<1> DEFINE gone == [event |-> "DELETED", uuid |-> s.uuid]
<1> SUFFICES ASSUME s # None, gone \notin M
             PROVE  q # None /\ q.uuid = s.uuid /\ (Same(s, q)' \/ Updated(q.uuid, M))
  OBVIOUS
<1>1. gone \notin N
  BY DEF Stale
<1>2. p # None /\ p.uuid = s.uuid /\ (Same(s, p) \/ Updated(p.uuid, N))
  BY <1>1 DEF Agreeing
<1>3. CASE q = p
  <2>1. Same(s, p) => Same(s, p)'
    BY <1>2 DEF Lasting
  <2>2. Updated(p.uuid, N) => Updated(p.uuid, M)
    BY <1>2 DEF Updated, Updates, Stale
  <2> QED BY <1>2, <1>3, <2>1, <2>2
<1>4. CASE q # p
  <2>1. q # None /\ q.uuid = p.uuid /\ Updated(p.uuid, K)
    BY <1>2, <1>4 DEF Moves
  <2>2. Updated(p.uuid, M)
    BY <2>1 DEF Updated
  <2> QED BY <1>2, <2>1, <2>2
<1> QED BY <1>3, <1>4

LEMMA AnnouncedMoves ==
  ASSUME NEW p, NEW q, p # None /\ q # None => q.uuid = p.uuid, NEW M, Announced(p, q) \subseteq M
  PROVE  Moves(p, q, M)
<1> SUFFICES ASSUME p # None, q # p PROVE Moves(p, q, M)
  BY DEF Moves
<1>1. CASE q = None
  BY <1>1 DEF Announced, Moves
<1>2. CASE q # None
  <2>1. PICK k \in {"STATUS", "MODIFIED"} : [event |-> k, uuid |-> p.uuid] \in M
    BY <1>2 DEF Announced
  <2> QED BY <1>2, <2>1 DEF Moves, Updated, Updates
<1> QED BY <1>1, <1>2

\* The row stays, the panel announces what it changes, and only stale notes are lost.
LEMMA Steady ==
  ASSUME Shaped, Lasting, late \subseteq late', NEW u \in Users, WholeOK(u), row'[u] = row[u],
         Moves(panel[u], panel'[u], notices'[u]),
         panel'[u] # None /\ u \notin late' =>
           panel[u] # None /\ panel'[u].expire = panel[u].expire,
         \A w \in Workers : Holder(w, u)' => \/ worker'[w] = worker[w]
                                             \/ worker'[w].pc = "calling" /\ worker'[w].seen = row[u],
         \A e \in News(u, Workers) : e \in News(u, Workers)' \/ Stale(e, row[u], panel[u]),
         \A w \in Workers : Holder(w, u)' /\ worker'[w] = worker[w] /\ worker[w].pc = "landed" =>
           \A e \in News(u, Workers \ {w}) :
             e \in News(u, Workers \ {w})' \/ Stale(e, worker[w].want, panel[u])
  PROVE  WholeOK(u)'
<1>1. panel[u] \in Profiles \cup {None} /\ \A W : notices'[u] \subseteq News(u, W)'
  BY UserFacts DEF News
<1>2. ~Tried(row[u])'
  BY DEF WholeOK, Tried
<1>3. Agreeing(row[u], panel[u], News(u, Workers))'
  <2>1. Agreeing(row[u], panel[u], News(u, Workers))
    BY DEF WholeOK
  <2> DEFINE s == row[u]  p == panel[u]  q == panel'[u]  N == News(u, Workers)
             M == News(u, Workers)'  K == notices'[u]
  <2>2. Agreeing(s, p, N) /\ Moves(p, q, K) /\ K \subseteq M /\ p \in Profiles \cup {None}
        /\ \A e \in N : e \in M \/ Stale(e, s, p)
    BY <1>1, <2>1
  <2> QED BY <2>2, AgreeMoves DEF Agreeing, Same, Over
<1>4. ASSUME NEW w \in Workers, Holder(w, u)' PROVE HolderOK(w, u)'
  <2>1. CASE worker'[w].pc = "calling" /\ worker'[w].seen = row[u]
    BY <2>1 DEF HolderOK
  <2>2. CASE worker'[w] = worker[w]
    <3>1. Holder(w, u)
      BY <1>4, <2>2 DEF Holder, At
    <3>2. worker[w].seen = row[u]
      BY <3>1 DEF WholeOK, HolderOK
    <3>3. ASSUME worker[w].pc = "landed"
          PROVE  Prepared(u, worker[w], panel[u], News(u, Workers \ {w}))'
      <4>1. Prepared(u, worker[w], panel[u], News(u, Workers \ {w}))
        BY <3>1, <3>3 DEF WholeOK, HolderOK
      <4>2. \A e \in News(u, Workers \ {w}) :
              e \in News(u, Workers \ {w})' \/ Stale(e, worker[w].want, panel[u])
        BY <1>4, <2>2, <3>3
      <4>3. Agreeing(worker[w].want, panel[u], News(u, Workers \ {w}))'
        <5>1. PICK s, p, q : /\ s = worker[w].want /\ s = worker'[w].want
                             /\ p = panel[u] /\ q = panel'[u]
          BY <2>2
        <5>2. PICK N, M, K : /\ N = News(u, Workers \ {w}) /\ M = News(u, Workers \ {w})'
                             /\ K = notices'[u]
          OBVIOUS
        <5>3. Agreeing(s, p, N) /\ Moves(p, q, K) /\ K \subseteq M /\ p \in Profiles \cup {None}
              /\ \A e \in N : e \in M \/ Stale(e, s, p)
          BY <1>1, <4>1, <4>2, <5>1, <5>2 DEF Prepared
        <5>4. s # None =>
                \/ [event |-> "DELETED", uuid |-> s.uuid] \in M
                \/ q # None /\ q.uuid = s.uuid /\ (Same(s, q)' \/ Updated(q.uuid, M))
          BY <5>3, AgreeMoves
        <5> QED BY <5>1, <5>2, <5>4 DEF Agreeing, Same, Over
      <4>4. (Tried(worker[w].want) <=> Tried(worker[w].want)')
            /\ (Paid(worker[w].kind, worker[w].seen) <=> Paid(worker[w].kind, worker[w].seen)')
        BY <2>2 DEF Tried, Paid
      <4> QED BY <2>2, <4>1, <4>3, <4>4 DEF Prepared
    <3> QED BY <2>2, <3>2, <3>3 DEF HolderOK
  <2> QED BY <1>4, <2>1, <2>2
<1>5. \A w \in Workers : HolderOK(w, u)'
  BY <1>4 DEF HolderOK
<1> QED BY <1>2, <1>3, <1>5 DEF WholeOK

\* Nobody stops working on the user, and he loses no webhook.
LEMMA Going ==
  ASSUME Shaped, Lasting, late \subseteq late', NEW u \in Users, WholeOK(u), row'[u] = row[u],
         notices[u] \subseteq notices'[u],
         Moves(panel[u], panel'[u], notices'[u]),
         panel'[u] # None /\ u \notin late' =>
           panel[u] # None /\ panel'[u].expire = panel[u].expire,
         \A v \in Workers : \/ worker'[v] = worker[v]
                            \/ ~At(v, u) /\ ~At(v, u)'
                            \/ ~Holder(v, u)' /\ (Bears(v, u) => Bears(v, u)') /\ Note(v)' = Note(v)
  PROVE  WholeOK(u)'
<1>1. ASSUME NEW v \in Workers PROVE /\ Holder(v, u)' => worker'[v] = worker[v]
                                     /\ Bears(v, u) => Bears(v, u)' /\ Note(v)' = Note(v)
  BY DEF Holder, Bears, Note, At
<1>2. ASSUME NEW W \in SUBSET Workers, NEW e \in News(u, W) PROVE e \in News(u, W)'
  BY <1>1, <1>2 DEF News
<1> QED BY <1>1, <1>2, Steady

\* Nothing happens to the user.
LEMMA Calm ==
  ASSUME Shaped, Lasting, late \subseteq late', NEW u \in Users, WholeOK(u), row'[u] = row[u],
         panel'[u] = panel[u], notices'[u] = notices[u],
         \A v \in Workers : worker'[v] = worker[v] \/ (~At(v, u) /\ ~At(v, u)')
  PROVE  WholeOK(u)'
BY Going DEF Moves

\* An execution ends without a commit, and what it was to work in waits again or is
\* about a panel user that is no more.
LEMMA LeaveWhole ==
  ASSUME Shaped, Lasting, late \subseteq late', NEW u \in Users, WholeOK(u), row'[u] = row[u],
         panel'[u] = panel[u], notices[u] \subseteq notices'[u], NEW w \in Workers, Leaves(w),
         Bears(w, u) => \/ Note(w) \in notices'[u]
                        \/ worker[w].kind # "DELETED" /\ (panel[u] = None \/ panel[u].uuid # worker[w].uuid)
  PROVE  WholeOK(u)'
<1>1. ASSUME NEW v \in Workers, v # w PROVE worker'[v] = worker[v] /\ (Bears(v, u) => Bears(v, u)')
                                            /\ Note(v)' = Note(v)
  BY <1>1 DEF Leaves, Others, Bears, Note, At
<1>2. ASSUME NEW W \in SUBSET Workers, NEW e \in News(u, W)
      PROVE  e \in News(u, W)' \/ \A s : Stale(e, s, panel[u])
  <2>1. CASE e \in notices[u]
    BY <2>1 DEF News
  <2>2. ASSUME NEW v \in W, v # w, Bears(v, u), e = Note(v) PROVE e \in News(u, W)'
    BY <1>1, <2>2 DEF News
  <2>3. CASE Bears(w, u) /\ e = Note(w)
    <3>1. CASE Note(w) \in notices'[u]
      BY <2>3, <3>1 DEF News
    <3>2. CASE worker[w].kind # "DELETED" /\ (panel[u] = None \/ panel[u].uuid # worker[w].uuid)
      BY <2>3, <3>2 DEF Stale, Note
    <3> QED BY <2>3, <3>1, <3>2
  <2> QED BY <1>2, <2>1, <2>2, <2>3 DEF News
<1>3. \A v \in Workers : Holder(v, u)' => worker'[v] = worker[v]
  BY <1>1 DEF Leaves, Holder, At
<1>4. Moves(panel[u], panel'[u], notices'[u])
  BY DEF Moves
<1> QED BY <1>2, <1>3, <1>4, Steady

-----------------------------------------------------------------------------
(* Every step keeps a user whole, unless a mutation of his is torn.        *)

\* An execution takes the lock: nobody else has a lease.
LEMMA BeginWhole ==
  ASSUME Shaped, Locked, Lasting, late \subseteq late', NEW u \in Users, WholeOK(u),
         row'[u] = row[u], panel'[u] = panel[u],
         NEW w \in Workers, worker[w].pc \notin Busy, NEW kind, NEW i, Begins(w, u, kind, i),
         \A e \in notices[u] :
           e \in notices'[u] \/ (e.event \in Webhooks /\ e = [event |-> kind, uuid |-> i])
  PROVE  WholeOK(u)'
<1>1. /\ worker'[w].pc = "calling" /\ worker'[w].u = u /\ worker'[w].kind = kind
      /\ worker'[w].uuid = i /\ worker'[w].seen = row[u] /\ lock[u] = None
  BY DEF Begins
<1>2. ASSUME NEW v \in Workers, v # w PROVE worker'[v] = worker[v] /\ (Bears(v, u) => Bears(v, u)')
                                            /\ Note(v)' = Note(v)
  BY <1>2 DEF Begins, Others, Bears, Note, At
<1>3. ASSUME NEW v \in Workers, Holder(v, u)' PROVE v = w
  <2>1. ~Holder(v, u)
    BY <1>1, MutationConstants DEF Locked
  <2> QED BY <1>2, <1>3, <2>1 DEF Holder, At
<1>4. Moves(panel[u], panel'[u], notices'[u])
  BY DEF Moves
<1>5. ASSUME NEW e \in News(u, Workers)
      PROVE  e \in News(u, Workers)' \/ Stale(e, row[u], panel[u])
  <2>1. CASE e \in notices'[u]
    BY <2>1 DEF News
  <2>2. CASE e.event \in Webhooks /\ e = [event |-> kind, uuid |-> i]
    <3>1. e = Note(w)' /\ e.event = kind /\ e.uuid = i
      BY <1>1, <2>2 DEF Note
    <3>2. CASE Bears(w, u)'
      BY <3>1, <3>2 DEF News
    <3>3. CASE ~Bears(w, u)'
      <4>1. kind = "DELETED" /\ (row[u] = None \/ row[u].uuid # i)
        BY <1>1, <2>2, <3>1, <3>3 DEF Bears, At, Busy
      <4> QED BY <3>1, <4>1 DEF Stale
    <3> QED BY <3>2, <3>3
  <2>3. ASSUME NEW v \in Workers, Bears(v, u), e = Note(v) PROVE e \in News(u, Workers)'
    <3>1. v # w
      BY <2>3 DEF Bears, At
    <3> QED BY <1>2, <2>3, <3>1 DEF News
  <2> QED BY <2>1, <2>2, <2>3 DEF News
<1> QED BY <1>1, <1>3, <1>4, <1>5, Steady

\* A mutation that commits under its lease stores what it meant to.
LEMMA CommitsWant ==
  ASSUME Shaped, NEW w \in Workers, Commit(w), WholeOK(worker[w].u), worker[w].u \notin torn'
  PROVE  /\ worker[w].u \in Users /\ worker[w].pc = "landed" /\ Holder(w, worker[w].u)
         /\ worker[w].seen = row[worker[w].u] /\ row'[worker[w].u] = worker[w].want
         /\ Prepared(worker[w].u, worker[w], panel[worker[w].u], News(worker[w].u, Workers \ {w}))
<1>1. /\ worker[w].pc = "landed" /\ worker[w].u \in Users
      /\ worker[w].seen \in Rows \cup {None} /\ worker[w].want \in Rows \cup {None}
  BY JobFacts DEF Commit, Busy
<1>2. worker[w].lease
  BY DEF Commit, With
<1>3. Holder(w, worker[w].u)
  BY <1>1, <1>2 DEF Holder, At, Busy
<1>4. worker[w].seen = row[worker[w].u]
      /\ Prepared(worker[w].u, worker[w], panel[worker[w].u], News(worker[w].u, Workers \ {w}))
  BY <1>1, <1>3 DEF WholeOK, HolderOK
<1>5. row' = [row EXCEPT ![worker[w].u] = Merged(row[worker[w].u], worker[w])]
  BY DEF Commit
<1>6. Merged(row[worker[w].u], worker[w]) = worker[w].want
  BY <1>1, <1>4, UserFacts, MergedRow
<1>7. row'[worker[w].u] = worker[w].want
  BY <1>1, <1>5, <1>6 DEF Shaped
<1> QED BY <1>1, <1>3, <1>4, <1>7

LEMMA CommitWhole ==
  ASSUME Shaped, Counted(created), Locked, NEW w \in Workers, Commit(w),
         NEW u, u = worker[w].u, WholeOK(u), u \notin torn'
  PROVE  WholeOK(u)'
<1>1. /\ worker[w].pc = "landed" /\ Holder(w, u) /\ row'[u] = worker[w].want
      /\ Prepared(u, worker[w], panel[u], News(u, Workers \ {w}))
  BY CommitsWant
<1>2. Leaves(w) /\ panel' = panel /\ notices' = notices /\ today' = today
  BY <1>1, DoneLeaves DEF Commit, Busy
<1>3. ASSUME NEW v \in Workers, v # w PROVE worker'[v] = worker[v] /\ (Bears(v, u) => Bears(v, u)')
                                            /\ Note(v)' = Note(v)
  BY <1>2, <1>3 DEF Leaves, Others, Bears, Note, At
<1>4. ~Tried(row[u])'
  BY <1>1 DEF Prepared, Tried
<1>5. Agreeing(row[u], panel[u], News(u, Workers))'
  <2>1. News(u, Workers \ {w}) \subseteq News(u, Workers)'
    BY <1>2, <1>3 DEF News
  <2>2. Agreeing(worker[w].want, panel[u], News(u, Workers)')
    BY <1>1, <2>1 DEF Prepared, Agreeing, Updated
  <2> QED BY <1>1, <1>2, <2>2 DEF Agreeing, Same, Over
<1>6. ASSUME NEW v \in Workers PROVE ~Holder(v, u)'
  <2>1. Holder(v, u) => v = w
    <3>1. u \in Users
      BY CommitsWant
    <3> QED BY <1>1, <3>1, MutationConstants DEF Locked
  <2> QED BY <1>2, <1>3, <2>1 DEF Leaves, Holder, At
<1>7. \A v \in Workers : HolderOK(v, u)'
  BY <1>6 DEF HolderOK
<1> QED BY <1>4, <1>5, <1>7 DEF WholeOK

\* What a use case does under its lease: facts of OutcomeFits about its outcome o.
Sound(j, s, p, o) ==
  /\ Tried(o.row) => Tried(s)
  /\ Paired(s, p, o)
  /\ j.kind = "DELETED" => o.row = None
  /\ j.kind \in Updates => o.panel = p /\ Same(o.row, p)
  /\ Paid(j.kind, s) => /\ o.row # None /\ o.row.expire >= s.expire + Days
                        /\ o.panel # None /\ o.panel.expire = o.row.expire

\* What it will commit agrees with the panel as it left it.
LEMMA OutcomeAgrees ==
  ASSUME NEW j, NEW s, NEW p, NEW o, Sound(j, s, p, o), NEW N, NEW M, Agreeing(s, p, N),
         Announced(p, o.panel) \subseteq M,
         \A e \in N : e \in M \/ e = [event |-> j.kind, uuid |-> j.uuid]
  PROVE  Agreeing(o.row, o.panel, M)
<1> SUFFICES ASSUME o.row # None PROVE Agreeing(o.row, o.panel, M)
  BY DEF Agreeing
<1>1. j.kind # "DELETED"
  BY DEF Sound
<1>2. CASE Same(o.row, o.panel)
  BY <1>2 DEF Agreeing, Same
<1>3. CASE p # None /\ o.panel # None /\ o.panel # p /\ o.row.uuid = p.uuid
  <2>1. o.panel.uuid = p.uuid
    BY <1>3 DEF Sound, Paired
  <2>2. Moves(p, o.panel, M)
    BY <1>3, <2>1, AnnouncedMoves
  <2>3. Updated(p.uuid, M)
    BY <1>3, <2>2 DEF Moves
  <2> QED BY <1>3, <2>1, <2>3 DEF Agreeing
<1>4. CASE s # None /\ o.panel = p /\ o.row.uuid = s.uuid /\ (Same(s, p) => Same(o.row, p))
  <2>1. CASE [event |-> "DELETED", uuid |-> s.uuid] \in N
    BY <1>1, <1>4, <2>1 DEF Agreeing
  <2>2. CASE p # None /\ p.uuid = s.uuid /\ (Same(o.row, p) \/ j.kind \in Updates)
    BY <1>4, <2>2 DEF Sound, Agreeing
  <2>3. CASE p # None /\ p.uuid = s.uuid /\ ~Same(o.row, p) /\ j.kind \notin Updates
             /\ Updated(p.uuid, N)
    <3>1. Updated(p.uuid, M)
      BY <2>3 DEF Updated
    <3> QED BY <1>4, <2>3, <3>1 DEF Agreeing
  <2> QED BY <1>4, <2>1, <2>2, <2>3 DEF Agreeing
<1> QED BY <1>2, <1>3, <1>4 DEF Sound, Paired

\* The panel answers an execution that has its lease.
LEMMA LeasedLands ==
  ASSUME Shaped, Lasting, NEW u \in Users, WholeOK(u), NEW w \in Workers, Holder(w, u),
         worker[w].pc = "calling", \A v \in Workers : Holder(v, u) => v = w,
         row'[u] = row[u], today' = today, NEW o, Lands(w, o), panel'[u] = o.panel,
         notices'[u] = notices[u] \cup Announced(panel[u], o.panel),
         Sound(worker[w], row[u], panel[u], o)
  PROVE  WholeOK(u)'
<1> DEFINE s == row[u]  p == panel[u]  q == o.panel
           N == News(u, Workers)  M == News(u, Workers \ {w})'
<1>1. /\ worker[w].seen = s /\ worker[w].u = u
      /\ worker'[w].pc = "landed" /\ worker'[w].u = u /\ worker'[w].kind = worker[w].kind
      /\ worker'[w].uuid = worker[w].uuid /\ worker'[w].seen = s /\ worker'[w].want = o.row
  BY DEF WholeOK, HolderOK, Holder, At, Lands
<1>2. ASSUME NEW v \in Workers, v # w PROVE worker'[v] = worker[v] /\ (Bears(v, u) => Bears(v, u)')
                                            /\ Note(v)' = Note(v)
  BY <1>2 DEF Lands, Others, Bears, Note, At
<1>3. ~Tried(s) /\ ~Tried(row[u])' /\ Agreeing(s, p, N)
  BY DEF WholeOK, Tried
<1>4. ASSUME NEW e \in N PROVE e \in M \/ e = Note(w)
  BY <1>2 DEF News
<1>5. Bears(w, u) => Bears(w, u)' /\ Note(w)' = Note(w)
  BY <1>1 DEF Bears, At, Note, Busy
<1>6. N \subseteq News(u, Workers)'
  BY <1>2, <1>5 DEF News
<1>7. notices'[u] \subseteq M /\ notices'[u] \subseteq News(u, Workers)'
  BY DEF News
<1>8. Agreeing(o.row, q, M)
  <2>1. Announced(p, q) \subseteq M
    BY <1>7
  <2>2. \A e \in N : e \in M \/ e = [event |-> worker[w].kind, uuid |-> worker[w].uuid]
    BY <1>4 DEF Note
  <2> HIDE DEF M, N, q, s, p
  <2> QED BY <1>3, <2>1, <2>2, OutcomeAgrees DEF s, p, q
<1>9. Prepared(u, worker[w], panel[u], News(u, Workers \ {w}))'
  <2>1. ~Tried(o.row) /\ (Paid(worker[w].kind, s) => /\ o.row # None /\ o.row.expire >= s.expire + Days
                                                     /\ q.expire = o.row.expire)
    BY <1>3 DEF Sound
  <2>2. Agreeing(worker[w].want, panel[u], News(u, Workers \ {w}))'
    BY <1>1, <1>8 DEF Agreeing, Same, Over
  <2>3. ~Tried(worker[w].want)'
    BY <1>1, <2>1 DEF Tried
  <2>4. Paid(worker[w].kind, worker[w].seen)' => Paid(worker[w].kind, s)
    BY <1>1 DEF Paid
  <2> QED BY <1>1, <2>1, <2>2, <2>3, <2>4 DEF Prepared
<1>10. Agreeing(row[u], panel[u], News(u, Workers))'
  <2>1. PICK a, b, c : a = s /\ b = p /\ c = q /\ c = panel'[u] /\ a = row'[u]
    OBVIOUS
  <2>2. PICK V, K, W : V = N /\ K = notices'[u] /\ W = News(u, Workers)'
    OBVIOUS
  <2>3. b # None /\ c # None => c.uuid = b.uuid
    BY <2>1 DEF Sound, Paired
  <2>4. Announced(b, c) \subseteq K
    BY <2>1, <2>2
  <2>5. Agreeing(a, b, V) /\ Moves(b, c, K) /\ K \subseteq W /\ b \in Profiles \cup {None}
        /\ \A e \in V : e \in W \/ Stale(e, a, b)
    BY <1>3, <1>6, <1>7, <2>1, <2>2, <2>3, <2>4, AnnouncedMoves, UserFacts
  <2>6. a # None =>
          \/ [event |-> "DELETED", uuid |-> a.uuid] \in W
          \/ c # None /\ c.uuid = a.uuid /\ (Same(a, c)' \/ Updated(c.uuid, W))
    BY <2>5, AgreeMoves
  <2> QED BY <2>1, <2>2, <2>6 DEF Agreeing, Same, Over
<1>11. ASSUME NEW v \in Workers, Holder(v, u)' PROVE HolderOK(v, u)'
  <2>1. v = w
    <3>1. v # w => Holder(v, u)
      BY <1>2, <1>11 DEF Holder, At
    <3> QED BY <3>1
  <2> QED BY <1>1, <1>9, <2>1 DEF HolderOK
<1>12. \A v \in Workers : HolderOK(v, u)'
  BY <1>11 DEF HolderOK
<1> QED BY <1>3, <1>10, <1>12 DEF WholeOK

LEMMA WholeStep ==
  ASSUME Shaped, Shaped', Counted(created), Locked, [Next]_vars,
         NEW u \in Users, u \notin torn', WholeOK(u)
  PROVE  WholeOK(u)'
<1>0. Lasting /\ late \subseteq late'
  BY TimeLasts
<1>1. ASSUME NEW w \in Workers, worker[w].pc \notin Busy, NEW x \in Users, NEW kind, NEW i,
             Begins(w, x, kind, i), row' = row, panel' = panel,
             \A e \in notices[x] :
               e \in notices'[x] \/ (e.event \in Webhooks /\ e = [event |-> kind, uuid |-> i]),
             \A v \in Users \ {x} : notices'[v] = notices[v]
      PROVE  WholeOK(u)'
  <2>1. CASE x = u
    BY <1>0, <1>1, <2>1, BeginWhole
  <2>2. CASE x # u
    <3>1. ~At(w, u) /\ ~At(w, u)' /\ \A v \in Workers \ {w} : worker'[v] = worker[v]
      BY <1>1, <2>2 DEF At, Begins, Others
    <3> QED BY <1>0, <1>1, <2>2, <3>1, Calm
  <2> QED BY <2>1, <2>2
<1>2. CASE UNCHANGED vars \/ Tick
  <2>1. UNCHANGED <<row, panel, notices, worker>>
    BY <1>2 DEF vars, Tick
  <2> QED BY <1>0, <2>1, Calm
<1>3. ASSUME NEW w \in Workers, NEW x \in Users, NEW kind \in Kinds, Call(w, x, kind) PROVE WholeOK(u)'
  <2>1. kind \in AllKinds /\ 0 \in 0 .. MaxUuid
    BY MutationConstants DEF AllKinds, UseCases
  <2>2. Begins(w, x, kind, 0) /\ worker[w].pc \notin Busy /\ UNCHANGED <<row, panel, notices>>
    BY <1>3, <2>1, HoldBegins DEF Call, Hold, Busy
  <2> QED BY <1>1, <2>2
<1>4. ASSUME NEW w \in Workers, NEW x \in Users, NEW e \in notices[x], Deliver(w, x, e) PROVE WholeOK(u)'
  <2>1. e \in Events
    BY UserFacts
  <2>2. e.event \in AllKinds /\ e.event \in Webhooks /\ e.uuid \in 0 .. MaxUuid
        /\ e = [event |-> e.event, uuid |-> e.uuid]
    BY <2>1, MutationConstants DEF Events, AllKinds
  <2>3. Begins(w, x, e.event, e.uuid) /\ worker[w].pc \notin Busy /\ UNCHANGED <<row, panel>>
    BY <1>4, <2>2, HoldBegins DEF Deliver, Hold, Busy
  <2>4. notices' = [notices EXCEPT ![x] = notices[x] \ {e}] /\ notices \in [Users -> SUBSET Events]
    BY <1>4 DEF Deliver, Shaped
  <2> QED BY <1>1, <2>2, <2>3, <2>4
<1>5. ASSUME NEW w \in Workers, Continue(w) PROVE WholeOK(u)'
  <2>1. worker[w].u \in Users /\ worker[w].uuid \in 0 .. MaxUuid /\ "GRACE" \in AllKinds
    BY <1>5, JobFacts, MutationConstants DEF Continue, AllKinds
  <2>2. Begins(w, worker[w].u, "GRACE", worker[w].uuid) /\ worker[w].pc \notin Busy
        /\ UNCHANGED <<row, panel, notices>>
    BY <1>5, <2>1, HoldBegins DEF Continue, Hold, Busy
  <2> QED BY <1>1, <2>1, <2>2
<1>6. ASSUME NEW x \in Users, NEW e \in notices[x], Ignore(x, e) PROVE WholeOK(u)'
  <2>1. UNCHANGED <<row, panel, worker>> /\ notices' = [notices EXCEPT ![x] = notices[x] \ {e}]
        /\ notices \in [Users -> SUBSET Events]
    BY <1>6 DEF Ignore, Shaped
  <2>2. CASE x # u
    BY <1>0, <2>1, <2>2, Calm
  <2>3. CASE x = u
    <3>1. row[u] = None \/ row[u].uuid # e.uuid
      BY <1>6, <2>3 DEF Ignore, Concerns
    <3>2. \A w \in Workers : worker[w].pc = "landed" /\ worker[w].u = u =>
            worker[w].want = None \/ worker[w].want.uuid # e.uuid
      BY <1>6, <2>3 DEF Ignore, With, Upcoming
    <3>3. \A w \in Workers : Holder(w, u)' => worker[w].u = u
      BY <2>1 DEF Holder, At
    <3>4. \A W \in SUBSET Workers : \A d \in News(u, W) : d \in News(u, W)' \/ d = e
      BY <2>1, <2>3 DEF News, Bears, Note, At
    <3>5. Moves(panel[u], panel'[u], notices'[u]) /\ panel'[u] = panel[u] /\ row'[u] = row[u]
      BY <2>1 DEF Moves
    <3>6. \A d \in News(u, Workers) : d \in News(u, Workers)' \/ Stale(d, row[u], panel[u])
      BY <3>1, <3>4 DEF Stale
    <3>7. \A w \in Workers : Holder(w, u)' /\ worker'[w] = worker[w] /\ worker[w].pc = "landed" =>
            \A d \in News(u, Workers \ {w}) :
              d \in News(u, Workers \ {w})' \/ Stale(d, worker[w].want, panel[u])
      BY <3>2, <3>3, <3>4 DEF Stale
    <3> QED BY <1>0, <2>1, <3>5, <3>6, <3>7, Steady
  <2> QED BY <2>2, <2>3
<1>7. ASSUME NEW w \in Workers, Land(w) PROVE WholeOK(u)'
  <2> DEFINE x == worker[w].u
  <2>1. /\ worker[w].pc = "calling" /\ x \in Users /\ worker[w].kind \in AllKinds
        /\ worker[w].seen \in Rows \cup {None} /\ worker[w].lease \in BOOLEAN
        /\ Numbered(created, worker[w])
    BY <1>7, JobFacts DEF Land, Busy, Counted
  <2>2. PICK o \in Outcomes(worker[w], worker[w].seen, panel[x]) :
          /\ Settle(x, o.panel)
          /\ worker' = [worker EXCEPT ![w] =
               [pc |-> "landed", u |-> worker[w].u, kind |-> worker[w].kind, uuid |-> worker[w].uuid,
                seen |-> worker[w].seen, lease |-> worker[w].lease, want |-> o.row]]
          /\ late' = With(late, x, o.panel # panel[x] /\ ~worker[w].lease)
    BY <1>7 DEF Land
  <2>3. o.row \in Rows \cup {None} /\ o.panel \in Profiles \cup {None}
    BY <2>1, OutcomeShapes
  <2>4. Lands(w, o) /\ Settled(x, o.panel) /\ row' = row /\ today' = today
    <3>1. Lands(w, o)
      BY <2>1, <2>2, <2>3, LandLands
    <3>2. Settled(x, o.panel)
      BY <2>1, <2>2, <2>3, SettleFits
    <3> QED BY <1>7, <3>1, <3>2 DEF Land
  <2>5. \A v \in Workers \ {w} : worker'[v] = worker[v]
    BY <2>4 DEF Lands, Others
  <2>6. CASE x # u
    <3>1. ~At(w, u) /\ ~At(w, u)'
      BY <2>4, <2>6 DEF At, Lands
    <3>2. panel'[u] = panel[u] /\ notices'[u] = notices[u]
      BY <2>4, <2>6 DEF Settled
    <3> QED BY <1>0, <2>4, <2>5, <3>1, <3>2, Calm
  <2>7. Known(created[x], worker[w].seen, panel[x]) /\ created[x] \in Nat
    BY <2>1, SeenKnown, UserFacts DEF Numbered
  <2>8. Sound(worker[w], worker[w].seen, panel[x], o)
    BY <2>1, <2>7, OutcomeFits DEF Sound
  <2>9. CASE x = u /\ ~worker[w].lease
    <3>1. o.panel # panel[u] => u \in late'
      BY <2>2, <2>9 DEF With
    <3>2. panel'[u] = o.panel /\ notices'[u] = notices[u] \cup Announced(panel[u], o.panel)
      BY <2>4, <2>9 DEF Settled
    <3>3. panel[u] # None /\ o.panel # None => o.panel.uuid = panel[u].uuid
      BY <2>8, <2>9 DEF Sound, Paired
    <3>4. Moves(panel[u], panel'[u], notices'[u])
      BY <3>2, <3>3, AnnouncedMoves
    <3>5. ~Holder(w, u)' /\ (Bears(w, u) => Bears(w, u)') /\ Note(w)' = Note(w)
      BY <2>1, <2>4, <2>9 DEF Holder, Bears, Note, At, Lands, Busy
    <3> HIDE DEF x
    <3> QED BY <1>0, <2>4, <2>5, <3>1, <3>2, <3>4, <3>5, Going
  <2>10. CASE x = u /\ worker[w].lease
    <3>1. Holder(w, u)
      BY <2>1, <2>10 DEF Holder, At, Busy
    <3>2. \A v \in Workers : Holder(v, u) => v = w
      BY <3>1 DEF Locked
    <3>3. worker[w].seen = row[u]
      BY <3>1 DEF WholeOK, HolderOK
    <3>4. Sound(worker[w], row[u], panel[u], o)
      BY <2>8, <2>10, <3>3
    <3>5. panel'[u] = o.panel /\ notices'[u] = notices[u] \cup Announced(panel[u], o.panel)
      BY <2>4, <2>10 DEF Settled
    <3> HIDE DEF x
    <3> QED BY <1>0, <2>1, <2>4, <3>1, <3>2, <3>4, <3>5, LeasedLands
  <2> QED BY <2>1, <2>6, <2>9, <2>10
<1>8. ASSUME NEW w \in Workers, Refuse(w) PROVE WholeOK(u)'
  <2>1. /\ worker[w].pc = "calling" /\ worker[w].pc \in Busy /\ Done(w)
        /\ UNCHANGED <<row, panel, notices>>
        /\ Outcomes(worker[w], worker[w].seen, panel[worker[w].u]) = {}
    BY <1>8 DEF Refuse, Busy
  <2>2. Leaves(w)
    BY <2>1, DoneLeaves
  <2>3. Bears(w, u) => worker[w].kind # "DELETED" /\ (panel[u] = None \/ panel[u].uuid # worker[w].uuid)
    <3>1. panel[u] # None => panel[u] \in Profiles
      BY UserFacts
    <3>2. Bears(w, u) => worker[w].u = u /\ worker[w].kind \in Webhooks
                         /\ (worker[w].kind = "DELETED" =>
                               worker[w].seen # None /\ worker[w].seen.uuid = worker[w].uuid)
      BY DEF Bears, At
    <3> QED BY <2>1, <3>1, <3>2, HandlerActs DEF Webhooks, Updates
  <2> QED BY <1>0, <2>1, <2>2, <2>3, LeaveWhole
<1>9. ASSUME NEW w \in Workers, Reject(w) PROVE WholeOK(u)'
  <2>1. /\ worker[w].pc = "landed" /\ worker[w].pc \in Busy /\ Done(w) /\ worker[w].kind = "PROMO"
        /\ UNCHANGED <<row, panel, notices>>
    BY <1>9 DEF Reject, Busy
  <2>2. Leaves(w) /\ ~Bears(w, u)
    BY <2>1, DoneLeaves DEF Bears, Webhooks
  <2> QED BY <1>0, <2>1, <2>2, LeaveWhole
<1>10. ASSUME NEW w \in Workers, Fail(w) \/ Abandon(w) \/ RollBack(w) PROVE WholeOK(u)'
  <2>1. worker[w].pc \in Busy /\ Drop(w) /\ UNCHANGED <<row, panel>>
    BY <1>10 DEF Fail, Abandon, RollBack, Busy
  <2>2. Leaves(w) /\ notices[u] \subseteq notices'[u]
    BY <2>1, DropLeaves
  <2>3. Bears(w, u) => Note(w) \in notices'[u]
    <3>1. Bears(w, u) => worker[w].u = u /\ worker[w].kind \in Webhooks
      BY DEF Bears, At
    <3> QED BY <2>1, <3>1, DropLeaves
  <2> QED BY <1>0, <2>1, <2>2, <2>3, LeaveWhole
<1>11. ASSUME NEW w \in Workers, Commit(w) PROVE WholeOK(u)'
  <2>1. CASE worker[w].u = u
    BY <1>11, <2>1, CommitWhole
  <2>2. CASE worker[w].u # u
    <3>1. worker[w].pc \in Busy /\ Done(w) /\ UNCHANGED <<panel, notices>>
      BY <1>11 DEF Commit, Busy
    <3>2. Leaves(w) /\ ~Bears(w, u)
      BY <2>2, <3>1, DoneLeaves DEF Bears, At
    <3>3. row'[u] = row[u]
      BY <1>11, <2>2 DEF Commit, Shaped
    <3> QED BY <1>0, <3>1, <3>2, <3>3, LeaveWhole
  <2> QED BY <2>1, <2>2
<1>12. ASSUME NEW m \in wire, LandLate(m) PROVE WholeOK(u)'
  <2>1. m.u \in Users /\ m.kind \in AllKinds /\ m.seen \in Rows \cup {None} /\ Numbered(created, m)
    BY DEF Shaped, Requests, Counted
  <2>2. PICK o \in Outcomes(m, m.seen, panel[m.u]) :
          Settle(m.u, o.panel) /\ late' = With(late, m.u, o.panel # panel[m.u])
    BY <1>12 DEF LandLate
  <2>3. Settled(m.u, o.panel) /\ UNCHANGED <<row, worker>>
    BY <1>12, <2>1, <2>2, OutcomeShapes, SettleFits DEF LandLate
  <2>4. CASE m.u # u
    <3>1. panel'[u] = panel[u] /\ notices'[u] = notices[u]
      BY <2>3, <2>4 DEF Settled
    <3> QED BY <1>0, <2>3, <3>1, Calm
  <2>5. CASE m.u = u
    <3>1. Known(created[m.u], m.seen, panel[m.u]) /\ created[m.u] \in Nat
      BY <2>1, SeenKnown, UserFacts DEF Numbered
    <3>2. Paired(m.seen, panel[m.u], o)
      BY <2>1, <3>1, OutcomeFits
    <3>3. panel'[u] = o.panel /\ notices'[u] = notices[u] \cup Announced(panel[u], o.panel)
      BY <2>3, <2>5 DEF Settled
    <3>4. Moves(panel[u], panel'[u], notices'[u])
      BY <2>5, <3>2, <3>3, AnnouncedMoves DEF Paired
    <3>5. o.panel # panel[u] => u \in late'
      BY <2>2, <2>5 DEF With
    <3> QED BY <1>0, <2>3, <3>3, <3>4, <3>5, Going
  <2> QED BY <2>4, <2>5
<1>13. ASSUME NEW x \in Users, LeaseEnds(x) PROVE WholeOK(u)'
  <2>1. PICK v \in Workers : LosesLease(v, x)
    BY <1>13, LeaseLost
  <2>2. UNCHANGED <<row, panel, notices>>
    BY <1>13 DEF LeaseEnds
  <2>3. ~Holder(v, u)' /\ (Bears(v, u) => Bears(v, u)') /\ Note(v)' = Note(v)
    BY <2>1 DEF LosesLease, Bears, Note, Holder, At
  <2>4. \A w \in Workers \ {v} : worker'[w] = worker[w]
    BY <2>1 DEF LosesLease, Others
  <2> QED BY <1>0, <2>2, <2>3, <2>4, Going DEF Moves
<1>14. ASSUME NEW x \in Users, PanelExpires(x) PROVE WholeOK(u)'
  <2> DEFINE a == [panel[x] EXCEPT !.status = "EXPIRED"]
             e == [event |-> "EXPIRED", uuid |-> panel[x].uuid]
  <2>1. panel[x] \in Profiles /\ UNCHANGED <<row, worker>>
    BY <1>14, UserFacts DEF PanelExpires
  <2>2. a.uuid = panel[x].uuid /\ a.expire = panel[x].expire /\ a \in AnyProfile
    <3>1. panel[x] \in AnyProfile
      BY <2>1, ProfileFields
    <3> QED BY <3>1 DEF AnyProfile, Statuses
  <2>3. panel' = [panel EXCEPT ![x] = a] /\ notices' = [notices EXCEPT ![x] = notices[x] \cup {e}]
    BY <1>14 DEF PanelExpires
  <2> HIDE DEF a
  <2>4. CASE x # u
    BY <1>0, <2>1, <2>3, <2>4, Calm DEF Shaped
  <2>5. CASE x = u
    <3>1. panel'[u] = a /\ notices'[u] = notices[u] \cup {e} /\ a # None
      BY <2>2, <2>3, <2>5, Constants DEF Shaped
    <3>2. panel[u] # None
      BY <2>1, <2>5, ProfileFields
    <3>3. Moves(panel[u], panel'[u], notices'[u])
      BY <2>2, <2>5, <3>1 DEF Moves, Updated, Updates, e
    <3> QED BY <1>0, <2>1, <2>2, <2>5, <3>1, <3>2, <3>3, Going
  <2> QED BY <2>4, <2>5
<1>15. ASSUME NEW x \in Users, PanelEdits(x) PROVE WholeOK(u)'
  <2> DEFINE a == [panel[x] EXCEPT !.status = "DISABLED"]
  <2>1. panel[x] \in Profiles /\ panel[x] # None /\ UNCHANGED <<row, worker>>
    BY <1>15, UserFacts DEF PanelEdits
  <2>2. a.uuid = panel[x].uuid /\ a.expire = panel[x].expire /\ a \in Profiles
    BY <2>1 DEF Profiles, Statuses
  <2>3. PICK after \in {None, a} : Settle(x, after)
    BY <1>15 DEF PanelEdits
  <2> HIDE DEF a
  <2>4. Settled(x, after)
    BY <2>2, <2>3, SettleFits
  <2>5. CASE x # u
    <3>1. panel'[u] = panel[u] /\ notices'[u] = notices[u]
      BY <2>4, <2>5 DEF Settled
    <3> QED BY <1>0, <2>1, <3>1, Calm
  <2>6. CASE x = u
    <3>1. panel'[u] = after /\ notices'[u] = notices[u] \cup Announced(panel[u], after)
      BY <2>4, <2>6 DEF Settled
    <3>2. after # None => after.uuid = panel[u].uuid /\ after.expire = panel[u].expire
      BY <2>2, <2>3, <2>6
    <3>3. Moves(panel[u], panel'[u], notices'[u])
      BY <3>1, <3>2, AnnouncedMoves
    <3> QED BY <1>0, <2>1, <2>6, <3>1, <3>2, <3>3, Going
  <2> QED BY <2>5, <2>6
<1> QED BY <1>2, <1>3, <1>4, <1>5, <1>6, <1>7, <1>8, <1>9, <1>10, <1>11, <1>12, <1>13, <1>14, <1>15
        DEF Next

-----------------------------------------------------------------------------
(* What is granted.                                                        *)

\* Nothing is granted, and whoever is about to commit a trial was before.
LEMMA GrantsKept ==
  ASSUME NEW u \in Users, GrantsOK(u), uses'[u] = uses[u], trials'[u] = trials[u],
         trialFree'[u] => trialFree[u], \A w \in Workers : Claims(w, u)' => Claims(w, u)
  PROVE  GrantsOK(u)'
BY DEF GrantsOK

LEMMA GrantsStep ==
  ASSUME Shaped, Counted(created), Locked, [Next]_vars, NEW u \in Users, GrantsOK(u)
  PROVE  GrantsOK(u)'
<1>1. uses[u] \in Nat /\ trials[u] \in Nat
  BY DEF Shaped
<1>2. ASSUME UNCHANGED <<uses, trials, trialFree>>,
             \A v \in Workers : worker'[v] = worker[v] \/ worker'[v].pc # "landed"
      PROVE  GrantsOK(u)'
  BY <1>2, GrantsKept DEF Claims, At
<1>3. ASSUME NEW w \in Workers, NEW x \in Users, NEW kind, NEW i, Begins(w, x, kind, i),
             UNCHANGED <<uses, trials, trialFree>>
      PROVE  GrantsOK(u)'
  BY <1>2, <1>3 DEF Begins, Others
<1>4. ASSUME NEW w \in Workers, NEW x \in Users, NEW kind \in Kinds, Call(w, x, kind) PROVE GrantsOK(u)'
  <2>1. kind \in AllKinds /\ 0 \in 0 .. MaxUuid
    BY MutationConstants DEF AllKinds, UseCases
  <2>2. Hold(w, x, kind, 0) /\ UNCHANGED <<uses, trials, trialFree>>
    BY <1>4 DEF Call, Hold
  <2> QED BY <1>3, <2>1, <2>2, HoldBegins
<1>5. ASSUME NEW w \in Workers, NEW x \in Users, NEW e \in notices[x], Deliver(w, x, e) PROVE GrantsOK(u)'
  <2>1. e \in Events
    BY UserFacts
  <2>2. e.event \in AllKinds /\ e.uuid \in 0 .. MaxUuid
    BY <2>1, MutationConstants DEF Events, AllKinds
  <2>3. Hold(w, x, e.event, e.uuid) /\ UNCHANGED <<uses, trials, trialFree>>
    BY <1>5 DEF Deliver, Hold
  <2> QED BY <1>3, <2>2, <2>3, HoldBegins
<1>6. ASSUME NEW w \in Workers, Continue(w) PROVE GrantsOK(u)'
  <2>1. worker[w].u \in Users /\ worker[w].uuid \in 0 .. MaxUuid /\ "GRACE" \in AllKinds
    BY <1>6, JobFacts, MutationConstants DEF Continue, AllKinds
  <2>2. Hold(w, worker[w].u, "GRACE", worker[w].uuid) /\ UNCHANGED <<uses, trials, trialFree>>
    BY <1>6 DEF Continue, Hold
  <2> QED BY <1>3, <2>1, <2>2, HoldBegins
<1>7. ASSUME NEW w \in Workers, Land(w) PROVE GrantsOK(u)'
  <2>1. /\ worker[w].pc = "calling" /\ worker[w].u \in Users /\ worker[w].kind \in AllKinds
        /\ worker[w].seen \in Rows \cup {None} /\ Numbered(created, worker[w])
    BY <1>7, JobFacts DEF Land, Busy, Counted
  <2>2. PICK o \in Outcomes(worker[w], worker[w].seen, panel[worker[w].u]) :
          worker' = [worker EXCEPT ![w] =
               [pc |-> "landed", u |-> worker[w].u, kind |-> worker[w].kind, uuid |-> worker[w].uuid,
                seen |-> worker[w].seen, lease |-> worker[w].lease, want |-> o.row]]
    BY <1>7 DEF Land
  <2>3. Lands(w, o)
    BY <2>1, <2>2, OutcomeShapes, LandLands
  <2>4. UNCHANGED <<uses, trials, trialFree>>
    BY <1>7 DEF Land
  <2>5. \A v \in Workers : v # w => (Claims(v, u)' <=> Claims(v, u))
    BY <2>3 DEF Lands, Others, Claims, At
  <2>6. CASE worker[w].kind = "TRIAL" /\ worker[w].u = u
    <3>1. \A v \in Workers : ~Claims(v, u)
      BY <1>7, <2>6 DEF Land, ClaimFree, Claims, At
    <3>2. trialFree[u]
      <4>1. Known(created[u], worker[w].seen, panel[u]) /\ created[u] \in Nat
        BY <2>1, <2>6, SeenKnown, UserFacts DEF Numbered
      <4> QED BY <2>1, <2>6, <4>1, OutcomeFits
    <3>3. trials[u] = 0
      BY <1>1, <3>2 DEF GrantsOK
    <3> QED BY <2>4, <2>5, <3>1, <3>3 DEF GrantsOK
  <2>7. CASE ~(worker[w].kind = "TRIAL" /\ worker[w].u = u)
    <3>1. ~Claims(w, u)'
      BY <2>3, <2>7 DEF Lands, Claims, At
    <3> QED BY <2>4, <2>5, <3>1, GrantsKept
  <2> QED BY <2>6, <2>7
<1>8. ASSUME NEW w \in Workers, Refuse(w) \/ Reject(w) \/ Fail(w) \/ Abandon(w) \/ RollBack(w)
      PROVE  GrantsOK(u)'
  <2>1. worker[w].pc \in Busy /\ (Done(w) \/ Drop(w)) /\ UNCHANGED <<uses, trials, trialFree>>
    BY <1>8 DEF Refuse, Reject, Fail, Abandon, RollBack, Busy
  <2>2. Leaves(w)
    BY <2>1, DoneLeaves, DropLeaves
  <2> QED BY <1>2, <2>1, <2>2 DEF Leaves, Others
<1>9. ASSUME NEW w \in Workers, Commit(w) PROVE GrantsOK(u)'
  <2>1. worker[w].pc = "landed" /\ Leaves(w)
    BY <1>9, DoneLeaves DEF Commit, Busy
  <2>2. \A v \in Workers : Claims(v, u)' => Claims(v, u) /\ v # w
    BY <2>1 DEF Leaves, Others, Claims, At
  <2>3. CASE worker[w].u # u
    <3>1. uses'[u] = uses[u] /\ trials'[u] = trials[u] /\ trialFree'[u] = trialFree[u]
      BY <1>9, <2>3 DEF Commit, Shaped
    <3> QED BY <2>2, <3>1, GrantsKept
  <2>4. CASE worker[w].u = u
    <3>1. uses'[u] <= 1
      <4>1. CASE worker[w].kind = "PROMO"
        <5>1. uses[u] = 0
          BY <1>9, <2>4, <4>1 DEF Commit, Admissible
        <5>2. uses' = [uses EXCEPT ![u] = uses[u] + 1]
          BY <1>9, <2>4, <4>1 DEF Commit
        <5> QED BY <5>1, <5>2 DEF Shaped
      <4>2. CASE worker[w].kind # "PROMO"
        <5>1. uses'[u] = uses[u]
          BY <1>9, <2>4, <4>2 DEF Commit, Shaped
        <5> QED BY <5>1 DEF GrantsOK
      <4> QED BY <4>1, <4>2
    <3>2. trialFree'[u] <=> trialFree[u] /\ worker[w].kind \notin {"TRIAL", "SET_PLAN"}
                            /\ ~(worker[w].kind = "NEW" /\ worker[w].seen = None)
      BY <1>9, <2>4 DEF Commit, Shaped
    <3>3. CASE worker[w].kind = "TRIAL"
      <4>1. Claims(w, u)
        BY <2>1, <2>4, <3>3 DEF Claims, At, Busy
      <4>2. trials[u] = 0 /\ \A v \in Workers : ~Claims(v, u)'
        BY <2>2, <4>1 DEF GrantsOK
      <4>3. trials' = [trials EXCEPT ![u] = trials[u] + 1]
        BY <1>9, <2>4, <3>3 DEF Commit
      <4>4. trials'[u] <= 1
        BY <4>2, <4>3 DEF Shaped
      <4> QED BY <3>1, <3>2, <3>3, <4>2, <4>4 DEF GrantsOK
    <3>4. CASE worker[w].kind # "TRIAL"
      <4>1. trials'[u] = trials[u]
        BY <1>9, <2>4, <3>4 DEF Commit, Shaped
      <4>2. trialFree'[u] => trialFree[u]
        BY <3>2
      <4> QED BY <2>2, <3>1, <4>1, <4>2 DEF GrantsOK
    <3> QED BY <3>3, <3>4
  <2> QED BY <2>3, <2>4
<1>10. ASSUME NEW x \in Users, LeaseEnds(x) PROVE GrantsOK(u)'
  <2>1. PICK v \in Workers : LosesLease(v, x)
    BY <1>10, LeaseLost
  <2>2. UNCHANGED <<uses, trials, trialFree>>
    BY <1>10 DEF LeaseEnds
  <2>3. ASSUME NEW w \in Workers, Claims(w, u)' PROVE Claims(w, u)
    BY <2>1, <2>3 DEF LosesLease, Others, Claims, At
  <2> QED BY <2>2, <2>3, GrantsKept
<1>11. CASE UNCHANGED vars \/ Tick \/ (\E m \in wire : LandLate(m))
            \/ (\E x \in Users : PanelExpires(x) \/ PanelEdits(x))
            \/ \E x \in Users : \E e \in notices[x] : Ignore(x, e)
  <2>1. UNCHANGED <<uses, trials, trialFree, worker>>
    BY <1>11 DEF vars, Tick, LandLate, PanelExpires, PanelEdits, Ignore
  <2> QED BY <1>2, <2>1
<1> QED BY <1>4, <1>5, <1>6, <1>7, <1>8, <1>9, <1>10, <1>11 DEF Next

\* create_activation counts again before it activates.
LEMMA UsesStep ==
  ASSUME Shaped, Cardinality(Activations) <= MaxUses, [Next]_vars
  PROVE  Cardinality(Activations)' <= MaxUses
<1>0. IsFiniteSet(Activations) /\ Cardinality(Activations) \in Nat /\ MaxUses \in Nat
  <2>1. Activations \subseteq Users /\ IsFiniteSet(Users) /\ MaxUses \in Nat
    BY MutationConstants DEF Activations
  <2> QED BY <2>1, SmallerSet
<1>1. ASSUME Activations' \subseteq Activations PROVE Cardinality(Activations)' <= MaxUses
  <2> DEFINE a == Cardinality(Activations)  b == Cardinality(Activations')
  <2>1. a \in Nat /\ b \in Nat /\ b <= a /\ a <= MaxUses
    BY <1>0, <1>1, SmallerSet
  <2> HIDE DEF a, b
  <2>2. b <= MaxUses
    BY <1>0, <2>1
  <2> QED BY <2>2 DEF b
<1>2. ASSUME NEW w \in Workers, Commit(w) PROVE Cardinality(Activations)' <= MaxUses
  <2>1. CASE worker[w].kind # "PROMO"
    <3>1. \A u \in Users : uses'[u] = uses[u]
      BY <1>2, <2>1 DEF Commit, Shaped
    <3> QED BY <1>1, <3>1 DEF Activations
  <2>2. CASE worker[w].kind = "PROMO"
    <3>1. Cardinality(Activations) < MaxUses
      BY <1>2, <2>2 DEF Commit, Admissible
    <3>2. Activations' \subseteq Activations \cup {worker[w].u}
      BY <1>2 DEF Commit, Shaped, Activations
    <3> DEFINE a == Cardinality(Activations)  b == Cardinality(Activations')
    <3>3. a \in Nat /\ b \in Nat /\ b <= a + 1 /\ a < MaxUses
      BY <1>0, <3>1, <3>2, OneMore
    <3> HIDE DEF a, b
    <3>4. b <= MaxUses
      BY <1>0, <3>3
    <3> QED BY <3>4 DEF b
  <2> QED BY <2>1, <2>2
<1>3. \/ uses' = uses
      \/ \E w \in Workers : Commit(w)
  <2>1. ASSUME NEW w \in Workers
        PROVE  Continue(w) \/ Land(w) \/ Refuse(w) \/ Reject(w) \/ Fail(w) \/ Abandon(w) \/ RollBack(w)
               => uses' = uses
    BY DEF Continue, Hold, Land, Refuse, Reject, Fail, Abandon, RollBack
  <2>2. ASSUME NEW w \in Workers, NEW u \in Users
        PROVE  /\ \A kind \in Kinds : Call(w, u, kind) => uses' = uses
               /\ \A e \in notices[u] : Deliver(w, u, e) => uses' = uses
    BY DEF Call, Deliver, Hold
  <2>3. ASSUME NEW u \in Users
        PROVE  /\ \A e \in notices[u] : Ignore(u, e) => uses' = uses
               /\ LeaseEnds(u) \/ PanelExpires(u) \/ PanelEdits(u) => uses' = uses
    BY DEF Ignore, LeaseEnds, PanelExpires, PanelEdits
  <2>4. UNCHANGED vars \/ Tick \/ (\E m \in wire : LandLate(m)) => uses' = uses
    BY DEF vars, Tick, LandLate
  <2> QED BY <2>1, <2>2, <2>3, <2>4 DEF Next
<1>4. CASE uses' = uses
  BY <1>1, <1>4 DEF Activations
<1> QED BY <1>2, <1>3, <1>4

-----------------------------------------------------------------------------
(* The theorems.                                                           *)

LEMMA InvInit == Init => MutationInv
<1> SUFFICES ASSUME Init PROVE MutationInv
  OBVIOUS
<1>1. Shaped
  BY MutationConstants DEF Init, Shaped
<1>2. \A w \in Workers : worker[w].pc = "idle"
  BY DEF Init, Idle
<1>3. Counted(created)
  BY <1>2 DEF Init, Counted, Busy
<1>4. Locked
  BY <1>2, MutationConstants DEF Init, Locked, Holder, At, Busy
<1>5. ASSUME NEW u \in Users PROVE WholeOK(u) /\ GrantsOK(u)
  <2>1. \A w \in Workers : ~Holder(w, u) /\ ~Claims(w, u)
    BY <1>2 DEF Holder, Claims, At, Busy
  <2>2. row[u] = None /\ panel[u] = None /\ uses[u] = 0 /\ trials[u] = 0
    BY DEF Init
  <2> QED BY <2>1, <2>2 DEF WholeOK, Tried, Agreeing, HolderOK, GrantsOK
<1>6. Cardinality(Activations) <= MaxUses
  <2>1. Activations = {}
    BY DEF Init, Activations
  <2> QED BY <2>1, FS_EmptySet, MutationConstants
<1> QED BY <1>1, <1>3, <1>4, <1>5, <1>6 DEF MutationInv

LEMMA TornStays ==
  ASSUME [Next]_vars
  PROVE  torn \subseteq torn'
<1>1. ASSUME NEW w \in Workers
      PROVE  Continue(w) \/ Land(w) \/ Refuse(w) \/ Reject(w) \/ Fail(w) \/ Abandon(w) \/ RollBack(w)
             => torn' = torn
  BY DEF Continue, Hold, Land, Refuse, Reject, Fail, Abandon, RollBack
<1>2. ASSUME NEW w \in Workers, Commit(w) PROVE torn \subseteq torn'
  BY <1>2 DEF Commit, With
<1>3. ASSUME NEW w \in Workers, NEW u \in Users
      PROVE  /\ \A kind \in Kinds : Call(w, u, kind) => torn' = torn
             /\ \A e \in notices[u] : Deliver(w, u, e) => torn' = torn
  BY DEF Call, Deliver, Hold
<1>4. ASSUME NEW u \in Users
      PROVE  /\ \A e \in notices[u] : Ignore(u, e) => torn \subseteq torn'
             /\ LeaseEnds(u) \/ PanelExpires(u) \/ PanelEdits(u) => torn' = torn
  BY DEF Ignore, With, LeaseEnds, PanelExpires, PanelEdits
<1>5. ASSUME NEW m \in wire, LandLate(m) PROVE torn' = torn
  BY <1>5 DEF LandLate
<1>6. UNCHANGED vars \/ Tick => torn' = torn
  BY DEF vars, Tick
<1> QED BY <1>1, <1>2, <1>3, <1>4, <1>5, <1>6 DEF Next

LEMMA InvStep == MutationInv /\ [Next]_vars => MutationInv'
<1> SUFFICES ASSUME MutationInv, [Next]_vars PROVE MutationInv'
  OBVIOUS
<1>1. Shaped /\ Counted(created) /\ Locked /\ Cardinality(Activations) <= MaxUses
  BY DEF MutationInv
<1>2. Shaped'
  BY <1>1, ShapeStep
<1>3. Counted(created)'
  BY <1>1, <1>2, CountStep
<1>4. Locked'
  BY <1>1, LockStep
<1>5. ASSUME NEW u \in Users \ torn' PROVE WholeOK(u)'
  <2>1. WholeOK(u)
    BY TornStays DEF MutationInv
  <2> QED BY <1>1, <1>2, <2>1, WholeStep
<1>6. ASSUME NEW u \in Users PROVE GrantsOK(u)'
  BY <1>1, GrantsStep DEF MutationInv
<1>7. Cardinality(Activations)' <= MaxUses
  BY <1>1, UsesStep
<1> QED BY <1>2, <1>3, <1>4, <1>5, <1>6, <1>7 DEF MutationInv

(* The lock and the leases, what has been granted, and how far the panel   *)
(* and the database may be apart are as stated at every moment.            *)
THEOREM InvariantHolds == Spec => []MutationInv
<1>1. Init => MutationInv
  BY InvInit
<1>2. MutationInv /\ [Next]_vars => MutationInv'
  BY InvStep
<1> QED BY <1>1, <1>2, PTL DEF Spec

(* Tables, locks and webhooks keep their types, a row names no panel user  *)
(* that was never created, and a trial is never in grace.                  *)
THEOREM TypeCorrect == Spec => []TypeOK
<1>1. MutationInv => TypeOK
  <2> SUFFICES ASSUME MutationInv PROVE TypeOK
    OBVIOUS
  <2>1. Shaped /\ Counted(created)
    BY DEF MutationInv
  <2>2. \A u \in Users : /\ row[u] # None => row[u] \in Rows /\ row[u].uuid <= created[u]
                         /\ panel[u] # None => panel[u] \in Profiles
    BY <2>1, UserFacts DEF Counted
  <2>3. \A u \in Users \ torn : row[u] # None => ~(row[u].trial /\ row[u].grace)
    BY DEF MutationInv, WholeOK, Tried
  <2> QED BY <2>1, <2>2, <2>3 DEF TypeOK, Shaped
<1> QED BY <1>1, InvariantHolds, PTL

LEMMA QuietAgrees ==
  ASSUME MutationInv, NEW u \in Users \ torn, Quiet(u), row[u] # None
  PROVE  Same(row[u], panel[u])
<1>1. WholeOK(u)
  BY DEF MutationInv
<1>2. \A w \in Workers : ~At(w, u)
  BY DEF Quiet, At, Busy
<1>3. News(u, Workers) = {}
  BY <1>2 DEF Quiet, News, Bears
<1>4. Agreeing(row[u], panel[u], {})
  BY <1>1, <1>3 DEF WholeOK
<1> QED BY <1>4 DEF Agreeing, Updated

(* Panel and database say the same of a subscription whose webhooks are    *)
(* handled and that nobody works on, for any number of use cases that      *)
(* overlapped, failed, were dropped by their handler or wrote the panel    *)
(* late, unless its row was committed without the lease or too late for a  *)
(* webhook.                                                                *)
THEOREM Agreement == Spec => []PanelAgrees
<1>1. MutationInv => PanelAgrees
  BY QuietAgrees DEF PanelAgrees
<1> QED BY <1>1, InvariantHolds, PTL

(* Neither races nor rollbacks grant a promocode more often than           *)
(* max_activations, twice to a user, or a user a second trial.             *)
THEOREM Granted == Spec => []GrantedWithinLimits
<1>1. MutationInv => GrantedWithinLimits
  BY DEF MutationInv, GrantsOK, GrantedWithinLimits
<1> QED BY <1>1, InvariantHolds, PTL

LEMMA PaidCommit ==
  ASSUME MutationInv, [Next]_vars, NEW w \in Workers, Commit(w),
         worker[w].kind \in {"NEW", "RENEW"}, row[worker[w].u] # None,
         ~row[worker[w].u].trial, ~row[worker[w].u].grace, worker[w].u \notin torn'
  PROVE  /\ row'[worker[w].u].expire >= row[worker[w].u].expire + Days
         /\ worker[w].u \notin late /\ panel[worker[w].u] # None =>
              panel[worker[w].u].expire = row'[worker[w].u].expire
<1> DEFINE u == worker[w].u
<1>1. u \in Users /\ Shaped
  BY JobFacts DEF MutationInv, Commit, Busy
<1>2. WholeOK(u)
  BY <1>1, TornStays DEF MutationInv
<1>3. worker[w].seen = row[u] /\ row'[u] = worker[w].want
      /\ Prepared(u, worker[w], panel[u], News(u, Workers \ {w}))
  BY <1>1, <1>2, CommitsWant
<1>4. Paid(worker[w].kind, worker[w].seen)
  BY <1>3 DEF Paid
<1>5. /\ worker[w].want.expire >= worker[w].seen.expire + Days
      /\ u \notin late /\ panel[u] # None => panel[u].expire = worker[w].want.expire
  BY <1>3, <1>4 DEF Prepared
<1> QED BY <1>3, <1>5

(* A renewal adds its days to the row that is stored when it commits, and  *)
(* the panel has the same expiry, whatever ran since it was paid, unless a *)
(* call that its caller had given up landed on the panel.                  *)
THEOREM DaysStand == Spec => PaidDaysStand
<1>1. ASSUME MutationInv, [Next]_vars
      PROVE  [\A w \in Workers :
                LET j == worker[w] IN
                (Commit(w) /\ j.kind \in {"NEW", "RENEW"} /\ row[j.u] # None
                   /\ ~row[j.u].trial /\ ~row[j.u].grace /\ j.u \notin torn')
                  => /\ row'[j.u].expire >= row[j.u].expire + Days
                     /\ j.u \notin late /\ panel[j.u] # None =>
                          panel[j.u].expire = row'[j.u].expire]_vars
  BY <1>1, PaidCommit
<1> QED BY <1>1, InvariantHolds, PTL DEF Spec, PaidDaysStand
=============================================================================
