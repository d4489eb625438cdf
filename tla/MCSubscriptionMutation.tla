----------------------- MODULE MCSubscriptionMutation -----------------------
(* Small instances of SubscriptionMutation for TLC.                        *)
EXTENDS SubscriptionMutation, TLC

CONSTANTS u1, u2, w1, w2, small

Symmetry == Permutations({w1, w2})

Only(kinds) ==
  \A w \in Workers : worker[w].pc \in {"calling", "landed"} => worker[w].kind \in kinds

\* Two users only share a promocode: when the second one comes in, both redeem it.
PromoOfTwo ==
  (uses[u2] > 0 \/ panel[u2] # None \/ \E w \in Workers : worker[w].pc # "idle" /\ worker[w].u = u2)
    => today = 0 /\ faults = 0 /\ Only({"PROMO"})

\* Of a torn user nothing is stated but the limits: it is followed no further than these.
TornIsSpent == torn # {} => today = 0 /\ Only({"PROMO", "TRIAL"})

\* A fault is combined with one use case of each kind, on one day; two webhooks wait at
\* once only before a trial or a promocode was granted.
FewKindsWithFaults ==
  faults > 0 =>
    /\ today = 0 /\ (row[u1] # None => ~row[u1].left)
    /\ Only({"NEW", "TOGGLE", "TRIAL", "PROMO", "MODIFIED", "STATUS", "DELETED"})
    /\ Cardinality(notices[u1]) < IF trials[u1] + uses[u1] = 0 THEN 3 ELSE 2

\* The second panel user of a user is not followed to its end.
SecondUserIsNew ==
  created[u1] > 1 => today = 0 /\ faults = 0 /\ Only({"NEW", "MODIFIED", "STATUS", "DELETED"})

\* A promocode is combined with these, on one day.
FewKindsWithPromo ==
  uses[u1] > 0 => today = 0 /\ Only({"PROMO", "TRIAL", "NEW", "MODIFIED", "STATUS"})
=============================================================================
