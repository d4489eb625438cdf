-------------------------- MODULE MCReferralReward --------------------------
(* Instances of ReferralReward for TLC. *)
EXTENDS ReferralReward, TLC

CONSTANTS a, b, s1, s2, u1, w1, w2

\* Two payments of one referred user, one level, one recipient.
TwoPayments == (a :> s1) @@ (b :> s2)
OneRecipient == (a :> u1) @@ (b :> u1)

OnePayment == a :> s1
OneReward == a :> u1

\* The workers are alike, and so are the payments with their rewards.
Swap == (a :> b) @@ (b :> a) @@ (s1 :> s2) @@ (s2 :> s1)
Keep == (a :> a) @@ (b :> b) @@ (s1 :> s1) @@ (s2 :> s2)
Symmetry == {p @@ q : p \in Permutations(Workers), q \in {Swap, Keep}}

\* What a payment does before its purchase is applied does not touch the rewards:
\* these runs start where both purchases have just been applied.
MCInit ==
  /\ money = [s \in Sources |-> "received"]
  /\ delivery = [s \in Sources |-> "doing"]
  /\ applied = [s \in Sources |-> 1]
  /\ StartRewards
MCSpec == MCInit /\ [][Next]_vars

\* The administrator does not switch between points and days meanwhile.  With points
\* nobody reads the subscription; with days there is one (the run of the liveness
\* properties has recipients without).
OneType == \A q, r \in Rewards :
  /\ {reward[q].state, reward[r].state} \cap {"ABSENT"} = {} => reward[q].type = reward[r].type
  /\ reward[r].state # "ABSENT" =>
       (reward[r].type = "POINTS") = (expiry[RecipientOf[r]] = None)

\* What no step and no property of the safety run reads.
Seen == <<purchase, earlier, assigned, worker, expiry, panel, effect, faults,
          [r \in Rewards |-> [reward[r] EXCEPT !.alerted = FALSE, !.ruling.drift = FALSE]]>>
=============================================================================
