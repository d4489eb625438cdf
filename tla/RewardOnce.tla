----------------------------- MODULE RewardOnce -----------------------------
(***************************************************************************)
(* What the referral engine promises for each reward, without claims,      *)
(* leases, targets or workers.  A reward is owed, then granted or closed.  *)
(* It is granted once at most, only while it is owed and its payment is    *)
(* not refunded, and it is recorded as granted or closed only as that is   *)
(* true.  What cannot be told apart is reviewed by a person, and so is     *)
(* what was granted for a payment that is refunded afterwards.             *)
(***************************************************************************)
EXTENDS Naturals

CONSTANTS Rewards, Sources, SourceOf

VARIABLES
  money,   \* money[s]: the source payment, as in PaymentPromise
  stage,   \* stage[r]: none, owed, granted, closed or review
  effect   \* effect[r]: how often r was granted

vars == <<money, stage, effect>>

Moneys == {"none", "due", "received", "void", "returned"}
Stages == {"none", "owed", "granted", "closed", "review"}

Init ==
  /\ money \in [Sources -> Moneys]
  /\ stage = [r \in Rewards |-> "none"]
  /\ effect = [r \in Rewards |-> 0]

\* All intents of a payment are recorded together.
Owe(s) ==
  /\ \A r \in Rewards : SourceOf[r] = s => stage[r] = "none"
  /\ stage' = [r \in Rewards |-> IF SourceOf[r] = s THEN "owed" ELSE stage[r]]
  /\ UNCHANGED <<money, effect>>

\* Points are recorded as they are granted, days afterwards.
Grant(r) ==
  /\ stage[r] = "owed" /\ effect[r] = 0 /\ money[SourceOf[r]] = "received"
  /\ effect' = [effect EXCEPT ![r] = 1]
  /\ stage' \in {stage, [stage EXCEPT ![r] = "granted"]}
  /\ UNCHANGED money

Record(r) ==
  /\ stage[r] = "owed" /\ effect[r] = 1
  /\ stage' = [stage EXCEPT ![r] = "granted"]
  /\ UNCHANGED <<money, effect>>

Rule(r) ==
  /\ stage[r] = "review"
  /\ \E ruling \in {"granted", "closed"} : stage' = [stage EXCEPT ![r] = ruling]
  /\ UNCHANGED <<money, effect>>

\* One run closes what will never be granted and hands over what is in doubt.
Settle ==
  /\ stage' \in [Rewards -> Stages]
  /\ \A r \in Rewards :
       \/ stage'[r] = stage[r]
       \/ stage[r] = "owed" /\ effect[r] = 0 /\ stage'[r] = "closed"
       \/ stage[r] \in {"owed", "granted"} /\ stage'[r] = "review"
  /\ UNCHANGED <<money, effect>>

\* Money never comes back from a refund.
Pay ==
  /\ money' \in [Sources -> Moneys]
  /\ \A s \in Sources : money[s] = "returned" => money'[s] = "returned"
  /\ UNCHANGED <<stage, effect>>

Next ==
  \/ Pay
  \/ Settle
  \/ \E r \in Rewards : Grant(r) \/ Record(r) \/ Rule(r)
  \/ \E s \in Sources : Owe(s)

Spec == Init /\ [][Next]_vars
=============================================================================
