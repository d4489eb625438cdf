---------------------------- MODULE PaymentOnce ----------------------------
(***************************************************************************)
(* What an Idempotency-Key promises, with no leases, tokens or requests.   *)
(* A key is opened, the provider is charged for it at most once, and it    *)
(* ends settled or in manual review for good.  A key is forgotten, so that *)
(* a corrected request may reuse it, only while nothing was charged.       *)
(***************************************************************************)
EXTENDS Naturals

CONSTANTS
  Keys,
  Exempt      \* keys of free purchases: no provider is involved

VARIABLES phase, charges

ovars == <<phase, charges>>

Init ==
  /\ phase = [i \in Keys |-> "new"]
  /\ charges = [i \in Keys |-> 0]

Begin(i) ==
  /\ phase[i] = "new"
  /\ phase' = [phase EXCEPT ![i] = "open"]
  /\ UNCHANGED charges

Forget(i) ==
  /\ phase[i] = "open"
  /\ charges[i] = 0
  /\ phase' = [phase EXCEPT ![i] = "new"]
  /\ UNCHANGED charges

\* A slow request may still reach the provider after the key went to review.
Charge(i) ==
  /\ i \notin Exempt
  /\ phase[i] \in {"open", "review"}
  /\ charges[i] = 0
  /\ charges' = [charges EXCEPT ![i] = 1]
  /\ UNCHANGED phase

Settle(i) ==
  /\ phase[i] = "open"
  /\ charges[i] = 1 \/ i \in Exempt
  /\ phase' = [phase EXCEPT ![i] = "settled"]
  /\ UNCHANGED charges

Review(i) ==
  /\ phase[i] = "open"
  /\ phase' = [phase EXCEPT ![i] = "review"]
  /\ UNCHANGED charges

Next == \E i \in Keys : Begin(i) \/ Forget(i) \/ Charge(i) \/ Settle(i) \/ Review(i)

Spec == Init /\ [][Next]_ovars
=============================================================================
