--------------------------- MODULE PaymentPromise ---------------------------
(***************************************************************************)
(* What fulfillment promises about each payment, with no tokens, leases,   *)
(* workers or inbox.  Money is due, received, void (canceled by the        *)
(* provider) or returned; delivery starts only once and only when money    *)
(* was received, is proved done or handed to the operator and never starts *)
(* again; the panel applies the purchase at most once, never before        *)
(* delivery starts and never after it was proved.                          *)
(***************************************************************************)
EXTENDS Naturals

CONSTANTS
  Payments,
  LegacyPayments,   \* rows of the time before fulfillment was tracked
  Exempt            \* payments with nothing to apply on the panel

VARIABLES money, delivery, applied

pvars == <<money, delivery, applied>>

Init ==
  /\ money = [p \in Payments |-> IF p \in LegacyPayments THEN "legacy" ELSE "none"]
  /\ delivery = [p \in Payments |-> IF p \in LegacyPayments THEN "review" ELSE "no"]
  /\ applied = [p \in Payments |-> 0]

Open(p) ==
  /\ money[p] = "none"
  /\ money' = [money EXCEPT ![p] = "due"]
  /\ UNCHANGED <<delivery, applied>>

\* Reconciliation may record a payment when it already is canceled.
Void(p) ==
  /\ money[p] \in {"none", "due"}
  /\ money' = [money EXCEPT ![p] = "void"]
  /\ UNCHANGED <<delivery, applied>>

\* A local timeout leaves the money due: a late success callback still counts.
Receive(p) ==
  /\ money[p] = "due"
  /\ money' = [money EXCEPT ![p] = "received"]
  /\ delivery' = [delivery EXCEPT ![p] = "doing"]
  /\ UNCHANGED applied

\* The purchase may still reach the panel after a lease expired or a refund.
Apply(p) ==
  /\ delivery[p] \in {"doing", "review"}
  /\ money[p] \in {"received", "returned"}
  /\ applied[p] = 0
  /\ applied' = [applied EXCEPT ![p] = 1]
  /\ UNCHANGED <<money, delivery>>

Prove(p) ==
  /\ money[p] = "received"
  /\ delivery[p] = "doing"
  /\ applied[p] = 1 \/ p \in Exempt
  /\ delivery' = [delivery EXCEPT ![p] = "done"]
  /\ UNCHANGED <<money, applied>>

HandOver(p) ==
  /\ delivery[p] = "doing"
  /\ delivery' = [delivery EXCEPT ![p] = "review"]
  /\ UNCHANGED <<money, applied>>

Return(p) ==
  /\ money[p] \in {"due", "void", "received"}
  /\ money' = [money EXCEPT ![p] = "returned"]
  /\ UNCHANGED <<delivery, applied>>

Next == \E p \in Payments :
  Open(p) \/ Void(p) \/ Receive(p) \/ Apply(p) \/ Prove(p) \/ HandOver(p) \/ Return(p)

Spec == Init /\ [][Next]_pvars
=============================================================================
