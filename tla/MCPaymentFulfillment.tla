------------------------ MODULE MCPaymentFulfillment ------------------------
(* Small instances of PaymentFulfillment for TLC.                          *)
EXTENDS PaymentFulfillment, TLC

CONSTANTS p1, free, test, legacy, w1, w2

TwoWorkers == Permutations({w1, w2})

NoCallbacks == {}
CompletedOfP1 == {<<p1, "COMPLETED">>}
CanceledOfLegacy == {<<legacy, "CANCELED">>}

Untouched(p) ==
  /\ tx[p] = IF p \in LegacyPayments THEN LegacyRow ELSE NewRow
  /\ inbox[p] = [k \in EventKinds |-> NoEvent]
  /\ \A w \in Workers : worker[w].p # p

\* No statement relates two payments: one of them moves, of any kind.
OnePayment == \E p \in Payments : \A q \in Payments \ {p} : Untouched(q)

\* A payment is reported in at most two ways, in any order and number.
TwoReports == \A p \in Payments : \E k \in EventKinds : <<p, k>> \notin acked

\* Two faults only hit the ordinary payment, while it is reported as completed.
TwoFaults == faults > 1 => acked \subseteq {<<p1, "COMPLETED">>}
=============================================================================
