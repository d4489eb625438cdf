------------------------- MODULE MCPaymentOperation -------------------------
(* Instances of PaymentOperation for TLC. *)
EXTENDS PaymentOperation

CONSTANTS b1, b2

\* No statement relates two keys: one of them moves, of any kind.
OneKey == \E i \in Keys : \A j \in Keys \ {i} : op[j] = NoRow

\* The first row of a key has the first body: bodies are interchangeable.
FirstBody == \A i \in Keys : op[i].id = 1 => op[i].body # b2
=============================================================================
