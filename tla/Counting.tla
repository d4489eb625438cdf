------------------------------- MODULE Counting -------------------------------
(***************************************************************************)
(* Facts about the sizes of finite sets that the proofs about budgets use: *)
(* what happens to a bound when one element comes or goes.                 *)
(***************************************************************************)
EXTENDS Integers, FiniteSets, FiniteSetTheorems, TLAPS

\* A bound that may only grow.
LEMMA Slack ==
  ASSUME NEW n \in Nat, NEW a \in Nat, NEW b \in Nat, b >= a
  PROVE  (n <= a => n <= b /\ n <= b + 1) /\ (n <= a + 1 => n <= b + 1)
OBVIOUS

LEMMA SmallerSet ==
  ASSUME NEW S, NEW T, IsFiniteSet(S), T \subseteq S
  PROVE  IsFiniteSet(T) /\ Cardinality(T) \in Nat /\ Cardinality(S) \in Nat
         /\ Cardinality(T) <= Cardinality(S)
BY FS_Subset, FS_CardinalityType

LEMMA OneMore ==
  ASSUME NEW S, NEW T, NEW x, IsFiniteSet(S), T \subseteq S \cup {x}
  PROVE  Cardinality(T) \in Nat /\ Cardinality(S) \in Nat
         /\ Cardinality(T) <= Cardinality(S) + 1
<1> DEFINE more == S \cup {x}
<1>1. IsFiniteSet(more) /\ Cardinality(more) <= Cardinality(S) + 1
      /\ Cardinality(S) \in Nat /\ T \subseteq more
  <2>1. IsFiniteSet(more) /\ (Cardinality(more) = Cardinality(S) \/ Cardinality(more) = Cardinality(S) + 1)
    BY FS_AddElement
  <2>2. Cardinality(S) \in Nat
    BY FS_CardinalityType
  <2>3. T \subseteq more
    OBVIOUS
  <2> QED BY <2>1, <2>2, <2>3
<1> HIDE DEF more
<1>2. Cardinality(T) \in Nat /\ Cardinality(more) \in Nat /\ Cardinality(T) <= Cardinality(more)
  BY <1>1, SmallerSet
<1> QED BY <1>1, <1>2

LEMMA OneLess ==
  ASSUME NEW S, NEW T, NEW x \in S, IsFiniteSet(S), T \subseteq S \ {x}
  PROVE  Cardinality(T) \in Nat /\ Cardinality(S) \in Nat
         /\ Cardinality(T) + 1 <= Cardinality(S)
<1>1. IsFiniteSet(S \ {x}) /\ Cardinality(S \ {x}) = Cardinality(S) - 1
      /\ Cardinality(S) \in Nat
  BY FS_RemoveElement, FS_CardinalityType
<1> QED BY <1>1, SmallerSet

\* A set with an element counts for one at least.
LEMMA SomeElement ==
  ASSUME NEW S, NEW x \in S, IsFiniteSet(S)
  PROVE  Cardinality(S) \in Nat /\ Cardinality(S) >= 1
<1>1. Cardinality(S) \in Nat /\ Cardinality(S) # 0
  BY FS_CardinalityType, FS_EmptySet
<1> QED BY <1>1
=============================================================================
