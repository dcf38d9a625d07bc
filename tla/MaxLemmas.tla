----------------------------- MODULE MaxLemmas ------------------------------
(* Facts about Max of FiniteSetsExt that several proofs need.              *)
EXTENDS Integers, FiniteSetsExt, FiniteSetTheorems, WellFoundedInduction, TLAPS

(* Max picks the largest element of a set of integers bounded above.       *)
LEMMA MaxOfBounded ==
    ASSUME NEW S, S \subseteq Int, S # {},
           NEW b \in Int, \A x \in S : x <= b
    PROVE  Max(S) \in S /\ \A y \in S : y <= Max(S)
<1> DEFINE T == {b - x : x \in S}
<1>1. T \subseteq Nat /\ T # {}
  <2>1. \A x \in S : b - x \in Nat
    OBVIOUS
  <2>2. T \subseteq Nat
    BY <2>1
  <2>3. PICK x \in S : TRUE
    OBVIOUS
  <2>4. b - x \in T
    BY <2>3
  <2> QED
    BY <2>2, <2>4
<1>2. PICK m \in T : \A y \in T : ~ (<<y, m>> \in OpToRel(<, Nat))
  BY <1>1, NatLessThanWellFounded, WFMin, Zenon
<1>3. \A y \in T : m <= y
  <2> TAKE y \in T
  <2>1. <<y, m>> \notin OpToRel(<, Nat)
    BY <1>2
  <2>2. y \in Nat /\ m \in Nat
    BY <1>1, <1>2
  <2> QED
    BY <2>1, <2>2 DEF OpToRel
<1>4. PICK x \in S : m = b - x
  BY <1>2
<1>5. \A y \in S : x >= y
  BY <1>3, <1>4
<1> QED
  BY <1>5 DEF Max

(***************************************************************************)
(* A finite set of naturals is bounded: an unbounded one with the least    *)
(* number of elements would stay unbounded without one of them.            *)
(***************************************************************************)
LEMMA FiniteIsBounded ==
    ASSUME NEW S0 \in SUBSET Nat, IsFiniteSet(S0)
    PROVE  \E b \in Nat : \A y \in S0 : y <= b
<1> DEFINE Bounded(S) == \E b \in Nat : \A y \in S : y <= b
           Bad == {S \in SUBSET Nat : IsFiniteSet(S) /\ ~Bounded(S)}
           Sizes == {Cardinality(S) : S \in Bad}
<1>1. SUFFICES ASSUME ~Bounded(S0) PROVE FALSE
  OBVIOUS
<1>2. Sizes \subseteq Nat /\ Sizes # {}
  <2>1. \A S \in Bad : Cardinality(S) \in Nat
    BY FS_CardinalityType
  <2>2. S0 \in Bad
    BY <1>1
  <2> QED
    BY <2>1, <2>2
<1> HIDE DEF Sizes
<1>3. PICK m \in Sizes : \A y \in Sizes : ~ (<<y, m>> \in OpToRel(<, Nat))
  BY <1>2, NatLessThanWellFounded, WFMin, Zenon
<1>4. \A y \in Sizes : m <= y
  <2> TAKE y \in Sizes
  <2>1. <<y, m>> \notin OpToRel(<, Nat)
    BY <1>3
  <2>2. y \in Nat /\ m \in Nat
    BY <1>2, <1>3
  <2> QED
    BY <2>1, <2>2 DEF OpToRel
<1>5. PICK S \in Bad : m = Cardinality(S)
  BY <1>3 DEF Sizes
<1>6. PICK x \in S : TRUE
  <2>1. S # {}
    <3>1. Bounded({})
      BY 0 \in Nat
    <3> QED
      BY <1>5, <3>1
  <2> QED
    BY <2>1
<1>7. IsFiniteSet(S \ {x}) /\ Cardinality(S \ {x}) = m - 1
  BY <1>5, <1>6, FS_RemoveElement
<1>8. m \in Nat /\ ~(m <= m - 1)
  <2>1. m \in Nat
    BY <1>2, <1>3
  <2> HIDE DEF Bad
  <2> QED
    BY <2>1, SMT
<1>9. Bounded(S \ {x})
  <2>1. S \ {x} \notin Bad
    BY <1>4, <1>7, <1>8 DEF Sizes
  <2> QED
    BY <1>5, <1>7, <2>1
<1>10. Bounded(S)
  <2>1. PICK b \in Nat : \A y \in S \ {x} : y <= b
    BY <1>9
  <2>2. x \in Nat
    BY <1>5, <1>6
  <2>3. \A y \in S : y <= b + x
    BY <1>5, <2>1, <2>2
  <2>4. b + x \in Nat
    BY <2>2
  <2> QED
    BY <2>3, <2>4
<1> QED
  BY <1>5, <1>10

(* Max picks the largest element of a finite set of naturals.              *)
LEMMA MaxOfFinite ==
    ASSUME NEW S \in SUBSET Nat, IsFiniteSet(S), S # {}
    PROVE  Max(S) \in S /\ \A y \in S : y <= Max(S)
<1>1. PICK b \in Nat : \A y \in S : y <= b
  BY FiniteIsBounded
<1>2. S \subseteq Int /\ b \in Int
  OBVIOUS
<1> QED
  BY <1>1, <1>2, MaxOfBounded
=============================================================================
