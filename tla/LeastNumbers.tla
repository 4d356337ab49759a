---------------------------- MODULE LeastNumbers ----------------------------
(***************************************************************************)
(* Induction over the naturals, as the existence of a least element: a set *)
(* of counterexamples that is not empty has a first one.                   *)
(***************************************************************************)
EXTENDS Integers, FiniteSets, FiniteSetTheorems, TLAPS

\* A set of naturals that is not empty has a least element.  Its initial intervals are
\* finite sets, which strict inclusion orders well
LEMMA LeastNumber ==
  ASSUME NEW T \in SUBSET Nat, T # {}
  PROVE  \E n \in T : \A m \in T : n <= m
<1>1. PICK k \in T : TRUE  OBVIOUS
<1> DEFINE F == {0..n : n \in {m \in T : m <= k}}
<1>2. F \subseteq FiniteSubsetsOf(0..k) /\ F # {}
  <2>1. \A n \in Nat : IsFiniteSet(0..n)  BY FS_Interval
  <2>2. \A n \in T : n <= k => 0..n \in SUBSET (0..k)  OBVIOUS
  <2>3. ASSUME NEW A \in F PROVE A \in FiniteSubsetsOf(0..k)
    BY <2>1, <2>2 DEF FiniteSubsetsOf
  <2>4. 0..k \in F  OBVIOUS
  <2> QED BY <2>3, <2>4
<1>3. PICK A \in F : \A B \in F : ~(<<B, A>> \in StrictSubsetOrdering(0..k))
  <2>1. IsWellFoundedOn(StrictSubsetOrdering(0..k), FiniteSubsetsOf(0..k))
    BY FS_StrictSubsetOrderingWellFounded
  <2> HIDE DEF F
  <2> QED BY <1>2, <2>1, WFMin
<1>4. PICK n \in T : n <= k /\ A = 0..n  OBVIOUS
<1>5. ASSUME NEW m \in T, m < n PROVE FALSE
  <2>1. 0..m \in F  BY <1>4, <1>5
  <2>2. 0..m \subseteq 0..n /\ 0..m # 0..n  BY <1>5
  <2>3. <<0..m, 0..n>> \in StrictSubsetOrdering(0..k)
    BY <1>2, <1>4, <2>1, <2>2 DEF StrictSubsetOrdering, FiniteSubsetsOf
  <2> QED BY <1>3, <1>4, <2>1, <2>3
<1> QED BY <1>5

\* ... and a largest one, if it is bounded
LEMMA LargestNumber ==
  ASSUME NEW T \in SUBSET Int, NEW b \in Int, T # {}, \A n \in T : n <= b
  PROVE  \E n \in T : \A m \in T : m <= n
<1> DEFINE D == {b - n : n \in T}
<1>1. \A n \in T : n \in Int /\ b - n \in Nat  OBVIOUS
<1>2. D \in SUBSET Nat /\ D # {}  BY <1>1
<1>3. PICK d \in D : \A c \in D : d <= c
  <2> HIDE DEF D
  <2> QED BY <1>2, LeastNumber
<1>4. PICK n \in T : d = b - n  OBVIOUS
<1>5. ASSUME NEW m \in T PROVE m <= n
  <2>1. b - n <= b - m  BY <1>3, <1>4
  <2> QED BY <1>1, <2>1
<1> QED BY <1>5
=============================================================================
