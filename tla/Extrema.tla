-------------------------------- MODULE Extrema --------------------------------
(***************************************************************************)
(* Least and greatest elements of sets of natural numbers, which the       *)
(* proofs about numbered posts, attempts and times keep needing.           *)
(***************************************************************************)
EXTENDS Naturals, FiniteSets, FiniteSetsExt, FiniteSetTheorems,
        WellFoundedInduction, TLAPS

Less == {m \in Nat \X Nat : m[1] < m[2]}

LEMMA LessWellFounded == IsWellFoundedOn(Less, Nat)
<1>1. Less = OpToRel(<, Nat)
  BY DEF Less, OpToRel
<1> QED
  BY <1>1, NatLessThanWellFounded

LEMMA LeastExists ==
  ASSUME NEW S \in SUBSET Nat, S # {}
  PROVE  \E x \in S : \A y \in S : x <= y
<1>1. PICK x \in S : \A y \in S : <<y, x>> \notin Less
  BY LessWellFounded, WFMin
<1>2. \A y \in S : ~(y < x)
  BY <1>1 DEF Less
<1> QED
  BY <1>1, <1>2

LEMMA GreatestExists ==
  ASSUME NEW S \in SUBSET Nat, S # {}, NEW b \in Nat, \A x \in S : x <= b
  PROVE  \E x \in S : \A y \in S : y <= x
<1> DEFINE D == {d \in Nat : b - d \in S}
<1>1. D # {}
  <2>1. PICK x \in S : TRUE
    OBVIOUS
  <2>2. b - x \in Nat /\ b - (b - x) = x
    BY <2>1
  <2> QED
    BY <2>1, <2>2
<1>2. PICK d \in D : \A y \in D : d <= y
  <2> HIDE DEF D
  <2>1. D \in SUBSET Nat
    BY DEF D
  <2> QED
    BY <1>1, <2>1, LeastExists
<1>3. ASSUME NEW y \in S PROVE y <= b - d
  <2>1. b - y \in Nat /\ b - (b - y) = y
    BY <1>3
  <2>2. d <= b - y
    BY <1>2, <1>3, <2>1
  <2> QED
    BY <1>2, <1>3, <2>1, <2>2
<1> QED
  BY <1>2, <1>3

LEMMA MinOf ==
  ASSUME NEW S \in SUBSET Nat, S # {}
  PROVE  Min(S) \in S /\ \A x \in S : Min(S) <= x
BY LeastExists DEF Min

LEMMA MaxOfBounded ==
  ASSUME NEW S \in SUBSET Nat, S # {}, NEW b \in Nat, \A x \in S : x <= b
  PROVE  Max(S) \in S /\ \A x \in S : x <= Max(S)
BY GreatestExists DEF Max

LEMMA MaxOf ==
  ASSUME NEW S, S \subseteq Nat, IsFiniteSet(S), S # {}
  PROVE  Max(S) \in S /\ \A x \in S : x <= Max(S)
<1> DEFINE From(i) == {j \in S : i <= j}
<1> DEFINE Tails == {T \in SUBSET S : \E i \in S : T = From(i)}
<1> DEFINE Smaller == StrictSubsetOrdering(S)
<1>1. IsWellFoundedOn(Smaller, SUBSET S)
  BY FS_StrictSubsetOrderingWellFounded, FS_FiniteSubsetsOfFinite
<1>2. Tails \subseteq SUBSET S /\ Tails # {}
  OBVIOUS
<1>3. PICK T \in Tails : \A U \in Tails : <<U, T>> \notin Smaller
  <2> HIDE DEF Tails, Smaller
  <2> QED
    BY <1>1, <1>2, WFMin
<1>4. PICK i \in S : T = From(i)
  BY <1>3
<1>5. \A j \in S : j <= i
  <2> SUFFICES ASSUME NEW j \in S, i < j PROVE FALSE
    OBVIOUS
  <2> i \in Nat /\ j \in Nat /\ S \subseteq Nat
    OBVIOUS
  <2>1. From(j) \in Tails /\ From(j) \subseteq T
    <3>1. \A k \in From(j) : k \in From(i)
      OBVIOUS
    <3> QED
      BY <1>4, <3>1
  <2>2. i \in T /\ i \notin From(j)
    BY <1>4
  <2>3. <<From(j), T>> \in Smaller
    BY <2>1, <2>2, <1>2, <1>3 DEF StrictSubsetOrdering
  <2> QED
    BY <1>3, <2>1, <2>3
<1> QED
  BY <1>5 DEF Max
=============================================================================
