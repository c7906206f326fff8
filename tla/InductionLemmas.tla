---------------------------- MODULE InductionLemmas ----------------------------
(***************************************************************************)
(* Induction over the naturals with a set in the place of a predicate, so  *)
(* that first-order provers can apply it: the loops of the decoder and of  *)
(* the snapper, and the sets of rows, are reasoned about with it.          *)
(***************************************************************************)
EXTENDS Integers, FiniteSets, FiniteSetTheorems, WellFoundedInduction, TLAPS

(* A non-empty set of naturals has a least member: the interval up to it   *)
(* is the smallest of the intervals up to a member.                        *)
LEMMA LeastNatural ==
  ASSUME NEW T, T \subseteq Nat, T # {}
  PROVE  \E m \in T : \A k \in T : m <= k
<1> DEFINE U == {0..n : n \in T}
<1>1. U \subseteq FiniteSubsetsOf(Nat)
  <2>1. \A n \in T : 0..n \in SUBSET Nat /\ IsFiniteSet(0..n)
    BY FS_Interval
  <2>2. \A u \in U : u \in SUBSET Nat /\ IsFiniteSet(u)
    BY <2>1
  <2>3. QED
    BY <2>2 DEF FiniteSubsetsOf
<1>2. U # {}
  OBVIOUS
<1> HIDE DEF U
<1>3. PICK u \in U : \A w \in U : <<w, u>> \notin StrictSubsetOrdering(Nat)
  BY <1>1, <1>2, FS_StrictSubsetOrderingWellFounded, WFMin, Zenon
<1>4. PICK m \in T : u = 0..m
  BY DEF U
<1>5. ASSUME NEW k \in T, k < m
      PROVE  FALSE
  <2>1. 0..k \in U /\ 0..k \subseteq 0..m /\ 0..k # 0..m
    BY <1>5 DEF U
  <2>2. <<0..k, u>> \in StrictSubsetOrdering(Nat)
    BY <1>4, <1>5, <2>1 DEF StrictSubsetOrdering
  <2>3. QED
    BY <1>3, <2>1, <2>2
<1>6. QED
  BY <1>5

(* Induction from m up to n. *)
LEMMA IntervalInduction ==
  ASSUME NEW m \in Nat, NEW n \in Nat, NEW P,
         m \in P,
         \A k \in m..(n - 1) : k \in P => k + 1 \in P
  PROVE  m..n \subseteq P
<1> DEFINE T == (m..n) \ P
<1>1. SUFFICES ASSUME T # {}
               PROVE  FALSE
  OBVIOUS
<1>2. PICK k \in T : \A j \in T : k <= j
  <2>1. T \subseteq Nat
    OBVIOUS
  <2> HIDE DEF T
  <2>2. QED
    BY <1>1, <2>1, LeastNatural
<1>3. k # m /\ k - 1 \in m..(n - 1) /\ k - 1 \notin T
  BY <1>2
<1>4. k - 1 \in P
  BY <1>3
<1>5. QED
  BY <1>3, <1>4

(* Induction over all naturals. *)
LEMMA SetInduction ==
  ASSUME NEW P, 0 \in P, \A k \in Nat : k \in P => k + 1 \in P
  PROVE  Nat \subseteq P
<1>1. \A n \in Nat : 0..n \subseteq P
  BY IntervalInduction
<1>2. QED
  BY <1>1
==============================================================================
