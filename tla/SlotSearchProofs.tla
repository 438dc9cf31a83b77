-------------------------- MODULE SlotSearchProofs --------------------------
(* What the table search returns. *)
EXTENDS SlotSearch, FiniteSetTheorems, TLAPS

(* A set of indices has a least element: the smallest of the initial       *)
(* segments {j \in S : j <= i} is that of the least index.                 *)
LEMMA LeastIndex ==
    ASSUME NEW n \in Nat, NEW S, S \subseteq 1 .. n, S # {}
    PROVE  \E x \in S : \A y \in S : x <= y
<1> DEFINE Below(i) == {j \in S : j <= i}
           Segments == {Below(i) : i \in S}
<1>1. IsFiniteSet(S)
  <2>1. IsFiniteSet(1 .. n)
    BY FS_Interval
  <2> QED BY <2>1, FS_Subset
<1>2. Segments \subseteq FiniteSubsetsOf(S)
  BY <1>1, FS_FiniteSubsetsOfFinite
<1>3. Segments # {}
  OBVIOUS
<1>4. PICK B \in Segments : \A C \in Segments : ~ (<<C, B>> \in StrictSubsetOrdering(S))
  <2>1. IsWellFoundedOn(StrictSubsetOrdering(S), FiniteSubsetsOf(S))
    BY FS_StrictSubsetOrderingWellFounded
  <2> HIDE DEF Segments
  <2> QED BY <1>2, <1>3, <2>1, WFMin
<1>5. PICK x \in S : B = Below(x)
  OBVIOUS
<1>6. ASSUME NEW y \in S, ~ (x <= y)
      PROVE  FALSE
  <2>1. Below(y) \in Segments
    OBVIOUS
  <2>2. Below(y) \subseteq Below(x)
    <3> SUFFICES ASSUME NEW j \in S, j <= y PROVE j <= x
      OBVIOUS
    <3>1. j \in Nat /\ x \in Nat /\ y \in Nat
      OBVIOUS
    <3> QED BY <1>6, <3>1
  <2>3. x \in Below(x) /\ x \notin Below(y)
    BY <1>6
  <2>4. <<Below(y), Below(x)>> \in StrictSubsetOrdering(S)
    BY <2>2, <2>3 DEF StrictSubsetOrdering
  <2> QED BY <1>4, <1>5, <2>1, <2>4
<1> QED BY <1>6

(* A search finds an index exactly when one satisfies the predicate, and   *)
(* then it finds one of them (ble_central.cpp:20-26).                      *)
LEMMA LowestFound ==
    ASSUME NEW n \in Nat, NEW S, S \subseteq 1 .. n
    PROVE  /\ Lowest(S) = 0 <=> S = {}
           /\ Lowest(S) # 0 => Lowest(S) \in S
<1>1. CASE S = {}
  BY <1>1 DEF Lowest
<1>2. CASE S # {}
  <2>1. Min(S) \in S
    BY <1>2, LeastIndex DEF Min
  <2> QED BY <1>2, <2>1 DEF Lowest
<1> QED BY <1>1, <1>2

=============================================================================
