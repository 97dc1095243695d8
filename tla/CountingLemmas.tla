---------------------------- MODULE CountingLemmas ----------------------------
(***************************************************************************)
(* How the size of a set changes when one element may come or go: what the *)
(* accounts of permits, slots, requests and ratings all rest on.  And that *)
(* Arrange, which finds the place of an element by counting those before   *)
(* it, does put a finite set in order.                                     *)
(***************************************************************************)
EXTENDS Arrangement, FunctionTheorems, FiniteSetTheorems, TLAPS

(* What x adds to the number of elements of S.                              *)
Counts(x, S) == IF x \in S THEN 1 ELSE 0

LEMMA OneChanges ==
  ASSUME NEW S, NEW T, NEW x, IsFiniteSet(S),
         \A y : y # x => (y \in S <=> y \in T)
  PROVE  /\ IsFiniteSet(T)
         /\ Cardinality(S) \in Nat /\ Cardinality(T) \in Nat
         /\ Cardinality(T) = Cardinality(S) + Counts(x, T) - Counts(x, S)
<1>1. Cardinality(S) \in Nat BY FS_CardinalityType
<1>2. CASE x \in S <=> x \in T
  <2>1. S = T BY <1>2
  <2> QED BY <1>1, <2>1 DEF Counts
<1>3. CASE x \notin S /\ x \in T
  <2>1. T = S \cup {x} BY <1>3
  <2>2. IsFiniteSet(T) /\ Cardinality(T) = Cardinality(S) + 1 BY <1>3, <2>1, FS_AddElement
  <2> QED BY <1>1, <1>3, <2>2 DEF Counts
<1>4. CASE x \in S /\ x \notin T
  <2>1. T = S \ {x} BY <1>4
  <2>2. IsFiniteSet(T) /\ Cardinality(T) = Cardinality(S) - 1
    BY <1>4, <2>1, FS_RemoveElement
  <2>3. Cardinality(T) \in Nat BY <2>2, FS_CardinalityType
  <2> QED BY <1>1, <1>4, <2>2, <2>3 DEF Counts
<1> QED BY <1>2, <1>3, <1>4

-----------------------------------------------------------------------------
(* Arrange.                                                                 *)
StrictOrder(S, before) ==
  /\ \A x \in S : <<x, x>> \notin before
  /\ \A x, y, z \in S : <<x, y>> \in before /\ <<y, z>> \in before => <<x, z>> \in before
  /\ \A x, y \in S : x = y \/ <<x, y>> \in before \/ <<y, x>> \in before

Earlier(S, before, x) == {y \in S : <<y, x>> \in before}

(* What comes before an element is less than what comes before a later one. *)
LEMMA EarlierIsFewer ==
  ASSUME NEW S, IsFiniteSet(S), NEW before, StrictOrder(S, before), NEW x \in S
  PROVE  /\ Cardinality(S) \in Nat
         /\ Cardinality(Earlier(S, before, x)) \in 0..(Cardinality(S) - 1)
         /\ \A y \in S : <<x, y>> \in before =>
              Cardinality(Earlier(S, before, x)) < Cardinality(Earlier(S, before, y))
<1>1. ASSUME NEW T \in SUBSET S, Earlier(S, before, x) \subseteq T, x \in T
      PROVE  /\ Cardinality(T) \in Nat /\ Cardinality(Earlier(S, before, x)) \in Nat
             /\ Cardinality(Earlier(S, before, x)) < Cardinality(T)
  <2> DEFINE less == Earlier(S, before, x)
  <2>1. x \notin less BY DEF Earlier, StrictOrder
  <2>2. IsFiniteSet(T) BY FS_Subset
  <2>3. IsFiniteSet(less) /\ Cardinality(less) <= Cardinality(T)
        /\ (Cardinality(less) = Cardinality(T) => less = T)
    BY <1>1, <2>2, FS_Subset
  <2>4. Cardinality(less) \in Nat /\ Cardinality(T) \in Nat
    BY <2>2, <2>3, FS_CardinalityType
  <2> QED BY <1>1, <2>1, <2>3, <2>4
<1>2. Earlier(S, before, x) \in SUBSET S BY DEF Earlier
<1>3. /\ Cardinality(S) \in Nat
      /\ Cardinality(Earlier(S, before, x)) \in 0..(Cardinality(S) - 1)
  BY <1>1, <1>2
<1>4. ASSUME NEW y \in S, <<x, y>> \in before
      PROVE  Cardinality(Earlier(S, before, x)) < Cardinality(Earlier(S, before, y))
  <2>1. Earlier(S, before, y) \in SUBSET S BY DEF Earlier
  <2>2. Earlier(S, before, x) \subseteq Earlier(S, before, y)
    BY <1>4 DEF Earlier, StrictOrder
  <2>3. x \in Earlier(S, before, y) BY <1>4 DEF Earlier
  <2> QED BY <1>1, <2>1, <2>2, <2>3
<1> QED BY <1>3, <1>4

LEMMA ArrangeOrders ==
  ASSUME NEW S, IsFiniteSet(S), NEW before, StrictOrder(S, before)
  PROVE  LET a == Arrange(S, before)
             n == Cardinality(S)
         IN  /\ n \in Nat /\ a \in [1..n -> S]
             /\ \A x \in S : \E k \in 1..n : a[k] = x
             /\ \A i, j \in 1..n : i < j => <<a[i], a[j]>> \in before
<1> DEFINE a == Arrange(S, before)
           n == Cardinality(S)
           rank == [x \in S |-> Cardinality(Earlier(S, before, x)) + 1]
<1>1. n \in Nat BY FS_CardinalityType
<1>2. \A x \in S : rank[x] \in 1..n BY <1>1, EarlierIsFewer
<1>3. \A x, y \in S : <<x, y>> \in before => rank[x] < rank[y]
  BY EarlierIsFewer
<1>4. ASSUME NEW x \in S, NEW y \in S, rank[x] = rank[y] PROVE x = y
  <2>1. rank[x] \in Int /\ ~(rank[x] < rank[y]) /\ ~(rank[y] < rank[x]) BY <1>1, <1>2, <1>4
  <2> QED BY <1>3, <2>1 DEF StrictOrder
<1>5. rank \in Injection(S, 1..n)
  BY <1>2, <1>4, Fun_IsInj
<1>6. IsFiniteSet(1..n) /\ Cardinality(1..n) = n BY <1>1, FS_Interval
<1>7. rank \in Surjection(S, 1..n) BY <1>5, <1>6, FS_Injection
<1>8. \A k \in 1..n : \E x \in S : rank[x] = k BY <1>7 DEF Surjection
<1>9. ASSUME NEW k \in 1..n PROVE a[k] \in S /\ rank[a[k]] = k
  <2>1. a[k] = CHOOSE x \in S : Cardinality(Earlier(S, before, x)) = k - 1
    BY DEF Arrange, Earlier
  <2>2. PICK x \in S : rank[x] = k BY <1>8
  <2>3. Cardinality(Earlier(S, before, x)) = k - 1
    BY <2>2, EarlierIsFewer
  <2>4. a[k] \in S /\ Cardinality(Earlier(S, before, a[k])) = k - 1
    BY <2>1, <2>3
  <2> QED BY <2>4
<1>10. a \in [1..n -> S] BY <1>9 DEF Arrange
<1> HIDE DEF a, n, rank
<1>11. \A x \in S : \E k \in 1..n : a[k] = x BY <1>2, <1>4, <1>9
<1>12. ASSUME NEW i \in 1..n, NEW j \in 1..n, i < j PROVE <<a[i], a[j]>> \in before
  <2>1. a[i] # a[j] BY <1>9, <1>12
  <2>2. <<a[j], a[i]>> \notin before BY <1>1, <1>3, <1>9, <1>12
  <2> QED BY <1>9, <2>1, <2>2 DEF StrictOrder
<1> QED BY <1>1, <1>10, <1>11, <1>12 DEF a, n

(* What is in order already stays as it is.                                 *)
LEMMA ArrangedStays ==
  ASSUME NEW n \in Nat, NEW before,
         \A i, j \in 1..n : <<i, j>> \in before <=> i < j
  PROVE  \A k \in 1..n : Arrange(1..n, before)[k] = k
<1>1. IsFiniteSet(1..n) /\ Cardinality(1..n) = n BY FS_Interval
<1>2. ASSUME NEW x \in 1..n PROVE Cardinality({y \in 1..n : <<y, x>> \in before}) = x - 1
  <2>1. {y \in 1..n : <<y, x>> \in before} = 1..(x - 1) OBVIOUS
  <2>2. Cardinality(1..(x - 1)) = x - 1 BY FS_Interval
  <2> QED BY <2>1, <2>2
<1>3. ASSUME NEW k \in 1..n PROVE Arrange(1..n, before)[k] = k
  <2>1. Arrange(1..n, before)[k] =
          CHOOSE x \in 1..n : Cardinality({y \in 1..n : <<y, x>> \in before}) = k - 1
    BY <1>1 DEF Arrange
  <2>2. \A x \in 1..n :
          Cardinality({y \in 1..n : <<y, x>> \in before}) = k - 1 <=> x = k
    BY <1>2
  <2> QED BY <2>1, <2>2
<1> QED BY <1>3

===============================================================================
