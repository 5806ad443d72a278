---------------------------- MODULE OrderBookProofs ----------------------------
(***************************************************************************)
(* What the three ways to keep an order book guarantee for every number of *)
(* prices and amounts and deltas of every length.                          *)
(***************************************************************************)
EXTENDS OrderBook, FiniteSetTheorems, SequenceTheorems, WellFoundedInduction, TLAPS

(* Naturals                                                                *)

(* A set of naturals has a least one; a bounded one has a greatest.        *)
LEMMA LeastNat ==
    ASSUME NEW S, S \subseteq Nat, S # {}
    PROVE  \E m \in S : \A n \in S : m <= n
<1>1. PICK m \in S : \A n \in S : <<n, m>> \notin OpToRel(<, Nat)
  BY NatLessThanWellFounded, WFMin
<1>2. \A n \in S : ~(n < m)
  BY <1>1 DEF OpToRel
<1> QED
  BY <1>2

LEMMA GreatestBelow ==
    ASSUME NEW n \in Nat, NEW S, S \subseteq 1..n, S # {}
    PROVE  \E m \in S : \A i \in S : i <= m
<1> DEFINE T == {j \in Nat : n - j \in S}
<1>1. T # {}
  <2>1. PICK i \in S : TRUE
    OBVIOUS
  <2>2. n - i \in T
    BY <2>1
  <2> QED
    BY <2>2
<1>2. PICK j \in T : \A h \in T : j <= h
  BY <1>1, LeastNat
<1>3. ASSUME NEW i \in S PROVE i <= n - j
  <2>1. n - i \in T
    OBVIOUS
  <2> QED
    BY <1>2, <2>1
<1> QED
  BY <1>3

(* Induction, for a set instead of a predicate.                            *)
LEMMA InductiveSet ==
    ASSUME NEW n \in Nat, NEW S, 0 \in S, \A i \in 1..n : i - 1 \in S => i \in S
    PROVE  0..n \subseteq S
<1> SUFFICES ASSUME (0..n) \ S # {} PROVE FALSE
  OBVIOUS
<1>1. PICK m \in (0..n) \ S : \A i \in (0..n) \ S : m <= i
  <2>1. (0..n) \ S \subseteq Nat
    OBVIOUS
  <2> QED
    BY <2>1, LeastNat
<1>2. m \in 1..n /\ m - 1 \in 0..n
  BY <1>1
<1>3. m - 1 \in S
  BY <1>1, <1>2
<1> QED
  BY <1>1, <1>2, <1>3

-----------------------------------------------------------------------------
(* Arranging a set                                                         *)

(* A total order ranks a finite set: every rank is taken, once.            *)
LEMMA Ranks ==
    ASSUME NEW K, IsFiniteSet(K), NEW R,
           \A j \in K : <<j, j>> \notin R,
           \A i, j, k \in K : <<i, j>> \in R /\ <<j, k>> \in R => <<i, k>> \in R,
           \A i, j \in K : i # j => <<i, j>> \in R \/ <<j, i>> \in R
    PROVE  \E f \in [1..Cardinality(K) -> K] :
               /\ \A j \in K : \E i \in 1..Cardinality(K) : f[i] = j
               /\ \A i \in 1..Cardinality(K) : \A j \in K :
                      Cardinality({k \in K : <<k, j>> \in R}) = i - 1 <=> j = f[i]
               /\ \A i, j \in 1..Cardinality(K) : i < j <=> <<f[i], f[j]>> \in R
<1> DEFINE n == Cardinality(K)
           Pred(j) == {k \in K : <<k, j>> \in R}
           rank == [j \in K |-> Cardinality(Pred(j))]
<1>1. n \in Nat
  BY FS_CardinalityType
<1>2. ASSUME NEW j \in K PROVE IsFiniteSet(Pred(j)) /\ Cardinality(Pred(j)) \in 0..n-1
  <2>1. Pred(j) \in SUBSET (K \ {j})
    OBVIOUS
  <2>2. IsFiniteSet(K \ {j}) /\ Cardinality(K \ {j}) = n - 1
    BY FS_RemoveElement
  <2>3. IsFiniteSet(Pred(j)) /\ Cardinality(Pred(j)) <= n - 1
    <3> HIDE DEF Pred, n
    <3> QED
      BY <2>1, <2>2, FS_Subset
  <2> QED
    BY <1>1, <2>3, FS_CardinalityType
<1>3. ASSUME NEW i \in K, NEW j \in K, <<i, j>> \in R PROVE rank[i] < rank[j]
  <2>1. Pred(i) \subseteq Pred(j) /\ i \in Pred(j) /\ i \notin Pred(i)
    BY <1>3
  <2> HIDE DEF Pred
  <2>2. /\ Cardinality(Pred(i)) <= Cardinality(Pred(j))
        /\ Cardinality(Pred(j)) = Cardinality(Pred(i)) => Pred(j) = Pred(i)
    BY <1>2, <2>1, FS_Subset
  <2> QED
    BY <1>1, <1>2, <2>1, <2>2
<1>4. rank \in [K -> 0..n-1]
  BY <1>2
<1> HIDE DEF rank, n
<1>5. \A i, j \in K : i # j => rank[i] # rank[j]
  <2> SUFFICES ASSUME NEW i \in K, NEW j \in K, i # j PROVE rank[i] # rank[j]
    OBVIOUS
  <2>1. rank[i] \in Nat /\ rank[j] \in Nat
    BY <1>1, <1>4
  <2>2. rank[i] < rank[j] \/ rank[j] < rank[i]
    BY <1>3
  <2> QED
    BY <2>1, <2>2
<1>6. rank \in Injection(K, 0..n-1)
  BY <1>4, <1>5 DEF Injection, IsInjective
<1>7. IsFiniteSet(0..n-1) /\ Cardinality(0..n-1) = n
  BY <1>1, FS_Interval
<1>8. rank \in Surjection(K, 0..n-1)
  BY <1>6, <1>7, FS_Injection DEF n
<1>9. \A i \in 0..n-1 : \E j \in K : rank[j] = i
  BY <1>8 DEF Surjection
<1> DEFINE f == [i \in 1..n |-> CHOOSE j \in K : rank[j] = i - 1]
<1>10. \A i \in 1..n : f[i] \in K /\ rank[f[i]] = i - 1
  BY <1>1, <1>9
<1> HIDE DEF f
<1>11. f \in [1..n -> K]
  BY <1>10 DEF f
<1>12. \A i \in 1..n : \A j \in K : rank[j] = i - 1 <=> j = f[i]
  BY <1>5, <1>10
<1>13. \A j \in K : \E i \in 1..n : f[i] = j
  <2> SUFFICES ASSUME NEW j \in K PROVE rank[j] + 1 \in 1..n /\ f[rank[j] + 1] = j
    OBVIOUS
  <2>1. rank[j] \in 0..n-1
    BY <1>4
  <2>2. rank[j] + 1 \in 1..n /\ rank[j] = (rank[j] + 1) - 1
    BY <1>1, <2>1
  <2> QED
    BY <1>12, <2>2
<1>14. \A i, j \in 1..n : i < j <=> <<f[i], f[j]>> \in R
  <2> SUFFICES ASSUME NEW i \in 1..n, NEW j \in 1..n PROVE i < j <=> <<f[i], f[j]>> \in R
    OBVIOUS
  <2>1. /\ f[i] \in K /\ rank[f[i]] = i - 1
        /\ f[j] \in K /\ rank[f[j]] = j - 1
    BY <1>10
  <2>2. <<f[i], f[j]>> \in R => i < j
    BY <1>1, <1>3, <2>1
  <2>3. <<f[j], f[i]>> \in R => j < i
    BY <1>1, <1>3, <2>1
  <2>4. i # j => f[i] # f[j]
    BY <1>1, <2>1
  <2> QED
    BY <1>1, <2>1, <2>2, <2>3, <2>4
<1>15. \A j \in K : rank[j] = Cardinality({k \in K : <<k, j>> \in R})
  BY DEF rank
<1> QED
  <2>1. \A i \in 1..n : \A j \in K :
            Cardinality({k \in K : <<k, j>> \in R}) = i - 1 <=> j = f[i]
    BY <1>12, <1>15
  <2> QED
    BY <1>11, <1>13, <1>14, <2>1 DEF n

-----------------------------------------------------------------------------
(* Sorting and retaining                                                   *)

(* What a level of a side, and one of a delta, is made of.                 *)
LEMMA LevelTyped ==
    ASSUME NEW s \in Seq(Levels), NEW i \in 1..Len(s)
    PROVE  /\ s[i] \in Levels
           /\ s[i].price \in Prices /\ s[i].price \in Int
           /\ s[i].amount \in Amounts /\ s[i].amount \in Int
<1>1. s[i] \in Levels
  OBVIOUS
<1> QED
  BY <1>1, BookAssumption DEF Levels, Prices, Amounts

LEMMA EntryTyped ==
    ASSUME NEW e \in Levels
    PROVE  /\ e.price \in Prices /\ e.price \in Int
           /\ e.amount \in Amounts /\ e.amount \in Nat
BY BookAssumption DEF Levels, Prices, Amounts

LEMMA PlacesFinite ==
    ASSUME NEW s \in Seq(Levels)
    PROVE  /\ Len(s) \in Nat /\ DOMAIN s = 1..Len(s)
           /\ IsFiniteSet(1..Len(s)) /\ Cardinality(1..Len(s)) = Len(s)
<1>1. Len(s) \in Nat /\ DOMAIN s = 1..Len(s)
  OBVIOUS
<1> QED
  BY <1>1, FS_Interval

\* f tells from where sorting and retaining take the levels of s.
SortedBy(s, f) ==
    /\ \A j \in 1..Len(s) : \E i \in 1..Len(s) : f[i] = j
    /\ Sorted(s) = [i \in 1..Len(s) |-> s[f[i]]]
    /\ \A i, j \in 1..Len(s) : i < j <=>
           \/ Better(s[f[i]].price, s[f[j]].price)
           \/ s[f[i]].price = s[f[j]].price /\ f[i] < f[j]

RetainedBy(s, p, n, f) ==
    /\ \A j \in 1..Len(s) : s[j].price # p => \E i \in 1..n : f[i] = j
    /\ \A i \in 1..n : s[f[i]].price # p
    /\ Without(s, p) = [i \in 1..n |-> s[f[i]]]
    /\ \A i, j \in 1..n : i < j <=> f[i] < f[j]

(* Sorting rearranges the levels, and levels of one price stay in order.   *)
LEMMA SortedRearranges ==
    ASSUME NEW s \in Seq(Levels)
    PROVE  \E f \in [1..Len(s) -> 1..Len(s)] : SortedBy(s, f)
<1> DEFINE K == 1..Len(s)
           Before(i, j) == \/ Better(s[i].price, s[j].price)
                           \/ s[i].price = s[j].price /\ i < j
           R == {ij \in K \X K : Before(ij[1], ij[2])}
<1>1. Len(s) \in Nat /\ DOMAIN s = K /\ IsFiniteSet(K) /\ Cardinality(K) = Len(s)
  BY PlacesFinite
<1>2. \A i, j \in K : <<i, j>> \in R <=> Before(i, j)
  OBVIOUS
<1>3. /\ \A j \in K : <<j, j>> \notin R
      /\ \A i, j, k \in K : <<i, j>> \in R /\ <<j, k>> \in R => <<i, k>> \in R
      /\ \A i, j \in K : i # j => <<i, j>> \in R \/ <<j, i>> \in R
  <2>1. \A i \in K : s[i].price \in Int /\ i \in Int
    BY LevelTyped
  <2>2. \A j \in K : ~Before(j, j)
    BY <2>1 DEF Better
  <2>3. ASSUME NEW i \in K, NEW j \in K, NEW k \in K, Before(i, j), Before(j, k)
        PROVE  Before(i, k)
    BY <2>1, <2>3 DEF Better
  <2>4. ASSUME NEW i \in K, NEW j \in K, i # j PROVE Before(i, j) \/ Before(j, i)
    BY <2>1, <2>4 DEF Better
  <2> HIDE DEF R, Before
  <2> QED
    BY <1>2, <2>2, <2>3, <2>4
<1>4. \A j \in K : {k \in K : <<k, j>> \in R} = {k \in K : Before(k, j)}
  BY <1>2
<1> HIDE DEF R
<1>5. PICK f \in [1..Cardinality(K) -> K] :
          /\ \A j \in K : \E i \in 1..Cardinality(K) : f[i] = j
          /\ \A i \in 1..Cardinality(K) : \A j \in K :
                 Cardinality({k \in K : <<k, j>> \in R}) = i - 1 <=> j = f[i]
          /\ \A i, j \in 1..Cardinality(K) : i < j <=> <<f[i], f[j]>> \in R
  BY <1>1, <1>3, Ranks
<1>6. \A i \in K : f[i] = CHOOSE j \in K : Cardinality({k \in K : Before(k, j)}) = i - 1
  <2>1. \A i, j \in K : Cardinality({k \in K : Before(k, j)}) = i - 1 <=> j = f[i]
    BY <1>1, <1>4, <1>5
  <2>2. \A i \in K : f[i] \in K
    BY <1>1, <1>5
  <2> HIDE DEF Before, K
  <2> QED
    BY <2>1, <2>2
<1>7. Sorted(s) = [i \in K |->
                      s[CHOOSE j \in K : Cardinality({k \in K : Before(k, j)}) = i - 1]]
  BY <1>1 DEF Sorted, Arranged
<1>8. Sorted(s) = [i \in K |-> s[f[i]]]
  BY <1>6, <1>7
<1>9. \A i, j \in K : i < j <=> Before(f[i], f[j])
  BY <1>1, <1>2, <1>5
<1>10. f \in [K -> K] /\ \A j \in K : \E i \in K : f[i] = j
  BY <1>1, <1>5
<1>11. SortedBy(s, f)
  BY <1>8, <1>9, <1>10 DEF SortedBy
<1> QED
  BY <1>10, <1>11

(* retain() keeps the levels of other prices, in their order.              *)
LEMMA WithoutRearranges ==
    ASSUME NEW s \in Seq(Levels), NEW p
    PROVE  \E n \in Nat : \E f \in [1..n -> 1..Len(s)] : RetainedBy(s, p, n, f)
<1> DEFINE K == DOMAIN s \ PlacesOf(s, p)
           R == {ij \in K \X K : ij[1] < ij[2]}
           n == Cardinality(K)
<1>1. Len(s) \in Nat /\ DOMAIN s = 1..Len(s) /\ IsFiniteSet(1..Len(s))
  BY PlacesFinite
<1>2. K \in SUBSET (1..Len(s)) /\ \A j \in 1..Len(s) : j \in K <=> s[j].price # p
  BY <1>1 DEF PlacesOf
<1> HIDE DEF K
<1>3. IsFiniteSet(K) /\ n \in Nat
  BY <1>1, <1>2, FS_Subset, FS_CardinalityType
<1>4. \A i, j \in K : <<i, j>> \in R <=> i < j
  OBVIOUS
<1>5. \A i \in K : i \in Int
  BY <1>2
<1>6. /\ \A j \in K : <<j, j>> \notin R
      /\ \A i, j, k \in K : <<i, j>> \in R /\ <<j, k>> \in R => <<i, k>> \in R
      /\ \A i, j \in K : i # j => <<i, j>> \in R \/ <<j, i>> \in R
  <2> HIDE DEF R
  <2> QED
    BY <1>4, <1>5
<1>7. \A j \in K : {k \in K : <<k, j>> \in R} = {k \in K : k < j}
  BY <1>4
<1> HIDE DEF R
<1>8. PICK f \in [1..n -> K] :
          /\ \A j \in K : \E i \in 1..n : f[i] = j
          /\ \A i \in 1..n : \A j \in K :
                 Cardinality({k \in K : <<k, j>> \in R}) = i - 1 <=> j = f[i]
          /\ \A i, j \in 1..n : i < j <=> <<f[i], f[j]>> \in R
  BY <1>3, <1>6, Ranks
<1>9. \A i \in 1..n : f[i] = CHOOSE j \in K : Cardinality({k \in K : k < j}) = i - 1
  <2>1. \A i \in 1..n : \A j \in K : Cardinality({k \in K : k < j}) = i - 1 <=> j = f[i]
    BY <1>7, <1>8
  <2> QED
    BY <1>8, <2>1
<1>10. Without(s, p) = [i \in 1..n |->
                           s[CHOOSE j \in K : Cardinality({k \in K : k < j}) = i - 1]]
  BY DEF Without, Arranged, K
<1>11. Without(s, p) = [i \in 1..n |-> s[f[i]]]
  BY <1>9, <1>10
<1>12. f \in [1..n -> 1..Len(s)] /\ \A i \in 1..n : s[f[i]].price # p
  BY <1>2, <1>8
<1> HIDE DEF n
<1>13. \A i, j \in 1..n : i < j <=> f[i] < f[j]
  BY <1>4, <1>8
<1>14. RetainedBy(s, p, n, f)
  BY <1>2, <1>8, <1>11, <1>12, <1>13 DEF RetainedBy
<1> QED
  BY <1>3, <1>12, <1>14

(* A sequence of levels taken from s is one of levels.                     *)
LEMMA TakenFrom ==
    ASSUME NEW s \in Seq(Levels), NEW n \in Nat, NEW f \in [1..n -> 1..Len(s)]
    PROVE  /\ [i \in 1..n |-> s[f[i]]] \in Seq(Levels)
           /\ Len([i \in 1..n |-> s[f[i]]]) = n
<1> DEFINE t == [i \in 1..n |-> s[f[i]]]
<1>1. \A i \in 1..n : s[f[i]] \in Levels
  BY LevelTyped
<1>2. t \in [1..n -> Levels]
  BY <1>1
<1>3. t \in Seq(Levels)
  BY <1>2, SeqDef
<1>4. Len(t) = n
  BY <1>2, <1>3, LenProperties
<1> QED
  BY <1>3, <1>4

(* Sorting orders a side and changes nothing else in it.                   *)
LEMMA SortedLevels ==
    ASSUME NEW s \in Seq(Levels)
    PROVE  /\ Sorted(s) \in Seq(Levels)
           /\ InOrder(Sorted(s))
           /\ Sound(s) => Sound(Sorted(s))
           /\ \A p, a : Has(Sorted(s), p, a) <=> Has(s, p, a)
<1> DEFINE n == Len(s)
           t == Sorted(s)
<1>0. PICK f \in [1..n -> 1..n] : SortedBy(s, f)
  BY SortedRearranges
<1>1. /\ \A j \in 1..n : \E i \in 1..n : f[i] = j
      /\ t = [i \in 1..n |-> s[f[i]]]
      /\ \A i, j \in 1..n : i < j <=>
             \/ Better(s[f[i]].price, s[f[j]].price)
             \/ s[f[i]].price = s[f[j]].price /\ f[i] < f[j]
  BY <1>0 DEF SortedBy
<1>2. n \in Nat
  OBVIOUS
<1>3. t \in Seq(Levels) /\ Len(t) = n /\ \A i \in 1..n : t[i] = s[f[i]]
  <2> HIDE DEF t
  <2>1. [i \in 1..n |-> s[f[i]]] \in Seq(Levels) /\ Len([i \in 1..n |-> s[f[i]]]) = n
    BY <1>2, TakenFrom
  <2> QED
    BY <1>1, <2>1
<1> HIDE DEF n, t
<1>4. InOrder(t)
  <2> SUFFICES ASSUME NEW i \in 1..n, NEW j \in 1..n, i < j
               PROVE  ~Better(t[j].price, t[i].price)
    BY <1>3 DEF InOrder
  <2>1. t[i].price \in Int /\ t[j].price \in Int
    BY <1>3, LevelTyped
  <2>2. Better(t[i].price, t[j].price) \/ t[i].price = t[j].price
    BY <1>1, <1>3
  <2> QED
    BY <2>1, <2>2 DEF Better
<1>5. Sound(s) => Sound(t)
  <2> SUFFICES ASSUME Sound(s) PROVE Sound(t)
    OBVIOUS
  <2>1. ASSUME NEW i \in 1..n, NEW j \in 1..n, i # j PROVE f[i] # f[j]
    <3>1. i \in 1..Len(t) /\ j \in 1..Len(t)
      BY <1>3
    <3>2. t[i].price \in Int /\ t[j].price \in Int
      BY <1>3, <3>1, LevelTyped
    <3>3. f[i] \in 1..n /\ f[j] \in 1..n
      OBVIOUS
    <3>4. i < j \/ j < i
      BY <1>2, <2>1
    <3>5. t[i] = s[f[i]] /\ t[j] = s[f[j]]
      BY <1>3
    <3>6. ~Better(s[f[i]].price, s[f[i]].price) /\ ~(f[i] < f[i])
      BY <1>2, <3>2, <3>3, <3>5 DEF Better
    <3>7. f[i] = f[j] => ~(i < j) /\ ~(j < i)
      BY <1>1, <3>6
    <3> QED
      BY <3>4, <3>7
  <2>2. \A i \in 1..n : t[i] = s[f[i]] /\ f[i] \in 1..n
    BY <1>3
  <2>3. /\ \A i, j \in 1..n : i # j => s[i].price # s[j].price
        /\ \A i \in 1..n : s[i].amount > 0
    BY DEF Sound, n
  <2>4. ASSUME NEW i \in 1..n, NEW j \in 1..n, i # j PROVE t[i].price # t[j].price
    <3>1. f[i] # f[j]
      BY <2>1, <2>4
    <3>2. s[f[i]].price # s[f[j]].price
      BY <2>2, <2>3, <3>1
    <3>3. t[i] = s[f[i]] /\ t[j] = s[f[j]]
      BY <2>2
    <3> QED
      BY <3>2, <3>3
  <2>5. ASSUME NEW i \in 1..n PROVE t[i].amount > 0
    <3>1. t[i] = s[f[i]] /\ s[f[i]].amount > 0
      BY <2>2, <2>3
    <3> QED
      BY <3>1
  <2> QED
    BY <1>3, <2>4, <2>5 DEF Sound
<1>6. \A p, a : Has(t, p, a) <=> Has(s, p, a)
  <2> SUFFICES ASSUME NEW p, NEW a PROVE Has(t, p, a) <=> Has(s, p, a)
    OBVIOUS
  <2>1. ASSUME NEW i \in 1..n, t[i].price = p, t[i].amount = a PROVE Has(s, p, a)
    BY <1>1, <1>3, <2>1 DEF Has, n
  <2>2. ASSUME NEW j \in 1..n, s[j].price = p, s[j].amount = a PROVE Has(t, p, a)
    BY <1>1, <1>3, <2>2 DEF Has
  <2> QED
    BY <1>3, <2>1, <2>2 DEF Has, n
<1> QED
  BY <1>3, <1>4, <1>5, <1>6 DEF t

(* retain() takes one price out and changes nothing else.                  *)
LEMMA WithoutLevels ==
    ASSUME NEW s \in Seq(Levels), NEW p
    PROVE  /\ Without(s, p) \in Seq(Levels)
           /\ PlacesOf(Without(s, p), p) = {}
           /\ Sound(s) => Sound(Without(s, p))
           /\ InOrder(s) => InOrder(Without(s, p))
           /\ \A q, a : Has(Without(s, p), q, a) <=> q # p /\ Has(s, q, a)
<1> DEFINE t == Without(s, p)
<1>1. PICK n \in Nat : \E f \in [1..n -> 1..Len(s)] : RetainedBy(s, p, n, f)
  BY WithoutRearranges
<1>0. PICK f \in [1..n -> 1..Len(s)] : RetainedBy(s, p, n, f)
  BY <1>1
<1>2. /\ \A j \in 1..Len(s) : s[j].price # p => \E i \in 1..n : f[i] = j
      /\ \A i \in 1..n : s[f[i]].price # p
      /\ t = [i \in 1..n |-> s[f[i]]]
      /\ \A i, j \in 1..n : i < j <=> f[i] < f[j]
  BY <1>0 DEF RetainedBy
<1> HIDE DEF t
<1>3. t \in Seq(Levels) /\ Len(t) = n /\ \A i \in 1..n : t[i] = s[f[i]]
  <2>1. [i \in 1..n |-> s[f[i]]] \in Seq(Levels) /\ Len([i \in 1..n |-> s[f[i]]]) = n
    BY TakenFrom
  <2> QED
    BY <1>2, <2>1
<1>4. PlacesOf(t, p) = {}
  BY <1>2, <1>3 DEF PlacesOf
<1>5. Sound(s) => Sound(t)
  <2> SUFFICES ASSUME Sound(s) PROVE Sound(t)
    OBVIOUS
  <2>1. ASSUME NEW i \in 1..n, NEW j \in 1..n, i # j PROVE f[i] # f[j]
    <3>1. (i < j \/ j < i) /\ f[i] \in Int /\ f[j] \in Int
      BY <2>1
    <3> QED
      BY <1>2, <3>1
  <2>2. \A i \in 1..n : t[i] = s[f[i]] /\ f[i] \in 1..Len(s)
    BY <1>3
  <2>3. /\ \A i, j \in 1..Len(s) : i # j => s[i].price # s[j].price
        /\ \A i \in 1..Len(s) : s[i].amount > 0
    BY DEF Sound
  <2>4. ASSUME NEW i \in 1..n, NEW j \in 1..n, i # j PROVE t[i].price # t[j].price
    <3>1. f[i] # f[j]
      BY <2>1, <2>4
    <3>2. s[f[i]].price # s[f[j]].price
      BY <2>2, <2>3, <3>1
    <3>3. t[i] = s[f[i]] /\ t[j] = s[f[j]]
      BY <2>2
    <3> QED
      BY <3>2, <3>3
  <2>5. ASSUME NEW i \in 1..n PROVE t[i].amount > 0
    <3>1. t[i] = s[f[i]] /\ s[f[i]].amount > 0
      BY <2>2, <2>3
    <3> QED
      BY <3>1
  <2> QED
    BY <1>3, <2>4, <2>5 DEF Sound
<1>6. InOrder(s) => InOrder(t)
  BY <1>2, <1>3 DEF InOrder
<1>7. \A q, a : Has(t, q, a) <=> q # p /\ Has(s, q, a)
  BY <1>2, <1>3 DEF Has
<1> QED
  BY <1>3, <1>4, <1>5, <1>6, <1>7 DEF t

-----------------------------------------------------------------------------
(* The place of a price                                                    *)

(* position() finds a place, the first one, wherever there is one.         *)
LEMMA PositionIsAPlace ==
    ASSUME NEW s \in Seq(Levels), NEW p, PlacesOf(s, p) # {}
    PROVE  Position(s, p) \in 1..Len(s) /\ s[Position(s, p)].price = p
<1>1. PlacesOf(s, p) \subseteq Nat /\ PlacesOf(s, p) \subseteq 1..Len(s)
  BY DEF PlacesOf
<1>2. \E i \in PlacesOf(s, p) : \A j \in PlacesOf(s, p) : i <= j
  BY <1>1, LeastNat
<1>3. Position(s, p) \in PlacesOf(s, p)
  BY <1>2 DEF Position
<1> QED
  BY <1>1, <1>3 DEF PlacesOf

\* t is s after the level e was applied.
After(s, t, e) ==
    \A p, a : a # 0 => (Has(t, p, a) <=> IF p = e.price THEN a = e.amount ELSE Has(s, p, a))

(* A level changed in place.                                               *)
LEMMA ReplacedLevel ==
    ASSUME NEW s \in Seq(Levels), NEW e \in Levels, NEW i \in 1..Len(s),
           s[i].price = e.price, e.amount # 0
    PROVE  /\ ReplaceAt(s, i, e) \in Seq(Levels)
           /\ InOrder(s) => InOrder(ReplaceAt(s, i, e))
           /\ Sound(s) => Sound(ReplaceAt(s, i, e)) /\ After(s, ReplaceAt(s, i, e), e)
<1> DEFINE t == ReplaceAt(s, i, e)
<1>1. /\ t \in Seq(Levels) /\ Len(t) = Len(s) /\ Len(s) \in Nat
      /\ t[i] = e /\ \A j \in 1..Len(s) : j # i => t[j] = s[j]
      /\ \A j \in 1..Len(s) : t[j].price = s[j].price
  BY DEF ReplaceAt
<1> HIDE DEF t
<1>2. InOrder(s) => InOrder(t)
  BY <1>1 DEF InOrder
<1>3. e.amount > 0
  BY BookAssumption DEF Levels, Amounts
<1>4. Sound(s) => Sound(t)
  BY <1>1, <1>3 DEF Sound
<1>5. Sound(s) => After(s, t, e)
  BY <1>1 DEF Sound, After, Has
<1> QED
  BY <1>1, <1>2, <1>4, <1>5 DEF t

(* A level removed at its place.                                           *)
LEMMA RemovedLevel ==
    ASSUME NEW s \in Seq(Levels), NEW e \in Levels, NEW i \in 1..Len(s),
           s[i].price = e.price, e.amount = 0
    PROVE  /\ RemoveAt(s, i) \in Seq(Levels)
           /\ Sound(s) => Sound(RemoveAt(s, i)) /\ After(s, RemoveAt(s, i), e)
<1> DEFINE t == RemoveAt(s, i)
<1>1. /\ t \in Seq(Levels) /\ Len(t) = Len(s) - 1 /\ Len(s) \in Nat
      /\ \A j \in 1..Len(s) - 1 : t[j] = s[IF j < i THEN j ELSE j + 1]
  <2> DEFINE u == SubSeq(s, 1, i - 1)
             v == SubSeq(s, i + 1, Len(s))
  <2>1. Len(s) \in Nat /\ \A j \in 1..Len(s) : s[j] \in Levels
    OBVIOUS
  <2>2. /\ u \in Seq(Levels) /\ Len(u) = i - 1
        /\ \A j \in 1..i - 1 : u[j] = s[j]
    <3>1. 1 \in Int /\ i - 1 \in Int /\ \A j \in 1..i - 1 : s[j] \in Levels
      BY <2>1
    <3> QED
      BY <3>1, SubSeqProperties
  <2>3. /\ v \in Seq(Levels) /\ Len(v) = Len(s) - i
        /\ \A j \in 1..Len(s) - i : v[j] = s[j + i]
    <3>1. i + 1 \in Int /\ Len(s) \in Int /\ \A j \in i + 1..Len(s) : s[j] \in Levels
      BY <2>1
    <3>2. /\ v \in Seq(Levels)
          /\ Len(v) = IF i + 1 <= Len(s) THEN Len(s) - (i + 1) + 1 ELSE 0
          /\ \A j \in 1..Len(s) - (i + 1) + 1 : v[j] = s[i + 1 + j - 1]
      BY <3>1, SubSeqProperties
    <3> QED
      BY <2>1, <3>2
  <2> HIDE DEF u, v
  <2>4. /\ u \o v \in Seq(Levels) /\ Len(u \o v) = Len(u) + Len(v)
        /\ \A j \in 1..Len(u) + Len(v) :
               (u \o v)[j] = IF j <= Len(u) THEN u[j] ELSE v[j - Len(u)]
    <3>1. u \in Seq(Levels) /\ v \in Seq(Levels)
      BY <2>2, <2>3
    <3> QED
      BY <3>1, ConcatProperties
  <2>5. t = u \o v
    BY DEF RemoveAt, u, v
  <2>6. ASSUME NEW j \in 1..Len(s) - 1 PROVE t[j] = s[IF j < i THEN j ELSE j + 1]
    <3> HIDE DEF t
    <3>1. t[j] = IF j <= i - 1 THEN u[j] ELSE v[j - (i - 1)]
      BY <2>1, <2>2, <2>3, <2>4, <2>5
    <3>2. CASE j < i
      BY <2>2, <3>1, <3>2
    <3>3. CASE ~(j < i)
      <4>1. j - (i - 1) \in 1..Len(s) - i /\ (j - (i - 1)) + i = j + 1
        BY <2>1, <3>3
      <4> QED
        BY <2>3, <3>1, <3>3, <4>1
    <3> QED
      BY <3>2, <3>3
  <2> HIDE DEF t
  <2>7. Len(u) + Len(v) = Len(s) - 1
    BY <2>1, <2>2, <2>3
  <2>8. t \in Seq(Levels) /\ Len(t) = Len(s) - 1
    BY <2>4, <2>5, <2>7
  <2> QED
    BY <2>1, <2>6, <2>8
<1> HIDE DEF t
<1> DEFINE from(j) == IF j < i THEN j ELSE j + 1
<1>4. ASSUME NEW j \in 1..Len(s) - 1
      PROVE  from(j) \in 1..Len(s) /\ from(j) # i /\ t[j] = s[from(j)]
  BY <1>1
<1>2. Sound(s) => Sound(t)
  <2> SUFFICES ASSUME Sound(s) PROVE Sound(t)
    OBVIOUS
  <2>1. ASSUME NEW j \in 1..Len(s) - 1, NEW h \in 1..Len(s) - 1, j # h
        PROVE  from(j) # from(h)
    BY <1>1, <2>1
  <2> HIDE DEF from
  <2>2. ASSUME NEW j \in 1..Len(s) - 1, NEW h \in 1..Len(s) - 1, j # h
        PROVE  t[j].price # t[h].price
    <3>1. from(j) # from(h)
      BY <2>1, <2>2
    <3>2. s[from(j)].price # s[from(h)].price
      BY <1>4, <3>1 DEF Sound
    <3> QED
      BY <1>4, <3>2
  <2>3. ASSUME NEW j \in 1..Len(s) - 1 PROVE t[j].amount > 0
    BY <1>4 DEF Sound
  <2> QED
    BY <1>1, <2>2, <2>3 DEF Sound
<1>3. Sound(s) => After(s, t, e)
  <2> SUFFICES ASSUME Sound(s), NEW p, NEW a, a # 0
               PROVE  Has(t, p, a) <=> IF p = e.price THEN a = e.amount ELSE Has(s, p, a)
    BY DEF After
  <2>1. p # e.price /\ Has(s, p, a) => Has(t, p, a)
    <3> SUFFICES ASSUME p # e.price, NEW j \in 1..Len(s), s[j].price = p, s[j].amount = a
                 PROVE  Has(t, p, a)
      BY DEF Has
    <3>1. CASE j < i
      BY <1>1, <3>1 DEF Has
    <3>2. CASE j > i
      <4>1. j - 1 \in 1..Len(s) - 1 /\ t[j - 1] = s[j]
        BY <1>1, <3>2
      <4> QED
        BY <1>1, <4>1 DEF Has
    <3> QED
      BY <3>1, <3>2
  <2>2. Has(t, p, a) => p # e.price /\ Has(s, p, a)
    <3> SUFFICES ASSUME NEW j \in 1..Len(s) - 1, t[j].price = p, t[j].amount = a
                 PROVE  p # e.price /\ Has(s, p, a)
      BY <1>1 DEF Has
    <3>1. PICK h \in 1..Len(s) : h # i /\ t[j] = s[h]
      BY <1>4
    <3> QED
      BY <3>1 DEF Has, Sound
  <2> QED
    BY <2>1, <2>2
<1> QED
  BY <1>1, <1>2, <1>3 DEF t

(* A level appended, its price not being there.                            *)
LEMMA AppendedLevel ==
    ASSUME NEW s \in Seq(Levels), NEW e \in Levels, e.amount # 0
    PROVE  /\ Append(s, e) \in Seq(Levels)
           /\ PlacesOf(s, e.price) = {} =>
                  /\ Sound(s) => Sound(Append(s, e))
                  /\ After(s, Append(s, e), e)
<1> DEFINE t == Append(s, e)
           n == Len(s)
<1>1. /\ t \in Seq(Levels) /\ Len(t) = n + 1 /\ n \in Nat
      /\ t[n + 1] = e /\ \A j \in 1..n : t[j] = s[j]
  BY AppendProperties
<1> HIDE DEF t
<1>2. PlacesOf(s, e.price) = {} => \A j \in 1..n : s[j].price # e.price
  BY DEF PlacesOf
<1>3. e.amount > 0
  BY BookAssumption DEF Levels, Amounts
<1>4. ASSUME PlacesOf(s, e.price) = {}, Sound(s) PROVE Sound(t)
  BY <1>1, <1>2, <1>3, <1>4 DEF Sound
<1>5. ASSUME PlacesOf(s, e.price) = {} PROVE After(s, t, e)
  <2> SUFFICES ASSUME NEW p, NEW a
               PROVE  Has(t, p, a) <=> IF p = e.price THEN a = e.amount ELSE Has(s, p, a)
    BY DEF After
  <2>1. Has(t, p, a) <=> (e.price = p /\ e.amount = a) \/ Has(s, p, a)
    BY <1>1 DEF Has
  <2>2. Has(s, p, a) => p # e.price
    BY <1>2, <1>5 DEF Has
  <2> QED
    BY <2>1, <2>2
<1> QED
  BY <1>1, <1>4, <1>5 DEF t

\* t is s with e between the levels before place and those from there.
InsertedAt(s, t, place, e) ==
    /\ place \in 1..Len(s) + 1
    /\ Len(t) = Len(s) + 1
    /\ t[place] = e
    /\ \A j \in 1..Len(s) : t[IF j < place THEN j ELSE j + 1] = s[j]

(* insert() on a vector moves the levels from there on by one.             *)
LEMMA InsertAtInserts ==
    ASSUME NEW s \in Seq(Levels), NEW e \in Levels, NEW place \in 1..Len(s) + 1
    PROVE  /\ InsertAt(s, place, e) \in Seq(Levels)
           /\ InsertedAt(s, InsertAt(s, place, e), place, e)
<1> DEFINE u == SubSeq(s, 1, place - 1)
           v == SubSeq(s, place, Len(s))
           w == u \o <<e>>
           t == w \o v
<1>1. Len(s) \in Nat /\ \A j \in 1..Len(s) : s[j] \in Levels
  OBVIOUS
<1>2. /\ u \in Seq(Levels) /\ Len(u) = place - 1
      /\ \A j \in 1..place - 1 : u[j] = s[j]
  <2>1. 1 \in Int /\ place - 1 \in Int /\ \A j \in 1..place - 1 : s[j] \in Levels
    BY <1>1
  <2> QED
    BY <2>1, SubSeqProperties
<1>3. /\ v \in Seq(Levels) /\ Len(v) = Len(s) + 1 - place
      /\ \A j \in 1..Len(s) + 1 - place : v[j] = s[place + j - 1]
  <2>1. place \in Int /\ Len(s) \in Int /\ \A j \in place..Len(s) : s[j] \in Levels
    BY <1>1
  <2>2. /\ v \in Seq(Levels)
        /\ Len(v) = IF place <= Len(s) THEN Len(s) - place + 1 ELSE 0
        /\ \A j \in 1..Len(s) - place + 1 : v[j] = s[place + j - 1]
    BY <2>1, SubSeqProperties
  <2> QED
    BY <1>1, <2>2
<1> HIDE DEF u, v
<1>4. <<e>> \in Seq(Levels) /\ Len(<<e>>) = 1 /\ <<e>>[1] = e
  OBVIOUS
<1>5. /\ w \in Seq(Levels) /\ Len(w) = place
      /\ \A j \in 1..place : w[j] = IF j <= place - 1 THEN u[j] ELSE <<e>>[j - (place - 1)]
  <2>1. /\ w \in Seq(Levels) /\ Len(w) = Len(u) + Len(<<e>>)
        /\ \A j \in 1..Len(u) + Len(<<e>>) :
               w[j] = IF j <= Len(u) THEN u[j] ELSE <<e>>[j - Len(u)]
    BY <1>2, <1>4, ConcatProperties
  <2>2. Len(u) + Len(<<e>>) = place
    BY <1>2, <1>4
  <2> QED
    BY <1>2, <2>1, <2>2
<1>6. w[place] = e /\ \A j \in 1..place - 1 : w[j] = s[j]
  <2>1. place \in 1..place /\ ~(place <= place - 1) /\ place - (place - 1) = 1
    OBVIOUS
  <2>2. w[place] = e
    BY <1>4, <1>5, <2>1
  <2>3. ASSUME NEW j \in 1..place - 1 PROVE w[j] = s[j]
    <3>1. j \in 1..place /\ j <= place - 1
      OBVIOUS
    <3> QED
      BY <1>2, <1>5, <3>1
  <2> QED
    BY <2>2, <2>3
<1> HIDE DEF w
<1>7. /\ t \in Seq(Levels) /\ Len(t) = Len(s) + 1
      /\ \A j \in 1..Len(s) + 1 : t[j] = IF j <= place THEN w[j] ELSE v[j - place]
  <2>1. /\ t \in Seq(Levels) /\ Len(t) = Len(w) + Len(v)
        /\ \A j \in 1..Len(w) + Len(v) : t[j] = IF j <= Len(w) THEN w[j] ELSE v[j - Len(w)]
    BY <1>3, <1>5, ConcatProperties
  <2>2. Len(w) + Len(v) = Len(s) + 1
    BY <1>1, <1>3, <1>5
  <2> QED
    BY <1>5, <2>1, <2>2
<1>8. t = InsertAt(s, place, e)
  BY DEF InsertAt, u, v, w
<1> HIDE DEF t
<1>9. t[place] = e
  BY <1>6, <1>7
<1>10. ASSUME NEW j \in 1..Len(s) PROVE t[IF j < place THEN j ELSE j + 1] = s[j]
  <2>1. CASE j < place
    BY <1>1, <1>6, <1>7, <2>1
  <2>2. CASE ~(j < place)
    <3>1. /\ j + 1 \in 1..Len(s) + 1 /\ ~(j + 1 <= place)
          /\ (j + 1) - place \in 1..Len(s) + 1 - place /\ place + ((j + 1) - place) - 1 = j
      BY <1>1, <2>2
    <3>2. t[j + 1] = v[(j + 1) - place]
      BY <1>7, <3>1
    <3>3. v[(j + 1) - place] = s[j]
      BY <1>3, <3>1
    <3> QED
      BY <2>2, <3>2, <3>3
  <2> QED
    BY <2>1, <2>2
<1> QED
  BY <1>7, <1>8, <1>9, <1>10 DEF InsertedAt

\* The levels before place, and only they, are better than e.
PlaceFor(s, place, e) == \A j \in 1..Len(s) : j < place <=> Better(s[j].price, e.price)

(* In a side that is in order there is such a place.                       *)
LEMMA PlaceExists ==
    ASSUME NEW s \in Seq(Levels), NEW e \in Levels, InOrder(s)
    PROVE  \E place \in 1..Len(s) + 1 : PlaceFor(s, place, e)
<1> DEFINE n == Len(s)
           S == {i \in 1..n + 1 : i = n + 1 \/ ~Better(s[i].price, e.price)}
<1>1. n \in Nat
  OBVIOUS
<1>2. S \subseteq Nat /\ n + 1 \in S
  BY <1>1
<1>3. PICK place \in S : \A i \in S : place <= i
  <2> HIDE DEF S
  <2> QED
    BY <1>2, LeastNat
<1>4. place \in 1..n + 1
  OBVIOUS
<1>5. ASSUME NEW j \in 1..n PROVE j < place <=> Better(s[j].price, e.price)
  <2>1. s[j].price \in Int /\ e.price \in Int
    BY LevelTyped, EntryTyped
  <2>2. CASE j < place
    <3>1. j \notin S
      BY <1>3, <2>2
    <3> QED
      BY <1>1, <2>2, <3>1
  <2>3. CASE j = place
    BY <1>1, <2>3
  <2>4. CASE place < j
    <3>1. place \in 1..n /\ ~Better(s[place].price, e.price)
      BY <1>1, <1>4, <2>4
    <3>2. s[place].price \in Int
      BY <3>1, LevelTyped
    <3>3. ~Better(s[j].price, s[place].price)
      BY <2>4, <3>1 DEF InOrder
    <3> QED
      BY <1>4, <2>1, <2>4, <3>1, <3>2, <3>3 DEF Better
  <2> QED
    BY <1>4, <2>2, <2>3, <2>4
<1> QED
  BY <1>4, <1>5 DEF PlaceFor

(* A level inserted, its price not being there.                            *)
LEMMA InsertedLevel ==
    ASSUME NEW s \in Seq(Levels), NEW e \in Levels, e.amount # 0, InOrder(s), Sound(s),
           PlacesOf(s, e.price) = {}
    PROVE  /\ Inserted(s, e) \in Seq(Levels)
           /\ InOrder(Inserted(s, e)) /\ Sound(Inserted(s, e))
           /\ After(s, Inserted(s, e), e)
<1> DEFINE t == Inserted(s, e)
           n == Len(s)
<1>1. PICK place \in 1..n + 1 : PlaceFor(s, place, e) /\ t = InsertAt(s, place, e)
  <2> DEFINE place == CHOOSE i \in 1..n + 1 : PlaceFor(s, i, e)
  <2>1. place \in 1..n + 1 /\ PlaceFor(s, place, e)
    BY PlaceExists
  <2>2. t = InsertAt(s, place, e)
    BY DEF Inserted, PlaceFor
  <2> QED
    BY <2>1, <2>2
<1>2. t \in Seq(Levels) /\ InsertedAt(s, t, place, e)
  BY <1>1, InsertAtInserts
<1> HIDE DEF t
<1> DEFINE to(j) == IF j < place THEN j ELSE j + 1
<1>3. /\ n \in Nat /\ Len(t) = n + 1 /\ t[place] = e
      /\ \A j \in 1..n : to(j) \in 1..n + 1 /\ t[to(j)] = s[j]
  BY <1>2 DEF InsertedAt
<1>4. ASSUME NEW i \in 1..n + 1, i # place PROVE \E j \in 1..n : to(j) = i
  <2>1. CASE i < place
    BY <1>3, <2>1
  <2>2. CASE i > place
    <3>1. i - 1 \in 1..n /\ to(i - 1) = i
      BY <1>3, <2>2
    <3> QED
      BY <3>1
  <2> QED
    BY <1>4, <2>1, <2>2
<1>5. \A j, h \in 1..n : j < h <=> to(j) < to(h)
  BY <1>3
<1>6. \A j \in 1..n : to(j) < place <=> Better(s[j].price, e.price)
  BY <1>1, <1>3 DEF PlaceFor
<1>7. \A j \in 1..n : s[j].price # e.price
  BY DEF PlacesOf
<1>8. e.amount > 0
  BY BookAssumption DEF Levels, Amounts
<1>9. \A j \in 1..n : s[j].price \in Int /\ e.price \in Int
  BY LevelTyped, EntryTyped
<1> HIDE DEF to, n
<1>10. InOrder(t)
  <2> SUFFICES ASSUME NEW i \in 1..n + 1, NEW k \in 1..n + 1, i < k
               PROVE  ~Better(t[k].price, t[i].price)
    BY <1>3 DEF InOrder
  <2>1. CASE i = place
    <3>1. PICK h \in 1..n : to(h) = k
      BY <1>4, <2>1
    <3>2. ~(to(h) < place) /\ t[k] = s[h]
      BY <1>3, <2>1, <3>1
    <3> QED
      BY <1>3, <1>6, <2>1, <3>2
  <2>2. CASE k = place
    <3>1. PICK j \in 1..n : to(j) = i
      BY <1>4, <2>2
    <3>2. Better(s[j].price, e.price) /\ t[i] = s[j]
      BY <1>3, <1>6, <2>2, <3>1
    <3>3. ~Better(e.price, s[j].price)
      BY <1>9, <3>2 DEF Better
    <3> QED
      BY <1>3, <2>2, <3>2, <3>3
  <2>3. CASE i # place /\ k # place
    <3>1. PICK j \in 1..n, h \in 1..n : to(j) = i /\ to(h) = k
      BY <1>4, <2>3
    <3>2. j < h /\ t[i] = s[j] /\ t[k] = s[h]
      BY <1>3, <1>5, <3>1
    <3> QED
      BY <3>2 DEF InOrder, n
  <2> QED
    BY <2>1, <2>2, <2>3
<1>11. Sound(t)
  <2>1. ASSUME NEW i \in 1..n + 1 PROVE t[i] = e \/ \E j \in 1..n : t[i] = s[j]
    BY <1>3, <1>4
  <2>2. \A i \in 1..n + 1 : t[i].amount > 0
    BY <1>8, <2>1 DEF Sound, n
  <2>3. ASSUME NEW i \in 1..n + 1, NEW k \in 1..n + 1, i # k PROVE t[i].price # t[k].price
    <3>1. CASE i = place
      <4>1. PICK h \in 1..n : to(h) = k
        BY <1>4, <2>3, <3>1
      <4> QED
        BY <1>3, <1>7, <3>1, <4>1
    <3>2. CASE k = place
      <4>1. PICK j \in 1..n : to(j) = i
        BY <1>4, <2>3, <3>2
      <4> QED
        BY <1>3, <1>7, <3>2, <4>1
    <3>3. CASE i # place /\ k # place
      <4>1. PICK j \in 1..n, h \in 1..n : to(j) = i /\ to(h) = k
        BY <1>4, <3>3
      <4>2. j # h /\ t[i] = s[j] /\ t[k] = s[h]
        BY <1>3, <2>3, <4>1
      <4> QED
        BY <4>2 DEF Sound, n
    <3> QED
      BY <3>1, <3>2, <3>3
  <2> QED
    BY <1>3, <2>2, <2>3 DEF Sound
<1>12. After(s, t, e)
  <2> SUFFICES ASSUME NEW p, NEW a
               PROVE  Has(t, p, a) <=> IF p = e.price THEN a = e.amount ELSE Has(s, p, a)
    BY DEF After
  <2>1. (e.price = p /\ e.amount = a) \/ Has(s, p, a) => Has(t, p, a)
    BY <1>3 DEF Has, n
  <2>2. Has(t, p, a) => (e.price = p /\ e.amount = a) \/ Has(s, p, a)
    <3> SUFFICES ASSUME NEW i \in 1..n + 1, t[i].price = p, t[i].amount = a
                 PROVE  (e.price = p /\ e.amount = a) \/ Has(s, p, a)
      BY <1>3 DEF Has
    <3>1. t[i] = e \/ \E j \in 1..n : t[i] = s[j]
      BY <1>3, <1>4
    <3> QED
      BY <3>1 DEF Has, n
  <2>3. Has(s, p, a) => p # e.price
    BY <1>7 DEF Has, n
  <2> QED
    BY <2>1, <2>2, <2>3
<1> QED
  BY <1>2, <1>10, <1>11, <1>12 DEF t

-----------------------------------------------------------------------------
(* A level of a delta, in the three ways                                   *)

LEMMA PlacesHas ==
    ASSUME NEW s, NEW p
    PROVE  PlacesOf(s, p) = {} => \A a : ~Has(s, p, a)
BY DEF PlacesOf, Has

LEMMA WithoutIsAfter ==
    ASSUME NEW s \in Seq(Levels), NEW e \in Levels, e.amount = 0
    PROVE  After(s, Without(s, e.price), e)
BY WithoutLevels DEF After

(* The library keeps a side sound and in order, and applies the level.     *)
LEMMA LibraryLevelIsAfter ==
    ASSUME NEW s \in Seq(Levels), NEW e \in Levels, Sound(s), InOrder(s)
    PROVE  /\ LibraryLevel(s, e) \in Seq(Levels)
           /\ Sound(LibraryLevel(s, e)) /\ InOrder(LibraryLevel(s, e))
           /\ After(s, LibraryLevel(s, e), e)
<1>1. CASE e.amount = 0
  <2>1. LibraryLevel(s, e) = Without(s, e.price)
    BY <1>1 DEF LibraryLevel
  <2> QED
    BY <1>1, <2>1, WithoutLevels, WithoutIsAfter
<1>2. CASE e.amount # 0 /\ PlacesOf(s, e.price) # {}
  <2>1. LibraryLevel(s, e) = ReplaceAt(s, Position(s, e.price), e)
    BY <1>2 DEF LibraryLevel
  <2>2. Position(s, e.price) \in 1..Len(s) /\ s[Position(s, e.price)].price = e.price
    BY <1>2, PositionIsAPlace
  <2> QED
    BY <1>2, <2>1, <2>2, ReplacedLevel
<1>3. CASE e.amount # 0 /\ PlacesOf(s, e.price) = {}
  <2>1. LibraryLevel(s, e) = Inserted(s, e)
    BY <1>3 DEF LibraryLevel
  <2> QED
    BY <1>3, <2>1, InsertedLevel
<1> QED
  BY <1>1, <1>2, <1>3

(* A side of probit's may hold a price twice before the first snapshot: it *)
(* is kept then, and kept sound once it is.                                *)
LEMMA ProbitLevelIsAfter ==
    ASSUME NEW s \in Seq(Levels), NEW e \in Levels
    PROVE  /\ ProbitLevel(s, e) \in Seq(Levels)
           /\ Sound(s) => Sound(ProbitLevel(s, e)) /\ After(s, ProbitLevel(s, e), e)
<1> DEFINE i == Position(s, e.price)
<1>1. CASE PlacesOf(s, e.price) # {}
  <2>1. i \in 1..Len(s) /\ s[i].price = e.price
    BY <1>1, PositionIsAPlace
  <2>2. CASE e.amount = 0
    <3>1. ProbitLevel(s, e) = RemoveAt(s, i)
      BY <1>1, <2>2 DEF ProbitLevel
    <3> HIDE DEF i
    <3> QED
      BY <2>1, <2>2, <3>1, RemovedLevel
  <2>3. CASE e.amount # 0
    <3>1. ProbitLevel(s, e) = ReplaceAt(s, i, e)
      BY <1>1, <2>3 DEF ProbitLevel
    <3> HIDE DEF i
    <3> QED
      BY <2>1, <2>3, <3>1, ReplacedLevel
  <2> QED
    BY <2>2, <2>3
<1>2. CASE PlacesOf(s, e.price) = {} /\ e.amount = 0
  <2>1. ProbitLevel(s, e) = s
    BY <1>2 DEF ProbitLevel
  <2> QED
    BY <1>2, <2>1, PlacesHas DEF After
<1>3. CASE PlacesOf(s, e.price) = {} /\ e.amount # 0
  <2>1. ProbitLevel(s, e) = Append(s, e)
    BY <1>3 DEF ProbitLevel
  <2> QED
    BY <1>3, <2>1, AppendedLevel
<1> QED
  BY <1>1, <1>2, <1>3

(* exmo keeps a side sound; it is in order once it is sorted.              *)
LEMMA ExmoLevelIsAfter ==
    ASSUME NEW s \in Seq(Levels), NEW e \in Levels, Sound(s)
    PROVE  /\ ExmoLevel(s, e) \in Seq(Levels)
           /\ Sound(ExmoLevel(s, e))
           /\ After(s, ExmoLevel(s, e), e)
<1> DEFINE t == Without(s, e.price)
<1>1. /\ t \in Seq(Levels) /\ Sound(t) /\ PlacesOf(t, e.price) = {}
      /\ \A q, a : Has(t, q, a) <=> q # e.price /\ Has(s, q, a)
  BY WithoutLevels
<1>2. e.amount \in Nat
  BY BookAssumption DEF Levels, Amounts
<1>3. CASE e.amount = 0
  <2>1. ExmoLevel(s, e) = t
    BY <1>3 DEF ExmoLevel
  <2> QED
    BY <1>1, <1>3, <2>1, WithoutIsAfter
<1>4. CASE e.amount # 0
  <2>1. ExmoLevel(s, e) = Append(t, e)
    BY <1>2, <1>4 DEF ExmoLevel
  <2>2. Append(t, e) \in Seq(Levels) /\ Sound(Append(t, e)) /\ After(t, Append(t, e), e)
    <3> HIDE DEF t
    <3> QED
      BY <1>1, <1>4, AppendedLevel
  <2> HIDE DEF t
  <2>3. After(s, Append(t, e), e)
    BY <1>1, <2>2 DEF After
  <2> QED
    BY <2>1, <2>2, <2>3
<1> QED
  BY <1>3, <1>4

-----------------------------------------------------------------------------
(* Applying the levels of a delta                                          *)

\* b is defined recursively from s by G.
FromBy(b, n, s, G) == b = [i \in 0..n |-> IF i = 0 THEN s ELSE G[<<i, b[i - 1]>>]]

(* A recursive definition over 0..n has a value.                           *)
LEMMA Recursion ==
    ASSUME NEW n \in Nat, NEW D, NEW s \in D, NEW G,
           \A i \in 1..n : \A x \in D : G[<<i, x>>] \in D
    PROVE  \E b \in [0..n -> D] : FromBy(b, n, s, G)
<1> DEFINE S == {m \in 0..n : \E b \in [0..m -> D] : FromBy(b, m, s, G)}
<1>1. 0 \in S
  <2> DEFINE b == [i \in 0..0 |-> s]
  <2>1. b \in [0..0 -> D] /\ FromBy(b, 0, s, G)
    BY DEF FromBy
  <2>2. 0 \in 0..n
    OBVIOUS
  <2> HIDE DEF b
  <2> QED
    BY <2>1, <2>2
<1>2. ASSUME NEW m \in 1..n, m - 1 \in S PROVE m \in S
  <2>1. PICK b \in [0..m - 1 -> D] : FromBy(b, m - 1, s, G)
    BY <1>2
  <2> DEFINE c == [i \in 0..m |-> IF i = m THEN G[<<m, b[m - 1]>>] ELSE b[i]]
  <2>2. c \in [0..m -> D]
    <3>1. G[<<m, b[m - 1]>>] \in D
      OBVIOUS
    <3>2. ASSUME NEW i \in 0..m, i # m PROVE b[i] \in D
      BY <3>2
    <3> QED
      BY <3>1, <3>2
  <2>3. ASSUME NEW i \in 0..m PROVE c[i] = IF i = 0 THEN s ELSE G[<<i, c[i - 1]>>]
    <3>1. CASE i = m
      <4>1. i # 0 /\ m - 1 \in 0..m /\ m - 1 # m
        BY <3>1
      <4>2. c[i - 1] = b[m - 1]
        BY <3>1, <4>1
      <4> QED
        BY <3>1, <4>1, <4>2
    <3>2. CASE i = 0
      <4>1. i # m /\ i \in 0..m - 1
        BY <3>2
      <4> QED
        BY <2>1, <3>2, <4>1 DEF FromBy
    <3>3. CASE i # m /\ i # 0
      <4>1. i \in 0..m - 1 /\ i - 1 \in 0..m /\ i - 1 # m
        BY <3>3
      <4>2. c[i] = b[i] /\ c[i - 1] = b[i - 1]
        BY <3>3, <4>1
      <4>3. b[i] = G[<<i, b[i - 1]>>]
        BY <2>1, <3>3, <4>1 DEF FromBy
      <4> QED
        BY <3>3, <4>2, <4>3
    <3> QED
      BY <3>1, <3>2, <3>3
  <2>4. FromBy(c, m, s, G)
    <3>1. c = [i \in 0..m |-> c[i]]
      BY <2>2
    <3> HIDE DEF c
    <3> QED
      BY <2>3, <3>1 DEF FromBy
  <2> HIDE DEF c
  <2> QED
    BY <2>2, <2>4
<1> HIDE DEF S
<1>3. 0..n \subseteq S
  BY <1>1, <1>2, InductiveSet
<1>4. n \in S
  BY <1>3
<1> QED
  BY <1>4 DEF S

(* What a recursive definition never leaves.                               *)
LEMMA Stays ==
    ASSUME NEW n \in Nat, NEW D, NEW b, b[0] \in D,
           \A i \in 1..n : b[i - 1] \in D => b[i] \in D
    PROVE  \A i \in 0..n : b[i] \in D
<1> DEFINE S == {i \in 0..n : b[i] \in D}
<1>1. 0 \in S /\ \A i \in 1..n : i - 1 \in S => i \in S
  OBVIOUS
<1> HIDE DEF S
<1>2. 0..n \subseteq S
  BY <1>1, InductiveSet
<1> QED
  BY <1>2 DEF S

\* b goes through the states of s while the levels of delta are applied.
LibraryTrace(b, s, delta) ==
    b = [i \in 0..Len(delta) |-> IF i = 0 THEN s ELSE LibraryLevel(b[i - 1], delta[i])]

ProbitTrace(b, s, delta) ==
    b = [i \in 0..Len(delta) |-> IF i = 0 THEN s ELSE ProbitLevel(b[i - 1], delta[i])]

ExmoTrace(b, s, delta) ==
    b = [i \in 0..Len(delta) |-> IF i = 0 THEN s ELSE ExmoLevel(b[i - 1], delta[i])]

Books == {s \in Seq(Levels) : Sound(s) /\ InOrder(s)}

SoundSides == {s \in Seq(Levels) : Sound(s)}

(* A delta takes a side through sides of its kind, one per level.          *)
LEMMA LibraryTraceExists ==
    ASSUME NEW s \in Books, NEW delta \in Seq(Levels)
    PROVE  \E b \in [0..Len(delta) -> Books] :
               LibraryTrace(b, s, delta) /\ LibraryDelta(s, delta) = b[Len(delta)]
<1> DEFINE n == Len(delta)
           G == [x \in (1..n) \X Books |-> LibraryLevel(x[2], delta[x[1]])]
<1>1. n \in Nat /\ \A i \in 1..n : delta[i] \in Levels
  OBVIOUS
<1>2. ASSUME NEW i \in 1..n, NEW x \in Books
      PROVE  G[<<i, x>>] = LibraryLevel(x, delta[i]) /\ G[<<i, x>>] \in Books
  <2>1. LibraryLevel(x, delta[i]) \in Books
    BY <1>1, LibraryLevelIsAfter DEF Books
  <2> QED
    BY <2>1
<1> HIDE DEF G
<1>3. PICK f \in [0..n -> Books] : FromBy(f, n, s, G)
  <2>1. \A i \in 1..n : \A x \in Books : G[<<i, x>>] \in Books
    BY <1>2
  <2> HIDE DEF n
  <2> QED
    BY <1>1, <2>1, Recursion
<1>4. LibraryTrace(f, s, delta)
  <2>1. ASSUME NEW i \in 0..n, i # 0
        PROVE  G[<<i, f[i - 1]>>] = LibraryLevel(f[i - 1], delta[i])
    <3>1. i - 1 \in 0..n /\ i \in 1..n
      BY <1>1, <2>1
    <3> QED
      BY <1>2, <3>1
  <2> QED
    BY <1>3, <2>1 DEF LibraryTrace, FromBy
<1> DEFINE b == CHOOSE b : LibraryTrace(b, s, delta)
<1>5. LibraryTrace(b, s, delta)
  BY <1>4
<1>6. LibraryDelta(s, delta) = b[n]
  BY DEF LibraryDelta, Applied, LibraryTrace
<1> HIDE DEF b
<1>7. b \in [0..n -> Books]
  <2>1. /\ b = [i \in 0..n |-> b[i]]
        /\ \A i \in 0..n : b[i] = IF i = 0 THEN s ELSE LibraryLevel(b[i - 1], delta[i])
    BY <1>5 DEF LibraryTrace
  <2>2. b[0] \in Books
    BY <1>1, <2>1
  <2>3. ASSUME NEW i \in 1..n, b[i - 1] \in Books PROVE b[i] \in Books
    <3>1. LibraryLevel(b[i - 1], delta[i]) \in Books
      BY <1>1, <2>3, LibraryLevelIsAfter DEF Books
    <3>2. i \in 0..n /\ i # 0
      OBVIOUS
    <3> QED
      BY <2>1, <3>1, <3>2
  <2>4. \A i \in 0..n : b[i] \in Books
    BY <1>1, <2>2, <2>3, Stays
  <2> QED
    BY <2>1, <2>4
<1> QED
  BY <1>5, <1>6, <1>7

LEMMA ProbitTraceExists ==
    ASSUME NEW D, NEW s \in D, NEW delta \in Seq(Levels),
           \A x \in D : \A e \in Levels : ProbitLevel(x, e) \in D
    PROVE  \E b \in [0..Len(delta) -> D] :
               ProbitTrace(b, s, delta) /\ Applied(ProbitLevel, s, delta) = b[Len(delta)]
<1> DEFINE n == Len(delta)
           G == [x \in (1..n) \X D |-> ProbitLevel(x[2], delta[x[1]])]
<1>0. \A x \in D : \A e \in Levels : ProbitLevel(x, e) \in D
  OBVIOUS
<1>1. n \in Nat /\ \A i \in 1..n : delta[i] \in Levels
  OBVIOUS
<1>2. ASSUME NEW i \in 1..n, NEW x \in D
      PROVE  G[<<i, x>>] = ProbitLevel(x, delta[i]) /\ G[<<i, x>>] \in D
  <2>1. ProbitLevel(x, delta[i]) \in D
    BY <1>1, <1>0
  <2> QED
    BY <2>1
<1> HIDE DEF G
<1>3. PICK f \in [0..n -> D] : FromBy(f, n, s, G)
  <2>1. \A i \in 1..n : \A x \in D : G[<<i, x>>] \in D
    BY <1>2
  <2> HIDE DEF n
  <2> QED
    BY <1>1, <2>1, Recursion
<1>4. ProbitTrace(f, s, delta)
  <2>1. ASSUME NEW i \in 0..n, i # 0
        PROVE  G[<<i, f[i - 1]>>] = ProbitLevel(f[i - 1], delta[i])
    <3>1. i - 1 \in 0..n /\ i \in 1..n
      BY <1>1, <2>1
    <3> QED
      BY <1>2, <3>1
  <2> QED
    BY <1>3, <2>1 DEF ProbitTrace, FromBy
<1> DEFINE b == CHOOSE b : ProbitTrace(b, s, delta)
<1>5. ProbitTrace(b, s, delta)
  BY <1>4
<1>6. Applied(ProbitLevel, s, delta) = b[n]
  BY DEF Applied, ProbitTrace
<1> HIDE DEF b
<1>7. b \in [0..n -> D]
  <2>1. /\ b = [i \in 0..n |-> b[i]]
        /\ \A i \in 0..n : b[i] = IF i = 0 THEN s ELSE ProbitLevel(b[i - 1], delta[i])
    BY <1>5 DEF ProbitTrace
  <2>2. b[0] \in D
    <3>1. 0 \in 0..n
      BY <1>1
    <3>2. b[0] = s
      BY <2>1, <3>1
    <3> QED
      BY <3>2
  <2>3. ASSUME NEW i \in 1..n, b[i - 1] \in D PROVE b[i] \in D
    <3>1. ProbitLevel(b[i - 1], delta[i]) \in D
      BY <1>1, <2>3, <1>0
    <3>2. i \in 0..n /\ i # 0
      OBVIOUS
    <3> QED
      BY <2>1, <3>1, <3>2
  <2>4. \A i \in 0..n : b[i] \in D
    BY <1>1, <2>2, <2>3, Stays
  <2> QED
    BY <2>1, <2>4
<1> QED
  BY <1>5, <1>6, <1>7

LEMMA ExmoTraceExists ==
    ASSUME NEW s \in SoundSides, NEW delta \in Seq(Levels)
    PROVE  \E b \in [0..Len(delta) -> SoundSides] :
               ExmoTrace(b, s, delta) /\ Applied(ExmoLevel, s, delta) = b[Len(delta)]
<1> DEFINE n == Len(delta)
           G == [x \in (1..n) \X SoundSides |-> ExmoLevel(x[2], delta[x[1]])]
<1>1. n \in Nat /\ \A i \in 1..n : delta[i] \in Levels
  OBVIOUS
<1>2. ASSUME NEW i \in 1..n, NEW x \in SoundSides
      PROVE  G[<<i, x>>] = ExmoLevel(x, delta[i]) /\ G[<<i, x>>] \in SoundSides
  <2>1. ExmoLevel(x, delta[i]) \in SoundSides
    BY <1>1, ExmoLevelIsAfter DEF SoundSides
  <2> QED
    BY <2>1
<1> HIDE DEF G
<1>3. PICK f \in [0..n -> SoundSides] : FromBy(f, n, s, G)
  <2>1. \A i \in 1..n : \A x \in SoundSides : G[<<i, x>>] \in SoundSides
    BY <1>2
  <2> HIDE DEF n
  <2> QED
    BY <1>1, <2>1, Recursion
<1>4. ExmoTrace(f, s, delta)
  <2>1. ASSUME NEW i \in 0..n, i # 0
        PROVE  G[<<i, f[i - 1]>>] = ExmoLevel(f[i - 1], delta[i])
    <3>1. i - 1 \in 0..n /\ i \in 1..n
      BY <1>1, <2>1
    <3> QED
      BY <1>2, <3>1
  <2> QED
    BY <1>3, <2>1 DEF ExmoTrace, FromBy
<1> DEFINE b == CHOOSE b : ExmoTrace(b, s, delta)
<1>5. ExmoTrace(b, s, delta)
  BY <1>4
<1>6. Applied(ExmoLevel, s, delta) = b[n]
  BY DEF Applied, ExmoTrace
<1> HIDE DEF b
<1>7. b \in [0..n -> SoundSides]
  <2>1. /\ b = [i \in 0..n |-> b[i]]
        /\ \A i \in 0..n : b[i] = IF i = 0 THEN s ELSE ExmoLevel(b[i - 1], delta[i])
    BY <1>5 DEF ExmoTrace
  <2>2. b[0] \in SoundSides
    BY <1>1, <2>1
  <2>3. ASSUME NEW i \in 1..n, b[i - 1] \in SoundSides PROVE b[i] \in SoundSides
    <3>1. ExmoLevel(b[i - 1], delta[i]) \in SoundSides
      BY <1>1, <2>3, ExmoLevelIsAfter DEF SoundSides
    <3>2. i \in 0..n /\ i # 0
      OBVIOUS
    <3> QED
      BY <2>1, <3>1, <3>2
  <2>4. \A i \in 0..n : b[i] \in SoundSides
    BY <1>1, <2>2, <2>3, Stays
  <2> QED
    BY <2>1, <2>4
<1> QED
  BY <1>5, <1>6, <1>7

-----------------------------------------------------------------------------
(* What the levels of a delta come to                                      *)

\* s has the levels of the depth d.
Agrees(s, d) == \A p \in Prices, a \in Amounts \ {0} : Has(s, p, a) <=> d[p] = a

\* The last place of price p in delta.
LastPlace(delta, p) ==
    CHOOSE i \in PlacesOf(delta, p) : \A j \in PlacesOf(delta, p) : j <= i

(* What Changed() of a delta is, price by price.                           *)
LEMMA LastPlaceIsLast ==
    ASSUME NEW delta \in Seq(Levels), NEW p, PlacesOf(delta, p) # {}
    PROVE  /\ LastPlace(delta, p) \in PlacesOf(delta, p)
           /\ \A j \in PlacesOf(delta, p) : j <= LastPlace(delta, p)
<1>1. Len(delta) \in Nat /\ PlacesOf(delta, p) \subseteq 1..Len(delta)
  BY DEF PlacesOf
<1>2. \E i \in PlacesOf(delta, p) : \A j \in PlacesOf(delta, p) : j <= i
  BY <1>1, GreatestBelow
<1> QED
  BY <1>2 DEF LastPlace

LEMMA ChangedAt ==
    ASSUME NEW d, NEW delta, NEW p \in Prices
    PROVE  Changed(d, delta)[p] =
               IF PlacesOf(delta, p) = {} THEN d[p] ELSE delta[LastPlace(delta, p)].amount
BY DEF Changed, LastPlace

(* Levels applied one after the other leave the last word on each price.   *)
LEMMA Replay ==
    ASSUME NEW delta \in Seq(Levels), NEW b, NEW d, Agrees(b[0], d),
           \A i \in 1..Len(delta) : After(b[i - 1], b[i], delta[i])
    PROVE  Agrees(b[Len(delta)], Changed(d, delta))
<1> DEFINE n == Len(delta)
<1> SUFFICES ASSUME NEW p \in Prices, NEW a \in Amounts \ {0}
             PROVE  Has(b[n], p, a) <=> Changed(d, delta)[p] = a
  BY DEF Agrees
<1>1. /\ n \in Nat /\ n \in 0..n /\ 0 \in 0..n
      /\ PlacesOf(delta, p) \subseteq 1..n
      /\ \A i \in 1..n : i \in PlacesOf(delta, p) <=> delta[i].price = p
  BY DEF PlacesOf
<1>2. ASSUME NEW i \in 1..n
      PROVE  Has(b[i], p, a) <=> IF p = delta[i].price THEN a = delta[i].amount
                                 ELSE Has(b[i - 1], p, a)
  BY DEF After
<1>3. Has(b[0], p, a) <=> d[p] = a
  BY DEF Agrees
<1> HIDE DEF n
<1>4. CASE PlacesOf(delta, p) = {}
  <2> DEFINE S == {i \in 0..n : Has(b[i], p, a) <=> Has(b[0], p, a)}
  <2>1. 0 \in S
    BY <1>1
  <2>2. ASSUME NEW i \in 1..n, i - 1 \in S PROVE i \in S
    BY <1>1, <1>2, <1>4, <2>2
  <2> HIDE DEF S
  <2>3. n \in S
    BY <1>1, <2>1, <2>2, InductiveSet
  <2>4. Has(b[n], p, a) <=> Has(b[0], p, a)
    BY <2>3 DEF S
  <2> QED
    BY <1>3, <1>4, <2>4, ChangedAt
<1>5. CASE PlacesOf(delta, p) # {}
  <2> DEFINE m == LastPlace(delta, p)
  <2>1. m \in PlacesOf(delta, p) /\ \A j \in PlacesOf(delta, p) : j <= m
    BY <1>5, LastPlaceIsLast
  <2>2. m \in 1..n /\ delta[m].price = p
    BY <1>1, <2>1
  <2> HIDE DEF m
  <2> DEFINE S == {i \in 0..n : m <= i => (Has(b[i], p, a) <=> a = delta[m].amount)}
  <2>3. 0 \in S
    BY <1>1, <2>2
  <2>4. ASSUME NEW i \in 1..n, i - 1 \in S PROVE i \in S
    <3>1. CASE i < m
      BY <2>2, <3>1
    <3>2. CASE i = m
      BY <1>2, <2>2, <3>2
    <3>3. CASE m < i
      <4>1. delta[i].price # p
        BY <1>1, <2>1, <2>2, <3>3
      <4>2. m <= i - 1
        BY <2>2, <3>3
      <4>3. Has(b[i - 1], p, a) <=> a = delta[m].amount
        BY <2>4, <4>2
      <4>4. Has(b[i], p, a) <=> Has(b[i - 1], p, a)
        BY <1>2, <4>1
      <4> QED
        BY <4>3, <4>4
    <3> QED
      BY <2>2, <3>1, <3>2, <3>3
  <2> HIDE DEF S
  <2>5. n \in S
    BY <1>1, <2>3, <2>4, InductiveSet
  <2>6. Has(b[n], p, a) <=> a = delta[m].amount
    BY <1>1, <2>2, <2>5 DEF S
  <2>7. Changed(d, delta)[p] = delta[m].amount
    BY <1>5, ChangedAt DEF m
  <2> QED
    BY <2>6, <2>7
<1> QED
  BY <1>4, <1>5

(* A delta that is sorted says the same.                                   *)
LEMMA SortedSaysTheSame ==
    ASSUME NEW delta \in Seq(Levels), NEW d
    PROVE  Changed(d, Sorted(delta)) = Changed(d, delta)
<1> DEFINE n == Len(delta)
           t == Sorted(delta)
<1>1. PICK f \in [1..n -> 1..n] : SortedBy(delta, f)
  BY SortedRearranges
<1>2. /\ \A j \in 1..n : \E i \in 1..n : f[i] = j
      /\ t = [i \in 1..n |-> delta[f[i]]]
      /\ \A i, j \in 1..n : i < j <=>
             \/ Better(delta[f[i]].price, delta[f[j]].price)
             \/ delta[f[i]].price = delta[f[j]].price /\ f[i] < f[j]
  BY <1>1 DEF SortedBy
<1>3. /\ n \in Nat /\ t \in Seq(Levels) /\ DOMAIN t = 1..n /\ DOMAIN delta = 1..n
  BY <1>2, SortedLevels
<1> HIDE DEF n, t
<1>4. ASSUME NEW p \in Prices PROVE Changed(d, t)[p] = Changed(d, delta)[p]
  <2>1. \A i \in 1..n : t[i] = delta[f[i]] /\ f[i] \in 1..n
    BY <1>2
  <2>2. \A i \in 1..n : /\ i \in PlacesOf(t, p) <=> f[i] \in PlacesOf(delta, p)
                        /\ i \in PlacesOf(t, p) <=> t[i].price = p
                        /\ i \in PlacesOf(delta, p) <=> delta[i].price = p
    BY <1>3, <2>1 DEF PlacesOf
  <2>3. PlacesOf(t, p) \subseteq 1..n /\ PlacesOf(delta, p) \subseteq 1..n
    BY <1>3 DEF PlacesOf
  <2>4. PlacesOf(t, p) = {} <=> PlacesOf(delta, p) = {}
    <3>1. ASSUME NEW i \in PlacesOf(t, p) PROVE PlacesOf(delta, p) # {}
      BY <2>2, <2>3
    <3>2. ASSUME NEW j \in PlacesOf(delta, p) PROVE PlacesOf(t, p) # {}
      <4>1. PICK i \in 1..n : f[i] = j
        BY <1>2, <2>3
      <4> QED
        BY <2>2, <4>1
    <3> QED
      BY <3>1, <3>2
  <2>5. CASE PlacesOf(t, p) = {}
    BY <2>4, <2>5, ChangedAt
  <2>6. CASE PlacesOf(t, p) # {}
    <3> DEFINE g == LastPlace(t, p)
               h == LastPlace(delta, p)
    <3>1. g \in PlacesOf(t, p) /\ \A j \in PlacesOf(t, p) : j <= g
      BY <1>3, <2>6, LastPlaceIsLast
    <3>2. h \in PlacesOf(delta, p) /\ \A j \in PlacesOf(delta, p) : j <= h
      BY <2>4, <2>6, LastPlaceIsLast
    <3> HIDE DEF g, h
    <3>3. PICK i \in 1..n : f[i] = h
      BY <1>2, <2>3, <3>2
    <3>4. i \in PlacesOf(t, p) /\ i <= g /\ f[g] <= h /\ g \in 1..n /\ h \in 1..n
      BY <2>2, <2>3, <3>1, <3>2, <3>3
    <3>5. i < g => h < f[g]
      <4>1. delta[f[i]].price = p
        BY <2>2, <3>2, <3>3, <3>4
      <4>2. f[g] \in PlacesOf(delta, p) /\ f[g] \in 1..n
        BY <2>1, <2>2, <3>1, <3>4
      <4>3. delta[f[g]].price = p
        BY <2>2, <4>2
      <4>4. p \in Int
        BY BookAssumption DEF Prices
      <4>5. ~Better(delta[f[i]].price, delta[f[g]].price)
        BY <4>1, <4>3, <4>4 DEF Better
      <4> QED
        BY <1>2, <3>3, <3>4, <4>1, <4>3, <4>5
    <3>6. f[g] \in 1..n
      BY <2>1, <3>4
    <3>7. i = g
      BY <3>4, <3>5, <3>6
    <3>8. t[g] = delta[h]
      BY <2>1, <3>3, <3>7
    <3>9. Changed(d, t)[p] = t[g].amount
      BY <2>6, ChangedAt DEF g
    <3>10. Changed(d, delta)[p] = delta[h].amount
      BY <2>4, <2>6, ChangedAt DEF h
    <3> QED
      BY <3>8, <3>9, <3>10
  <2> QED
    BY <2>5, <2>6
<1>5. Changed(d, t) = [p \in Prices |-> Changed(d, t)[p]]
  BY DEF Changed
<1>6. Changed(d, delta) = [p \in Prices |-> Changed(d, delta)[p]]
  BY DEF Changed
<1> QED
  BY <1>4, <1>5, <1>6 DEF t

(* Applying a delta to a book that agrees with a depth makes one that      *)
(* agrees with the depth the delta leaves.                                 *)
LEMMA LibraryDeltaAgrees ==
    ASSUME NEW s \in Seq(Levels), Sound(s), InOrder(s), NEW delta \in Seq(Levels)
    PROVE  /\ LibraryDelta(s, delta) \in Seq(Levels)
           /\ Sound(LibraryDelta(s, delta)) /\ InOrder(LibraryDelta(s, delta))
           /\ \A d : Agrees(s, d) => Agrees(LibraryDelta(s, delta), Changed(d, delta))
<1> DEFINE n == Len(delta)
<1>1. s \in Books /\ n \in Nat /\ n \in 0..n /\ 0 \in 0..n
  BY DEF Books
<1>2. PICK b \in [0..n -> Books] : LibraryTrace(b, s, delta) /\ LibraryDelta(s, delta) = b[n]
  BY <1>1, LibraryTraceExists
<1>3. b[n] \in Books
  BY <1>1, <1>2
<1>4. \A i \in 0..n : b[i] = IF i = 0 THEN s ELSE LibraryLevel(b[i - 1], delta[i])
  BY <1>2 DEF LibraryTrace
<1>5. b[0] = s
  BY <1>1, <1>4
<1>6. ASSUME NEW i \in 1..n PROVE After(b[i - 1], b[i], delta[i])
  <2>1. i \in 0..n /\ i # 0 /\ i - 1 \in 0..n /\ delta[i] \in Levels
    BY <1>1
  <2>2. b[i - 1] \in Books /\ b[i] = LibraryLevel(b[i - 1], delta[i])
    BY <1>2, <1>4, <2>1
  <2> QED
    BY <2>1, <2>2, LibraryLevelIsAfter DEF Books
<1>7. ASSUME NEW d, Agrees(s, d) PROVE Agrees(b[n], Changed(d, delta))
  BY <1>5, <1>6, <1>7, Replay
<1> QED
  BY <1>2, <1>3, <1>7 DEF Books

(* probit's side is typed and in order in any case, and the rest if sound. *)
LEMMA ProbitDeltaAgrees ==
    ASSUME NEW s \in Seq(Levels), NEW delta \in Seq(Levels)
    PROVE  /\ ProbitDelta(s, delta) \in Seq(Levels) /\ InOrder(ProbitDelta(s, delta))
           /\ Sound(s) => /\ Sound(ProbitDelta(s, delta))
                          /\ \A d : Agrees(s, d) =>
                                 Agrees(ProbitDelta(s, delta), Changed(d, delta))
<1> DEFINE sorted == Sorted(delta)
           n == Len(sorted)
           r == Applied(ProbitLevel, s, sorted)
<1>1. sorted \in Seq(Levels)
  BY SortedLevels
<1>2. ProbitDelta(s, delta) = Sorted(r)
  BY DEF ProbitDelta
<1>3. \A d : Changed(d, sorted) = Changed(d, delta)
  BY SortedSaysTheSame
<1> HIDE DEF sorted
<1>4. n \in Nat /\ n \in 0..n /\ 0 \in 0..n
  BY <1>1
<1>5. r \in Seq(Levels)
  <2>1. \A x \in Seq(Levels) : \A e \in Levels : ProbitLevel(x, e) \in Seq(Levels)
    BY ProbitLevelIsAfter
  <2>2. PICK b \in [0..n -> Seq(Levels)] : ProbitTrace(b, s, sorted) /\ r = b[n]
    BY <1>1, <2>1, ProbitTraceExists
  <2> QED
    BY <1>4, <2>2
<1>6. ASSUME Sound(s)
      PROVE  Sound(r) /\ \A d : Agrees(s, d) => Agrees(r, Changed(d, delta))
  <2>1. \A x \in SoundSides : \A e \in Levels : ProbitLevel(x, e) \in SoundSides
    BY ProbitLevelIsAfter DEF SoundSides
  <2>2. s \in SoundSides
    BY <1>6 DEF SoundSides
  <2>3. PICK b \in [0..n -> SoundSides] : ProbitTrace(b, s, sorted) /\ r = b[n]
    BY <1>1, <2>1, <2>2, ProbitTraceExists
  <2>4. b[n] \in SoundSides
    BY <1>4, <2>3
  <2>5. \A i \in 0..n : b[i] = IF i = 0 THEN s ELSE ProbitLevel(b[i - 1], sorted[i])
    BY <2>3 DEF ProbitTrace
  <2>6. b[0] = s
    BY <1>4, <2>5
  <2>7. ASSUME NEW i \in 1..n PROVE After(b[i - 1], b[i], sorted[i])
    <3>1. i \in 0..n /\ i # 0 /\ i - 1 \in 0..n /\ sorted[i] \in Levels
      BY <1>1, <1>4
    <3>2. b[i - 1] \in SoundSides /\ b[i] = ProbitLevel(b[i - 1], sorted[i])
      BY <2>3, <2>5, <3>1
    <3> QED
      BY <3>1, <3>2, ProbitLevelIsAfter DEF SoundSides
  <2>8. ASSUME NEW d, Agrees(s, d) PROVE Agrees(b[n], Changed(d, sorted))
    BY <1>1, <2>6, <2>7, <2>8, Replay
  <2> QED
    BY <1>3, <2>3, <2>4, <2>8 DEF SoundSides
<1> HIDE DEF r
<1>7. /\ Sorted(r) \in Seq(Levels) /\ InOrder(Sorted(r))
      /\ Sound(r) => Sound(Sorted(r))
      /\ \A p, a : Has(Sorted(r), p, a) <=> Has(r, p, a)
  BY <1>5, SortedLevels
<1>8. \A d : Agrees(r, d) <=> Agrees(Sorted(r), d)
  BY <1>7 DEF Agrees
<1> QED
  BY <1>2, <1>6, <1>7, <1>8

(* So is exmo's, which has no price twice to begin with.                   *)
LEMMA ExmoDeltaAgrees ==
    ASSUME NEW s \in Seq(Levels), Sound(s), NEW delta \in Seq(Levels)
    PROVE  /\ ExmoDelta(s, delta) \in Seq(Levels) /\ Sound(ExmoDelta(s, delta))
           /\ \A d : Agrees(s, d) => Agrees(ExmoDelta(s, delta), Changed(d, delta))
<1> DEFINE n == Len(delta)
           r == Applied(ExmoLevel, s, delta)
<1>1. s \in SoundSides /\ n \in Nat /\ n \in 0..n /\ 0 \in 0..n
  BY DEF SoundSides
<1>2. PICK b \in [0..n -> SoundSides] : ExmoTrace(b, s, delta) /\ r = b[n]
  BY <1>1, ExmoTraceExists
<1>3. b[n] \in SoundSides
  BY <1>1, <1>2
<1>4. \A i \in 0..n : b[i] = IF i = 0 THEN s ELSE ExmoLevel(b[i - 1], delta[i])
  BY <1>2 DEF ExmoTrace
<1>5. b[0] = s
  BY <1>1, <1>4
<1>6. ASSUME NEW i \in 1..n PROVE After(b[i - 1], b[i], delta[i])
  <2>1. i \in 0..n /\ i # 0 /\ i - 1 \in 0..n /\ delta[i] \in Levels
    BY <1>1
  <2>2. b[i - 1] \in SoundSides /\ b[i] = ExmoLevel(b[i - 1], delta[i])
    BY <1>2, <1>4, <2>1
  <2> QED
    BY <2>1, <2>2, ExmoLevelIsAfter DEF SoundSides
<1>7. ASSUME NEW d, Agrees(s, d) PROVE Agrees(b[n], Changed(d, delta))
  BY <1>5, <1>6, <1>7, Replay
<1>8. ExmoDelta(s, delta) = Sorted(r)
  BY DEF ExmoDelta
<1> HIDE DEF r
<1>9. r \in Seq(Levels) /\ Sound(r)
  BY <1>2, <1>3 DEF SoundSides
<1>10. /\ Sorted(r) \in Seq(Levels) /\ Sound(Sorted(r))
       /\ \A p, a : Has(Sorted(r), p, a) <=> Has(r, p, a)
  BY <1>9, SortedLevels
<1>11. \A d : Agrees(r, d) <=> Agrees(Sorted(r), d)
  BY <1>10 DEF Agrees
<1> QED
  BY <1>2, <1>7, <1>8, <1>10, <1>11

-----------------------------------------------------------------------------
(* Snapshots                                                               *)

Offered == {p \in Prices : depth[p] > 0}

Level == [p \in Prices |-> [price |-> p, amount |-> depth[p]]]

\* c has the prices that have an amount, in the order R of them.
Ranked(i, R) == CHOOSE j \in Offered : Cardinality({k \in Offered : <<k, j>> \in R}) = i - 1

ListedBy(c, R) == c = [i \in 1..Cardinality(Offered) |-> Level[Ranked(i, R)]]

(* A list of the offered prices in any order is sound and complete.        *)
LEMMA Listed ==
    ASSUME depth \in [Prices -> Amounts], NEW c, NEW R, ListedBy(c, R),
           \A j \in Offered : <<j, j>> \notin R,
           \A i, j, k \in Offered : <<i, j>> \in R /\ <<j, k>> \in R => <<i, k>> \in R,
           \A i, j \in Offered : i # j => <<i, j>> \in R \/ <<j, i>> \in R
    PROVE  c \in Seq(Levels) /\ Sound(c) /\ Agrees(c, depth)
<1> DEFINE n == Cardinality(Offered)
<1>1. IsFiniteSet(Offered) /\ n \in Nat
  <2>1. IsFiniteSet(Prices)
    BY FS_Interval, BookAssumption DEF Prices
  <2>2. Offered \in SUBSET Prices
    BY DEF Offered
  <2> QED
    BY <2>1, <2>2, FS_Subset, FS_CardinalityType
<1>2. PICK f \in [1..n -> Offered] :
          /\ \A j \in Offered : \E i \in 1..n : f[i] = j
          /\ \A i \in 1..n : \A j \in Offered :
                 Cardinality({k \in Offered : <<k, j>> \in R}) = i - 1 <=> j = f[i]
          /\ \A i, j \in 1..n : i < j <=> <<f[i], f[j]>> \in R
  BY <1>1, Ranks
<1>3. ASSUME NEW i \in 1..n
      PROVE  f[i] = Ranked(i, R)
  <2>1. f[i] \in Offered
    OBVIOUS
  <2>2. \A j \in Offered : Cardinality({k \in Offered : <<k, j>> \in R}) = i - 1 <=> j = f[i]
    BY <1>2
  <2> QED
    BY <2>1, <2>2 DEF Ranked
<1>4. c = [i \in 1..n |-> Level[f[i]]]
  BY <1>3 DEF ListedBy
<1>5. \A p \in Offered : p \in Prices /\ p \in Int /\ depth[p] \in Amounts /\ depth[p] > 0
  BY BookAssumption DEF Offered, Prices
<1>6. \A p \in Offered : /\ Level[p] \in Levels
                         /\ Level[p].price = p /\ Level[p].amount = depth[p]
  BY <1>5 DEF Level, Levels
<1> HIDE DEF n
<1>7. c \in [1..n -> Levels]
  BY <1>4, <1>6
<1>8. c \in Seq(Levels)
  BY <1>1, <1>7, SeqDef
<1>9. Len(c) = n
  BY <1>1, <1>7, <1>8, LenProperties
<1>10. \A i \in 1..n : f[i] \in Offered /\ c[i].price = f[i] /\ c[i].amount = depth[f[i]]
  BY <1>4, <1>6
<1>11. Sound(c)
  <2>1. ASSUME NEW i \in 1..n, NEW j \in 1..n, i # j PROVE c[i].price # c[j].price
    <3>1. i < j \/ j < i
      BY <1>1, <2>1
    <3>2. f[i] # f[j]
      BY <1>2, <1>10, <3>1
    <3> QED
      BY <1>10, <3>2
  <2>2. ASSUME NEW i \in 1..n PROVE c[i].amount > 0
    BY <1>5, <1>10
  <2> QED
    BY <1>9, <2>1, <2>2 DEF Sound
<1>12. Agrees(c, depth)
  <2> SUFFICES ASSUME NEW p \in Prices, NEW a \in Amounts \ {0}
               PROVE  Has(c, p, a) <=> depth[p] = a
    BY DEF Agrees
  <2>1. Has(c, p, a) => depth[p] = a
    BY <1>9, <1>10 DEF Has
  <2>2. ASSUME depth[p] = a PROVE Has(c, p, a)
    <3>1. a \in Nat /\ a # 0
      BY BookAssumption DEF Amounts
    <3>2. p \in Offered
      BY <2>2, <3>1 DEF Offered
    <3>3. PICK i \in 1..n : f[i] = p
      BY <1>2, <3>2
    <3> QED
      BY <1>9, <1>10, <2>2, <3>3 DEF Has
  <2> QED
    BY <2>1, <2>2
<1> QED
  BY <1>8, <1>11, <1>12

(* So a snapshot is, whichever end of the book comes first.                *)
LEMMA ContentAgrees ==
    ASSUME depth \in [Prices -> Amounts], NEW c \in Content
    PROVE  c \in Seq(Levels) /\ Sound(c) /\ Agrees(c, depth)
<1> DEFINE Up   == {pq \in Offered \X Offered : Better(pq[1], pq[2])}
           Down == {pq \in Offered \X Offered : Better(pq[2], pq[1])}
<1>1. \A p \in Offered : p \in Int
  BY BookAssumption DEF Offered, Prices
<1>2. \A i, j \in Offered : <<i, j>> \in Up <=> Better(i, j)
  OBVIOUS
<1>3. \A i, j \in Offered : <<i, j>> \in Down <=> Better(j, i)
  OBVIOUS
<1>4. \A j \in Offered : {k \in Offered : <<k, j>> \in Up} = {k \in Offered : Better(k, j)}
  BY <1>2
<1>5. \A j \in Offered : {k \in Offered : <<k, j>> \in Down} = {k \in Offered : Better(j, k)}
  BY <1>3
<1> HIDE DEF Up, Down
<1>6. /\ \A j \in Offered : ~Better(j, j)
      /\ \A i, j, k \in Offered : Better(i, j) /\ Better(j, k) => Better(i, k)
      /\ \A i, j \in Offered : i # j => Better(i, j) \/ Better(j, i)
  BY <1>1 DEF Better
<1> DEFINE up(i)   == CHOOSE j \in Offered : Cardinality({k \in Offered : Better(k, j)}) = i - 1
           down(i) == CHOOSE j \in Offered : Cardinality({k \in Offered : Better(j, k)}) = i - 1
<1>7. \/ c = [i \in 1..Cardinality(Offered) |-> Level[up(i)]]
      \/ c = [i \in 1..Cardinality(Offered) |-> Level[down(i)]]
  BY DEF Content, Arranged, Offered, Level
<1>8. ListedBy(c, Up) \/ ListedBy(c, Down)
  <2>1. \A i : Ranked(i, Up) = up(i)
    BY <1>4 DEF Ranked
  <2>2. \A i : Ranked(i, Down) = down(i)
    BY <1>5 DEF Ranked
  <2> HIDE DEF up, down
  <2> QED
    BY <1>7, <2>1, <2>2 DEF ListedBy
<1>9. CASE ListedBy(c, Up)
  <2>1. /\ \A j \in Offered : <<j, j>> \notin Up
        /\ \A i, j, k \in Offered : <<i, j>> \in Up /\ <<j, k>> \in Up => <<i, k>> \in Up
        /\ \A i, j \in Offered : i # j => <<i, j>> \in Up \/ <<j, i>> \in Up
    <3> HIDE DEF Offered
    <3> QED
      BY <1>2, <1>6
  <2> QED
    BY <1>9, <2>1, Listed
<1>10. CASE ListedBy(c, Down)
  <2>1. /\ \A j \in Offered : <<j, j>> \notin Down
        /\ \A i, j, k \in Offered : <<i, j>> \in Down /\ <<j, k>> \in Down => <<i, k>> \in Down
        /\ \A i, j \in Offered : i # j => <<i, j>> \in Down \/ <<j, i>> \in Down
    BY <1>3, <1>6
  <2> QED
    BY <1>10, <2>1, Listed
<1> QED
  BY <1>8, <1>9, <1>10

(* A delta that has the content of the exchange's book makes it out of an  *)
(* empty one.                                                              *)
LEMMA ContentFills ==
    ASSUME depth \in [Prices -> Amounts], NEW c \in Content
    PROVE  Changed([p \in Prices |-> 0], c) = depth
<1> DEFINE zero == [p \in Prices |-> 0]
<1>1. c \in Seq(Levels) /\ Sound(c) /\ Agrees(c, depth)
  BY ContentAgrees
<1>2. ASSUME NEW p \in Prices PROVE Changed(zero, c)[p] = depth[p]
  <2>1. CASE PlacesOf(c, p) = {}
    <3>1. \A a : ~Has(c, p, a)
      BY <2>1, PlacesHas
    <3>2. depth[p] \in Amounts
      OBVIOUS
    <3>3. depth[p] = 0
      BY <1>1, <3>1, <3>2 DEF Agrees
    <3>4. Changed(zero, c)[p] = zero[p]
      BY <2>1, ChangedAt
    <3> QED
      BY <3>3, <3>4
  <2>2. CASE PlacesOf(c, p) # {}
    <3> DEFINE m == LastPlace(c, p)
    <3>1. m \in PlacesOf(c, p)
      BY <1>1, <2>2, LastPlaceIsLast
    <3>2. m \in 1..Len(c) /\ c[m].price = p
      BY <1>1, <3>1 DEF PlacesOf
    <3> HIDE DEF m
    <3>3. c[m].amount \in Amounts \ {0}
      <4>1. c[m].amount \in Amounts /\ c[m].amount \in Int
        BY <1>1, <3>2, LevelTyped
      <4>2. c[m].amount > 0
        BY <1>1, <3>2 DEF Sound
      <4> QED
        BY <4>1, <4>2
    <3>4. Has(c, p, c[m].amount)
      BY <3>2 DEF Has
    <3>5. depth[p] = c[m].amount
      BY <1>1, <3>3, <3>4 DEF Agrees
    <3>6. Changed(zero, c)[p] = c[m].amount
      BY <2>2, ChangedAt DEF m
    <3> QED
      BY <3>5, <3>6
  <2> QED
    BY <2>1, <2>2
<1>3. Changed(zero, c) = [p \in Prices |-> Changed(zero, c)[p]]
  BY DEF Changed
<1> QED
  BY <1>2, <1>3

-----------------------------------------------------------------------------
(* The inductive invariant                                                 *)

\* The properties together, and that a snapshot leaves no adapter without a book.
Kept ==
    /\ TypeOK
    /\ phase # "before" => probit # None /\ exmo # None
    /\ LibraryFollows
    /\ ProbitFollows
    /\ ExmoFollows

(* The absence of a book is not a book.                                    *)
LEMMA NoneIsNoSide ==
    ASSUME NEW s \in Seq(Levels)
    PROVE  s # None
<1>1. Levels \subseteq [price : Nat, amount : Nat]
  BY BookAssumption DEF Levels, Prices, Amounts
<1>2. s \in Seq([price : Nat, amount : Nat])
  BY <1>1, SeqMonotonic
<1> QED
  BY <1>2, BookAssumption

(* Shows() is Agrees() with the exchange's depth.                          *)
LEMMA ShowsAgrees ==
    ASSUME NEW s
    PROVE  Shows(s) <=> Agrees(s, depth)
BY DEF Shows, Agrees

(* A new book is empty, and in order.                                      *)
LEMMA EmptySide == <<>> \in Seq(Levels) /\ Sound(<<>>) /\ InOrder(<<>>)
BY EmptySeq DEF Sound, InOrder

LEMMA NoDepth == Agrees(<<>>, [p \in Prices |-> 0])
BY EmptySeq DEF Agrees, Has

(* Deltas of any length up to the bound are sequences of levels.           *)
LEMMA DeltasTyped == \A delta \in Deltas : delta \in Seq(Levels)
<1>1. \A n \in 0..MaxBatch : n \in Nat
  BY BookAssumption
<1> QED
  BY <1>1, SeqDef DEF Deltas

(* A delta leaves every price an amount.                                   *)
LEMMA ChangedTyped ==
    ASSUME NEW d \in [Prices -> Amounts], NEW delta \in Seq(Levels)
    PROVE  Changed(d, delta) \in [Prices -> Amounts]
<1>1. ASSUME NEW p \in Prices PROVE Changed(d, delta)[p] \in Amounts
  <2>1. CASE PlacesOf(delta, p) = {}
    <3>1. Changed(d, delta)[p] = d[p]
      BY <2>1, ChangedAt
    <3> QED
      BY <3>1
  <2>2. CASE PlacesOf(delta, p) # {}
    <3>1. LastPlace(delta, p) \in 1..Len(delta)
      BY <2>2, LastPlaceIsLast DEF PlacesOf
    <3>2. Changed(d, delta)[p] = delta[LastPlace(delta, p)].amount
      BY <2>2, ChangedAt
    <3> QED
      BY <3>1, <3>2, LevelTyped
  <2> QED
    BY <2>1, <2>2
<1>2. Changed(d, delta) = [p \in Prices |-> Changed(d, delta)[p]]
  BY DEF Changed
<1> QED
  BY <1>1, <1>2

(* Initially there is no book that could be wrong.                         *)
LEMMA KeptInit == Init => Kept
<1> SUFFICES ASSUME Init PROVE Kept
  OBVIOUS
<1>1. library \in Seq(Levels) /\ Sound(library) /\ InOrder(library)
  BY EmptySide DEF Init
<1>2. depth \in [Prices -> Amounts]
  BY BookAssumption DEF Init, Amounts
<1> QED
  BY <1>1, <1>2 DEF Init, Kept, TypeOK, LibraryFollows, ProbitFollows, ExmoFollows

(* A snapshot makes all three books anew.                                  *)
LEMMA KeptSnapshot == Kept /\ Snapshot => Kept'
<1> SUFFICES ASSUME Kept, Snapshot PROVE Kept'
  OBVIOUS
<1> DEFINE zero == [p \in Prices |-> 0]
<1>1. depth \in [Prices -> Amounts] /\ side \in {"bid", "ask"}
  BY DEF Kept, TypeOK
<1>2. PICK content \in Content :
          /\ library' = LibraryDelta(<<>>, content)
          /\ probit' = Sorted(content)
          /\ exmo' = content
          /\ phase' = "following" /\ side' = side /\ depth' = depth
  BY DEF Snapshot
<1>3. content \in Seq(Levels) /\ Sound(content) /\ Agrees(content, depth)
  BY <1>1, ContentAgrees
<1>4. /\ LibraryDelta(<<>>, content) \in Seq(Levels)
      /\ Sound(LibraryDelta(<<>>, content)) /\ InOrder(LibraryDelta(<<>>, content))
      /\ Agrees(LibraryDelta(<<>>, content), depth)
  BY <1>1, <1>3, LibraryDeltaAgrees, EmptySide, NoDepth, ContentFills
<1>5. /\ Sorted(content) \in Seq(Levels)
      /\ Sound(Sorted(content)) /\ InOrder(Sorted(content))
      /\ \A p, a : Has(Sorted(content), p, a) <=> Has(content, p, a)
  BY <1>3, SortedLevels
<1>6. Agrees(Sorted(content), depth)
  BY <1>3, <1>5 DEF Agrees
<1>7. /\ InOrder(library)' <=> InOrder(LibraryDelta(<<>>, content))
      /\ InOrder(probit)' <=> InOrder(Sorted(content))
  BY <1>2 DEF InOrder, Better
<1>8. /\ Shows(library)' <=> Agrees(LibraryDelta(<<>>, content), depth)
      /\ Shows(probit)' <=> Agrees(Sorted(content), depth)
      /\ Shows(exmo)' <=> Agrees(content, depth)
  BY <1>2 DEF Shows, Agrees
<1>9. /\ Sound(library)' <=> Sound(LibraryDelta(<<>>, content))
      /\ Sound(probit)' <=> Sound(Sorted(content))
      /\ Sound(exmo)' <=> Sound(content)
  BY <1>2 DEF Sound
<1>10. probit' # None /\ exmo' # None
  BY <1>2, <1>3, <1>5, NoneIsNoSide
<1>11. TypeOK'
  BY <1>1, <1>2, <1>3, <1>4, <1>5, <1>7, <1>9 DEF TypeOK
<1> QED
  BY <1>2, <1>3, <1>4, <1>6, <1>8, <1>10, <1>11
     DEF Kept, LibraryFollows, ProbitFollows, ExmoFollows

(* A lost delta touches no book.                                           *)
LEMMA KeptLose ==
    ASSUME NEW delta \in Deltas, Kept, Lose(delta)
    PROVE  Kept'
<1>1. delta \in Seq(Levels)
  BY DeltasTyped
<1>2. /\ depth' = Changed(depth, delta)
      /\ phase' = IF phase = "before" THEN "before" ELSE "lost"
      /\ side' = side /\ library' = library /\ probit' = probit /\ exmo' = exmo
  BY DEF Lose
<1>3. depth' \in [Prices -> Amounts]
  BY <1>1, <1>2, ChangedTyped DEF Kept, TypeOK
<1>4. (InOrder(library)' <=> InOrder(library)) /\ (InOrder(probit)' <=> InOrder(probit))
  BY <1>2 DEF InOrder, Better
<1>5. /\ Sound(library)' <=> Sound(library)
      /\ Sound(probit)' <=> Sound(probit)
      /\ Sound(exmo)' <=> Sound(exmo)
  BY <1>2 DEF Sound
<1>6. TypeOK'
  BY <1>2, <1>3, <1>4, <1>5 DEF Kept, TypeOK
<1> QED
  BY <1>2, <1>6 DEF Kept, LibraryFollows, ProbitFollows, ExmoFollows

(* A delta that arrives is applied to all three.                           *)
LEMMA KeptDelta ==
    ASSUME NEW delta \in Deltas, Kept, Delta(delta)
    PROVE  Kept'
<1>1. delta \in Seq(Levels)
  BY DeltasTyped
<1>2. /\ depth' = Changed(depth, delta)
      /\ library' = LibraryDelta(library, delta)
      /\ probit' = ProbitAfter(delta)
      /\ exmo' = ExmoAfter(delta)
      /\ side' = side /\ phase' = phase
  BY DEF Delta
<1>3. depth \in [Prices -> Amounts] /\ side \in {"bid", "ask"}
  BY DEF Kept, TypeOK
<1>4. depth' \in [Prices -> Amounts]
  BY <1>1, <1>2, <1>3, ChangedTyped
<1>5. /\ library' \in Seq(Levels) /\ Sound(library') /\ InOrder(LibraryDelta(library, delta))
      /\ Agrees(library, depth) => Agrees(library', depth')
  BY <1>1, <1>2, LibraryDeltaAgrees DEF Kept, TypeOK
<1>6. InOrder(library)'
  BY <1>2, <1>5 DEF InOrder, Better
<1>7. /\ ProbitAfter(delta) \in Seq(Levels) /\ InOrder(ProbitAfter(delta))
      /\ probit # None /\ Sound(probit) =>
             /\ Sound(ProbitAfter(delta))
             /\ Agrees(probit, depth) => Agrees(ProbitAfter(delta), Changed(depth, delta))
  <2>1. CASE probit = None
    BY <1>1, <2>1, SortedLevels DEF ProbitAfter
  <2>2. CASE probit # None
    BY <1>1, <2>2, ProbitDeltaAgrees DEF ProbitAfter, Kept, TypeOK
  <2> QED
    BY <2>1, <2>2
<1>8. InOrder(probit)'
  BY <1>2, <1>7 DEF InOrder, Better
<1>9. exmo # None =>
          /\ ExmoAfter(delta) \in Seq(Levels) /\ Sound(ExmoAfter(delta))
          /\ Agrees(exmo, depth) => Agrees(ExmoAfter(delta), Changed(depth, delta))
  BY <1>1, ExmoDeltaAgrees DEF ExmoAfter, Kept, TypeOK
<1>10. exmo = None => exmo' = None
  BY <1>2 DEF ExmoAfter
<1>11. /\ Sound(library)' <=> Sound(library')
       /\ Sound(probit)' <=> Sound(ProbitAfter(delta))
       /\ Sound(exmo)' <=> Sound(ExmoAfter(delta))
  BY <1>2 DEF Sound
<1>12. /\ Shows(library)' <=> Agrees(library', depth')
       /\ Shows(probit)' <=> Agrees(ProbitAfter(delta), Changed(depth, delta))
       /\ Shows(exmo)' <=> Agrees(ExmoAfter(delta), Changed(depth, delta))
  BY <1>2 DEF Shows, Agrees
<1>13. phase # "before" => probit # None /\ Sound(probit) /\ exmo # None
  BY DEF Kept, TypeOK
<1>14. phase' # "before" => probit' # None /\ exmo' # None
  BY <1>2, <1>7, <1>9, <1>13, NoneIsNoSide
<1>15. TypeOK'
  <2>1. exmo' # None => exmo' \in Seq(Levels) /\ Sound(exmo)'
    BY <1>2, <1>9, <1>10, <1>11
  <2>2. phase' # "before" => Sound(probit)'
    BY <1>2, <1>7, <1>11, <1>13
  <2>3. phase' \in {"before", "following", "lost"} /\ side' \in {"bid", "ask"}
    BY <1>2 DEF Kept, TypeOK
  <2> QED
    BY <1>2, <1>4, <1>5, <1>6, <1>7, <1>8, <1>11, <2>1, <2>2, <2>3 DEF TypeOK
<1>16. LibraryFollows'
  BY <1>2, <1>5, <1>12, ShowsAgrees DEF Kept, LibraryFollows
<1>17. ProbitFollows'
  BY <1>2, <1>7, <1>12, <1>13, ShowsAgrees DEF Kept, ProbitFollows
<1>18. ExmoFollows'
  BY <1>2, <1>9, <1>10, <1>12, <1>13, ShowsAgrees DEF Kept, ExmoFollows
<1> QED
  BY <1>14, <1>15, <1>16, <1>17, <1>18 DEF Kept

(* Every step keeps the invariant.                                         *)
LEMMA KeptNext == Kept /\ [Next]_vars => Kept'
<1> SUFFICES ASSUME Kept, [Next]_vars PROVE Kept'
  OBVIOUS
<1>1. CASE Snapshot
  BY <1>1, KeptSnapshot
<1>2. ASSUME NEW delta \in Deltas, Delta(delta) PROVE Kept'
  BY <1>2, KeptDelta
<1>3. ASSUME NEW delta \in Deltas, Lose(delta) PROVE Kept'
  BY <1>3, KeptLose
<1>4. CASE UNCHANGED vars
  BY <1>4 DEF vars, Kept, TypeOK, LibraryFollows, ProbitFollows, ExmoFollows,
              Shows, InOrder, Better
<1> QED
  BY <1>1, <1>2, <1>3, <1>4 DEF Next

(* Whatever is lost and however long the deltas are, the invariant holds.  *)
THEOREM KeptHolds == Spec => []Kept
BY KeptInit, KeptNext, PTL DEF Spec

\* A side has no price twice and no level without an amount, and the library's and
\* probit's are in order, whatever deltas were lost.
THEOREM TypeCorrect == Spec => []TypeOK
<1>1. Kept => TypeOK
  BY DEF Kept
<1> QED
  BY <1>1, KeptHolds, PTL

\* From a snapshot on, the side kept with apply_update() has exactly the exchange's
\* levels after every delta, whatever its length and the prices it repeats.
THEOREM LibraryFollowsHolds == Spec => []LibraryFollows
<1>1. Kept => LibraryFollows
  BY DEF Kept
<1> QED
  BY <1>1, KeptHolds, PTL

\* So has probit's, which sorts the delta before it applies it: the sort is stable, and
\* the last word on a price stays the last.
THEOREM ProbitFollowsHolds == Spec => []ProbitFollows
<1>1. Kept => ProbitFollows
  BY DEF Kept
<1> QED
  BY <1>1, KeptHolds, PTL

\* exmo's has no book before the first snapshot, and the exchange's from then on.
THEOREM ExmoFollowsHolds == Spec => []ExmoFollows
<1>1. Kept => ExmoFollows
  BY DEF Kept
<1> QED
  BY <1>1, KeptHolds, PTL
===============================================================================
