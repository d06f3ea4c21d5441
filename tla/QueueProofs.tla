---------------------------- MODULE QueueProofs -----------------------------
(***************************************************************************)
(* What stays of a queue: the n-th kept entry is the n-th of the kept      *)
(* positions, in order, and no kept position is lost.                      *)
(***************************************************************************)
EXTENDS Queues, FiniteSetTheorems, TLAPS

(* The elements of K up to i; their number is the rank of i in K.            *)
UpTo(K, i) == {j \in K : j <= i}

(* Position enumerates a finite set of positions in increasing order.        *)
LEMMA PositionOf ==
    ASSUME NEW N \in Nat, NEW K \in SUBSET (1..N)
    PROVE  /\ IsFiniteSet(K) /\ Cardinality(K) \in Nat
           /\ \A n \in 1..Cardinality(K) : Position(K, n) \in K
           /\ \A m, n \in 1..Cardinality(K) : m < n => Position(K, m) < Position(K, n)
           /\ \A m, n \in 1..Cardinality(K) : Position(K, m) = Position(K, n) => m = n
           /\ \A i \in K : \E n \in 1..Cardinality(K) : Position(K, n) = i
           /\ \A n \in 1..Cardinality(K) : Cardinality(UpTo(K, Position(K, n))) = n
  <1> DEFINE upto(i) == {j \in K : j <= i}
             rank == [i \in K |-> Cardinality(upto(i))]
             size == Cardinality(K)
  <1>1. IsFiniteSet(1..N)
    BY FS_Interval
  <1>2. IsFiniteSet(K) /\ size \in Nat
    BY <1>1, FS_Subset, FS_CardinalityType
  <1>3. \A i \in K : IsFiniteSet(upto(i)) /\ Cardinality(upto(i)) \in Nat
    BY <1>2, FS_Subset, FS_CardinalityType
  <1>4. ASSUME NEW i \in K
        PROVE  rank[i] \in 1..size
    <2>1. Cardinality(upto(i)) <= size
      <3>1. upto(i) \in SUBSET K
        OBVIOUS
      <3> QED
        BY <1>2, <3>1, FS_Subset
    <2>2. upto(i) # {}
      BY <1>4
    <2>3. Cardinality(upto(i)) # 0
      BY <1>3, <2>2, FS_EmptySet
    <2>4. Cardinality(upto(i)) \in Nat
      BY <1>3
    <2> HIDE DEF upto, size
    <2>5. Cardinality(upto(i)) \in 1..size
      BY <1>2, <2>1, <2>3, <2>4
    <2> QED
      BY <2>5
  <1>5. ASSUME NEW i \in K, NEW k \in K, i < k
        PROVE  rank[i] < rank[k]
    <2>0. \A j \in K : j <= i => j <= k
      <3>1. i \in Nat /\ k \in Nat /\ \A j \in K : j \in Nat
        BY <1>5
      <3> QED
        BY <1>5, <3>1
    <2>1. upto(i) \in SUBSET upto(k)
      BY <2>0
    <2>2. k \in upto(k) /\ k \notin upto(i)
      BY <1>5
    <2>3. upto(i) # upto(k)
      BY <2>2
    <2>4. IsFiniteSet(upto(k)) /\ Cardinality(upto(i)) \in Nat /\ Cardinality(upto(k)) \in Nat
      BY <1>3
    <2> HIDE DEF upto
    <2>5. Cardinality(upto(i)) # Cardinality(upto(k)) /\ Cardinality(upto(i)) <= Cardinality(upto(k))
      BY <2>1, <2>3, <2>4, FS_Subset
    <2>6. Cardinality(upto(i)) < Cardinality(upto(k))
      BY <2>4, <2>5
    <2> QED
      BY <2>6
  <1>a. \A i \in K : i \in Nat
    OBVIOUS
  <1>b. \A i, k \in K : rank[i] = rank[k] => i = k
    <2> SUFFICES ASSUME NEW i \in K, NEW k \in K, i # k PROVE rank[i] # rank[k]
      OBVIOUS
    <2>1. i < k \/ k < i
      BY <1>a
    <2>2. rank[i] \in Nat /\ rank[k] \in Nat
      BY <1>3
    <2> HIDE DEF rank
    <2> QED
      BY <1>5, <2>1, <2>2
  <1>6. rank \in Injection(K, 1..size)
    <2>1. rank \in [K -> 1..size]
      BY <1>4
    <2> HIDE DEF rank, size
    <2> QED
      BY <1>b, <2>1 DEF Injection, IsInjective
  <1>7. IsFiniteSet(1..size) /\ Cardinality(1..size) = size
    <2>1. 0 \in Int /\ 1 \in Int /\ size \in Int
      BY <1>2
    <2> HIDE DEF size
    <2>2. Cardinality(1..size) = IF 1 > size THEN 0 ELSE size - 1 + 1
      BY <2>1, FS_Interval
    <2>3. IsFiniteSet(1..size)
      BY <2>1, FS_Interval
    <2> QED
      BY <1>2, <2>2, <2>3 DEF size
  <1>8. rank \in Surjection(K, 1..size)
    <2>1. size = Cardinality(1..size)
      BY <1>7
    <2> HIDE DEF rank
    <2> QED
      BY <1>6, <1>7, <2>1, FS_Injection
  <1>9. \A n \in 1..size : \E i \in K : rank[i] = n
    <2> HIDE DEF rank, size
    <2> QED
      BY <1>8 DEF Surjection
  <1>10. \A n \in 1..size : Position(K, n) \in K /\ rank[Position(K, n)] = n
    BY <1>9 DEF Position
  <1>c. \A n \in 1..size : Cardinality(UpTo(K, Position(K, n))) = n
    BY <1>10 DEF UpTo
  <1> HIDE DEF rank
  <1>11. \A m, n \in 1..size : Position(K, m) = Position(K, n) => m = n
    BY <1>10
  <1>12. ASSUME NEW m \in 1..size, NEW n \in 1..size, m < n
         PROVE  Position(K, m) < Position(K, n)
    <2> DEFINE i == Position(K, m)
               k == Position(K, n)
    <2>1. i \in K /\ k \in K /\ rank[i] = m /\ rank[k] = n
      BY <1>10
    <2> HIDE DEF i, k
    <2>2. i \in Nat /\ k \in Nat /\ m \in Nat /\ n \in Nat
      BY <1>2, <1>a, <2>1
    <2>3. ~(k < i)
      BY <1>5, <1>12, <2>1, <2>2
    <2>4. i # k
      BY <1>12, <2>1, <2>2
    <2>5. i < k
      BY <2>2, <2>3, <2>4
    <2> QED
      BY <2>5 DEF i, k
  <1>13. ASSUME NEW i \in K
         PROVE  \E n \in 1..size : Position(K, n) = i
    <2>1. rank[i] \in 1..size
      BY <1>4
    <2>2. Position(K, rank[i]) \in K /\ rank[Position(K, rank[i])] = rank[i]
      BY <1>10, <2>1
    <2> QED
      BY <1>b, <2>1, <2>2
  <1> QED
    BY <1>2, <1>10, <1>11, <1>12, <1>13, <1>c

(* An element of K is at the place its rank in K says.                       *)
LEMMA RankGives ==
    ASSUME NEW N \in Nat, NEW K \in SUBSET (1..N), NEW i \in K,
           NEW n, n = Cardinality(UpTo(K, i))
    PROVE  n \in 1..Cardinality(K) /\ Position(K, n) = i
  <1>1. PICK m \in 1..Cardinality(K) : Position(K, m) = i
    BY PositionOf, SMTT(60)
  <1>2. Cardinality(UpTo(K, Position(K, m))) = m
    BY PositionOf
  <1> QED
    BY <1>1, <1>2

(* A part of a queue is a queue, its entries are the kept ones, in order.    *)
LEMMA KeptIs ==
    ASSUME NEW R, NEW q \in Seq(R), NEW K \in SUBSET DOMAIN q
    PROVE  LET g == Kept(q, K) IN
           /\ g \in Seq(R) /\ DOMAIN g = 1..Cardinality(K) /\ Cardinality(K) \in Nat
           /\ Len(g) = Cardinality(K)
           /\ \A n \in DOMAIN g : Position(K, n) \in K /\ g[n] = q[Position(K, n)]
           /\ \A m, n \in DOMAIN g : m < n => Position(K, m) < Position(K, n)
           /\ \A m, n \in DOMAIN g : Position(K, m) = Position(K, n) => m = n
           /\ \A i \in K : \E n \in DOMAIN g : Position(K, n) = i
  <1> DEFINE g == Kept(q, K)
  <1>1. Len(q) \in Nat /\ DOMAIN q = 1..Len(q) /\ K \in SUBSET (1..Len(q))
    OBVIOUS
  <1>2. /\ Cardinality(K) \in Nat
        /\ \A n \in 1..Cardinality(K) : Position(K, n) \in K
        /\ \A m, n \in 1..Cardinality(K) : m < n => Position(K, m) < Position(K, n)
        /\ \A m, n \in 1..Cardinality(K) : Position(K, m) = Position(K, n) => m = n
        /\ \A i \in K : \E n \in 1..Cardinality(K) : Position(K, n) = i
    BY <1>1, PositionOf
  <1>3. DOMAIN g = 1..Cardinality(K) /\ \A n \in DOMAIN g : g[n] = q[Position(K, n)]
    BY DEF Kept
  <1>4. \A i \in DOMAIN q : q[i] \in R
    OBVIOUS
  <1>5. g \in Seq(R) /\ Len(g) = Cardinality(K)
    <2>1. \A n \in 1..Cardinality(K) : q[Position(K, n)] \in R
      BY <1>2, <1>4
    <2> QED
      BY <1>2, <2>1 DEF Kept
  <1> HIDE DEF g
  <1> QED
    BY <1>2, <1>3, <1>5 DEF g

(* The same for Only: the entries that are in S, in their order.             *)
LEMMA OnlyIs ==
    ASSUME NEW R, NEW q \in Seq(R), NEW S, NEW g, g = Only(q, S)
    PROVE  /\ g \in Seq(R)
           /\ \A n \in DOMAIN g : g[n] \in S /\ \E i \in DOMAIN q : g[n] = q[i]
           /\ \A m, n \in DOMAIN g : m < n =>
                \E i, j \in DOMAIN q : i < j /\ g[m] = q[i] /\ g[n] = q[j]
           /\ \A i \in DOMAIN q : q[i] \in S => \E n \in DOMAIN g : g[n] = q[i]
  <1> DEFINE K == {i \in DOMAIN q : q[i] \in S}
  <1>1. K \in SUBSET DOMAIN q /\ g = Kept(q, K)
    BY DEF Only
  <1>2. \A i \in DOMAIN q : i \in K <=> q[i] \in S
    OBVIOUS
  <1> HIDE DEF K
  <1>3. /\ g \in Seq(R)
        /\ \A n \in DOMAIN g : Position(K, n) \in K /\ g[n] = q[Position(K, n)]
        /\ \A m, n \in DOMAIN g : m < n => Position(K, m) < Position(K, n)
        /\ \A i \in K : \E n \in DOMAIN g : Position(K, n) = i
    BY <1>1, KeptIs
  <1>4. \A n \in DOMAIN g : g[n] \in S /\ \E i \in DOMAIN q : g[n] = q[i]
    BY <1>1, <1>2, <1>3
  <1>5. \A m, n \in DOMAIN g : m < n =>
           \E i, j \in DOMAIN q : i < j /\ g[m] = q[i] /\ g[n] = q[j]
    BY <1>1, <1>3
  <1>6. \A i \in DOMAIN q : q[i] \in S => \E n \in DOMAIN g : g[n] = q[i]
    BY <1>2, <1>3
  <1> QED
    BY <1>3, <1>4, <1>5, <1>6
=============================================================================
