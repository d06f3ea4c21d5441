---------------------------- MODULE LedgerProofs ----------------------------
(***************************************************************************)
(* The Fact pipeline implements the ledger of Turns: every step of the     *)
(* pipeline is one ledger commit or leaves the ledger as it was.           *)
(*                                                                         *)
(* In a good log the n-th terminal ends the Turn of the n-th acceptance    *)
(* (EndsFollow).  A write adds Facts behind a good log, at most the last   *)
(* of them a terminal, and gives a good log; that makes it a commit.       *)
(***************************************************************************)
EXTENDS FactPipelineProofs

-----------------------------------------------------------------------------
(* A log as a ledger.                                                       *)

LEMMA OfIs ==
    ASSUME NEW L \in Seq(Facts), NEW b
    PROVE  /\ Len(L) \in Nat /\ Of(L, b) \in SUBSET DOMAIN L /\ Of(L, b) \in SUBSET (1..Len(L))
           /\ IsFiniteSet(Of(L, b)) /\ Cardinality(Of(L, b)) \in Nat
           /\ \A i \in DOMAIN L : i \in Of(L, b) <=> L[i].body \in b
  <1>1. Len(L) \in Nat /\ Of(L, b) \in SUBSET DOMAIN L /\ Of(L, b) \in SUBSET (1..Len(L))
    BY DEF Of
  <1>2. IsFiniteSet(Of(L, b)) /\ Cardinality(Of(L, b)) \in Nat
    BY <1>1, PositionOf
  <1> QED
    BY <1>1, <1>2 DEF Of

LEMMA AcceptancesAre ==
    ASSUME NEW L \in Seq(Facts), NEW K, K = Of(L, {"Accepted"}), NEW q, q = Acceptances(L)
    PROVE  /\ q \in Seq(Turns) /\ Len(q) = Cardinality(K) /\ DOMAIN q = 1..Cardinality(K)
           /\ \A n \in 1..Cardinality(K) : q[n] = L[Position(K, n)].turn
           /\ \A n \in 1..Cardinality(K) : Opens(L, Position(K, n), q[n])
  <1> DEFINE g == Kept(L, K)
  <1>1. K \in SUBSET DOMAIN L /\ \A i \in K : L[i].body = "Accepted"
    BY OfIs
  <1>2. /\ g \in Seq(Facts) /\ DOMAIN g = 1..Cardinality(K) /\ Cardinality(K) \in Nat
        /\ \A n \in DOMAIN g : Position(K, n) \in K /\ g[n] = L[Position(K, n)]
    BY <1>1, KeptIs
  <1>3. q = [n \in DOMAIN g |-> g[n].turn]
    BY DEF Acceptances, TurnsAt
  <1> HIDE DEF g
  <1>4. \A n \in DOMAIN g : g[n].turn \in Turns
    BY <1>2, FactFields
  <1>5. q \in Seq(Turns) /\ Len(q) = Cardinality(K) /\ DOMAIN q = 1..Cardinality(K)
    BY <1>2, <1>3, <1>4
  <1>6. \A n \in 1..Cardinality(K) : q[n] = L[Position(K, n)].turn
    BY <1>2, <1>3
  <1> QED
    BY <1>1, <1>2, <1>5, <1>6 DEF Opens

Ending(f) == [turn |-> f.turn, outcome |-> f.body]

LEMMA EndingsAre ==
    ASSUME NEW L \in Seq(Facts), NEW K, K = Of(L, Outcomes), NEW q, q = Endings(L)
    PROVE  /\ Len(q) = Cardinality(K) /\ DOMAIN q = 1..Cardinality(K)
           /\ \A n \in 1..Cardinality(K) :
                /\ q[n] = Ending(L[Position(K, n)])
                /\ q[n].turn = L[Position(K, n)].turn /\ q[n].outcome = L[Position(K, n)].body
                /\ Position(K, n) \in DOMAIN L /\ IsTerminal(L[Position(K, n)])
  <1> DEFINE g == Kept(L, K)
  <1>1. K \in SUBSET DOMAIN L /\ \A i \in K : L[i].body \in Outcomes
    BY OfIs
  <1>2. /\ g \in Seq(Facts) /\ DOMAIN g = 1..Cardinality(K) /\ Cardinality(K) \in Nat
        /\ \A n \in DOMAIN g : Position(K, n) \in K /\ g[n] = L[Position(K, n)]
    BY <1>1, KeptIs
  <1>3. q = [n \in DOMAIN g |-> Ending(g[n])]
    BY DEF Endings, Ending
  <1> HIDE DEF g
  <1>4. Len(q) = Cardinality(K) /\ DOMAIN q = 1..Cardinality(K)
    BY <1>2, <1>3
  <1>5. \A n \in 1..Cardinality(K) : q[n] = Ending(L[Position(K, n)])
    BY <1>2, <1>3
  <1>6. \A f : Ending(f).turn = f.turn /\ Ending(f).outcome = f.body
    BY DEF Ending
  <1>8. \A n \in 1..Cardinality(K) :
          Position(K, n) \in DOMAIN L /\ IsTerminal(L[Position(K, n)])
    BY <1>1, <1>2 DEF IsTerminal
  <1> QED
    BY <1>4, <1>5, <1>6, <1>8

(* What a log says first it goes on to say first when it grows.              *)
LEMMA PrefixRanks ==
    ASSUME NEW L, NEW M \in Seq(Facts), Prefix(L, M), NEW b,
           NEW K, K = Of(L, b), NEW J, J = Of(M, b)
    PROVE  /\ Cardinality(K) \in Nat /\ Cardinality(J) \in Nat /\ Cardinality(K) <= Cardinality(J)
           /\ \A n \in 1..Cardinality(K) :
                /\ n \in 1..Cardinality(J) /\ Position(K, n) \in K
                /\ Position(J, n) = Position(K, n) /\ M[Position(J, n)] = L[Position(K, n)]
  <1>1. /\ L \in Seq(Facts) /\ Len(L) \in Nat /\ Len(M) \in Nat /\ Len(L) <= Len(M)
        /\ DOMAIN L = 1..Len(L) /\ DOMAIN M = 1..Len(M) /\ \A i \in DOMAIN L : M[i] = L[i]
    BY DEF Prefix
  <1>2. K \in SUBSET (1..Len(L)) /\ J \in SUBSET (1..Len(M))
        /\ Cardinality(K) \in Nat /\ Cardinality(J) \in Nat /\ IsFiniteSet(J)
    BY <1>1, OfIs
  <1>3. \A i \in DOMAIN L : i \in DOMAIN M /\ (i \in K <=> i \in J)
    BY <1>1, OfIs
  <1>4. K \in SUBSET J
    BY <1>1, <1>2, <1>3
  <1>5. Cardinality(K) <= Cardinality(J)
    BY <1>2, <1>4, FS_Subset
  <1>6. ASSUME NEW n \in 1..Cardinality(K)
        PROVE  /\ n \in 1..Cardinality(J) /\ Position(K, n) \in K /\ Position(J, n) = Position(K, n)
    <2> DEFINE i == Position(K, n)
    <2>1. i \in K /\ Cardinality(UpTo(K, i)) = n
      BY <1>1, <1>2, PositionOf
    <2> HIDE DEF i
    <2>2. \A j \in J : j <= i => j \in K
      BY <1>1, <1>2, <1>3, <2>1
    <2>3. UpTo(K, i) = UpTo(J, i)
      BY <1>4, <2>2 DEF UpTo
    <2>4. n \in 1..Cardinality(J) /\ Position(J, n) = i
      BY <1>1, <1>2, <1>4, <2>1, <2>3, RankGives, ZenonT(60)
    <2> QED
      BY <2>1, <2>4 DEF i
  <1>7. \A n \in 1..Cardinality(K) : M[Position(J, n)] = L[Position(K, n)]
    BY <1>1, <1>2, <1>6
  <1> QED
    BY <1>2, <1>5, <1>6, <1>7

-----------------------------------------------------------------------------
(* Turns end in the order of their acceptance.                              *)

(* The terminals up to one of Turn t and the acceptances up to that of t     *)
(* belong to the same Turns.                                                 *)
LEMMA EndsMatch ==
    ASSUME NEW L \in Seq(Facts), GoodLog(L),
           NEW e \in DOMAIN L, IsTerminal(L[e]),
           NEW a \in DOMAIN L, Opens(L, a, L[e].turn),
           NEW A, A = UpTo(Of(L, {"Accepted"}), a), NEW E, E = UpTo(Of(L, Outcomes), e)
    PROVE  Cardinality(A) = Cardinality(E)
  <1>1. DOMAIN L = 1..Len(L) /\ Len(L) \in Nat /\ \A i \in DOMAIN L : i \in Nat
    OBVIOUS
  <1>2. \A i : i \in A <=> i \in DOMAIN L /\ i <= a /\ L[i].body = "Accepted"
    BY DEF Of, UpTo
  <1>3. \A i : i \in E <=> i \in DOMAIN L /\ i <= e /\ IsTerminal(L[i])
    BY DEF Of, UpTo, IsTerminal
  <1>4. ASSUME NEW i \in DOMAIN L, NEW j \in DOMAIN L, L[i].turn = L[j].turn,
               IsTerminal(L[i]), IsTerminal(L[j])
        PROVE  i = j
    <2>1. ~(i < j) /\ ~(j < i)
      BY <1>4 DEF GoodLog, WellEnded
    <2> QED
      BY <1>1, <2>1
  <1>5. ASSUME NEW i \in DOMAIN L, NEW j \in DOMAIN L, L[i].turn = L[j].turn,
               L[i].body = "Accepted", L[j].body = "Accepted"
        PROVE  i = j
    <2>1. ~(i < j) /\ ~(j < i)
      BY <1>5 DEF GoodLog, WellEnded
    <2> QED
      BY <1>1, <2>1
  <1>6. ASSUME NEW i \in E
        PROVE  \E j \in A : L[j].turn = L[i].turn
    <2>1. i \in DOMAIN L /\ i <= e /\ IsTerminal(L[i])
      BY <1>3
    <2>2. PICK j \in 1..i : Opens(L, j, L[i].turn)
      BY <2>1 DEF GoodLog, Opened
    <2>3. j \in DOMAIN L
      BY <1>1, <2>1
    <2>4. ASSUME a < j
          PROVE  FALSE
      <3>1. L[i].body \notin {"Accepted", "CancelRequested"}
        BY <2>1 DEF IsTerminal, Outcomes
      <3>2. PICK k \in 1..(i - 1) : L[k].turn = L[a].turn /\ IsTerminal(L[k])
        BY <2>1, <2>2, <2>3, <2>4, <3>1 DEF GoodLog, InTurn, Opens
      <3>3. k \in DOMAIN L /\ k < e
        BY <1>1, <2>1
      <3>4. k = e
        BY <1>4, <3>2, <3>3 DEF Opens
      <3> QED
        BY <1>1, <3>3, <3>4
    <2>5. j <= a
      BY <1>1, <2>3, <2>4
    <2> QED
      BY <1>2, <2>2, <2>3, <2>5 DEF Opens
  <1>7. ASSUME NEW j \in A
        PROVE  \E i \in E : L[i].turn = L[j].turn
    <2>1. j \in DOMAIN L /\ j <= a /\ L[j].body = "Accepted"
      BY <1>2
    <2>2. CASE j = a
      BY <1>1, <1>3, <2>2 DEF Opens
    <2>3. CASE j < a
      <3>1. L[e].body \notin {"Accepted", "CancelRequested"}
        BY DEF IsTerminal, Outcomes
      <3>2. PICK k \in 1..(e - 1) : L[k].turn = L[j].turn /\ IsTerminal(L[k])
        BY <2>1, <2>3, <3>1 DEF GoodLog, InTurn
      <3>3. k \in DOMAIN L /\ k <= e
        BY <1>1
      <3> QED
        BY <1>3, <3>2, <3>3
    <2> QED
      BY <1>1, <2>1, <2>2, <2>3
  <1> DEFINE of == [i \in E |-> CHOOSE j \in A : L[j].turn = L[i].turn]
  <1>8. \A i \in E : of[i] \in A /\ L[of[i]].turn = L[i].turn
    BY <1>6
  <1>9. of \in [E -> A]
    BY <1>8
  <1> HIDE DEF of
  <1>10. \A i, j \in E : of[i] = of[j] => i = j
    BY <1>3, <1>4, <1>8
  <1>11. \A j \in A : \E i \in E : of[i] = j
    BY <1>2, <1>5, <1>7, <1>8
  <1>12. of \in Bijection(E, A)
    BY <1>9, <1>10, <1>11 DEF Bijection, Injection, IsInjective, Surjection
  <1>13. IsFiniteSet(E) /\ IsFiniteSet(A)
    <2>1. E \in SUBSET Of(L, Outcomes) /\ A \in SUBSET Of(L, {"Accepted"})
      BY DEF UpTo
    <2> QED
      BY <2>1, OfIs, FS_Subset
  <1> QED
    BY <1>12, <1>13, FS_Bijection DEF ExistsBijection

LEMMA EndsFollow ==
    ASSUME NEW L \in Seq(Facts), GoodLog(L), NEW n \in 1..Len(Endings(L))
    PROVE  n \in 1..Len(Acceptances(L)) /\ Acceptances(L)[n] = Endings(L)[n].turn
  <1> DEFINE K == Of(L, {"Accepted"})
             J == Of(L, Outcomes)
             e == Position(J, n)
  <1>1. /\ Len(L) \in Nat /\ DOMAIN L = 1..Len(L)
        /\ K \in SUBSET (1..Len(L)) /\ J \in SUBSET (1..Len(L))
    BY OfIs
  <1>2. Len(Acceptances(L)) = Cardinality(K)
        /\ \A k \in 1..Cardinality(K) : Acceptances(L)[k] = L[Position(K, k)].turn
    BY AcceptancesAre
  <1>3. Len(Endings(L)) = Cardinality(J)
        /\ \A k \in 1..Cardinality(J) : Endings(L)[k].turn = L[Position(J, k)].turn
    BY EndingsAre
  <1>4. e \in J /\ Cardinality(UpTo(J, e)) = n
    BY <1>1, <1>3, PositionOf
  <1>5. e \in DOMAIN L /\ IsTerminal(L[e])
    BY <1>1, <1>4, OfIs DEF IsTerminal
  <1>6. PICK a \in DOMAIN L : Opens(L, a, L[e].turn)
    BY <1>5, GoodLogOpens DEF Has, Opens
  <1>7. a \in K
    BY <1>6, OfIs DEF Opens
  <1> HIDE DEF K, J, e
  <1>8. Cardinality(UpTo(K, a)) = Cardinality(UpTo(J, e))
    BY <1>5, <1>6, EndsMatch DEF K, J
  <1>9. n \in 1..Cardinality(K) /\ Position(K, n) = a
    BY <1>1, <1>4, <1>7, <1>8, RankGives
  <1> QED
    BY <1>2, <1>3, <1>6, <1>9 DEF e, Opens

-----------------------------------------------------------------------------
(* A write is a ledger commit.                                              *)

(* M is L with Facts behind it, none but the last of them a terminal.        *)
Writes(L, M) ==
  /\ L \in Seq(Facts) /\ M \in Seq(Facts) /\ GoodLog(L) /\ GoodLog(M) /\ Prefix(L, M)
  /\ \A i \in DOMAIN M : i > Len(L) /\ IsTerminal(M[i]) => i = Len(M)

LEMMA AcceptanceWrites ==
    ASSUME NEW L, NEW M, Writes(L, M), NEW p, p = Acceptances(L), NEW q, q = Acceptances(M)
    PROVE  /\ Ledger!Extends(q, p)
           /\ \A i, j \in DOMAIN q : i # j => q[i] # q[j]
  <1> USE DEF Writes
  <1> DEFINE K == Of(L, {"Accepted"})
             J == Of(M, {"Accepted"})
  <1>1. /\ Len(p) = Cardinality(K) /\ DOMAIN p = 1..Cardinality(K)
        /\ \A n \in 1..Cardinality(K) : p[n] = L[Position(K, n)].turn
    BY AcceptancesAre
  <1>2. /\ Len(q) = Cardinality(J) /\ DOMAIN q = 1..Cardinality(J)
        /\ \A n \in 1..Cardinality(J) : q[n] = M[Position(J, n)].turn
        /\ \A n \in 1..Cardinality(J) : Opens(M, Position(J, n), q[n])
    BY AcceptancesAre
  <1>3. /\ Cardinality(K) \in Nat /\ Cardinality(J) \in Nat /\ Cardinality(K) <= Cardinality(J)
        /\ \A n \in 1..Cardinality(K) :
             n \in 1..Cardinality(J) /\ M[Position(J, n)] = L[Position(K, n)]
    BY PrefixRanks
  <1>4. Len(M) \in Nat /\ J \in SUBSET (1..Len(M)) /\ J \in SUBSET DOMAIN M
    BY OfIs
  <1> HIDE DEF K, J
  <1>5. Ledger!Extends(q, p)
    BY <1>1, <1>2, <1>3 DEF Ledger!Extends
  <1>6. ASSUME NEW i \in DOMAIN q, NEW j \in DOMAIN q, q[i] = q[j]
        PROVE  i = j
    <2>1. Position(J, i) \in DOMAIN M /\ Position(J, j) \in DOMAIN M
          /\ (Position(J, i) = Position(J, j) => i = j)
      BY <1>2, <1>4, PositionOf
    <2>2. Opens(M, Position(J, i), q[i]) /\ Opens(M, Position(J, j), q[i])
      BY <1>2, <1>6
    <2>3. Position(J, i) = Position(J, j)
      BY <2>1, <2>2, AcceptedAtIs
    <2> QED
      BY <2>1, <2>3
  <1> QED
    BY <1>5, <1>6

LEMMA CancellationWrites ==
    ASSUME NEW L, NEW M, Writes(L, M)
    PROVE  /\ Cancellations(L) \subseteq Cancellations(M)
           /\ Cancellations(M) \ Cancellations(L)
                \subseteq Ledger!OpenIn(Acceptances(M), Endings(L))
  <1> USE DEF Writes
  <1>1. /\ DOMAIN L = 1..Len(L) /\ DOMAIN M = 1..Len(M) /\ Len(L) \in Nat /\ Len(M) \in Nat
        /\ \A i \in DOMAIN L : i \in DOMAIN M /\ M[i] = L[i]
    BY DEF Prefix
  <1>2. \A t : t \in Cancellations(L) <=> Has(L, t, "CancelRequested")
    BY DEF Cancellations, Of, Has
  <1>3. \A t : t \in Cancellations(M) <=> Has(M, t, "CancelRequested")
    BY DEF Cancellations, Of, Has
  <1>4. Cancellations(L) \subseteq Cancellations(M)
    BY <1>1, <1>2, <1>3 DEF Has
  <1>5. ASSUME NEW t \in Cancellations(M) \ Cancellations(L)
        PROVE  t \in Ledger!OpenIn(Acceptances(M), Endings(L))
    <2>1. PICK c \in DOMAIN M : M[c].turn = t /\ M[c].body = "CancelRequested"
      BY <1>3 DEF Has
    <2>2. c \notin DOMAIN L
      BY <1>1, <1>2, <2>1 DEF Has
    <2>3. PICK a \in DOMAIN M : Opens(M, a, t)
      BY <2>1, GoodLogOpens DEF Has, Opens
    <2> DEFINE J == Of(M, {"Accepted"})
               q == Acceptances(M)
               n == Cardinality(UpTo(J, a))
    <2>4. /\ a \in J /\ J \in SUBSET (1..Len(M))
      BY <2>3, OfIs DEF Opens
    <2>5. /\ Len(q) = Cardinality(J) /\ DOMAIN q = 1..Cardinality(J)
          /\ \A k \in 1..Cardinality(J) : q[k] = M[Position(J, k)].turn
      BY AcceptancesAre
    <2> HIDE DEF J, q
    <2>6. n \in 1..Cardinality(J) /\ Position(J, n) = a
      BY <1>1, <2>4, RankGives
    <2> HIDE DEF n
    <2>7. n \in 1..Len(q) /\ q[n] = t
      BY <2>3, <2>5, <2>6 DEF Opens
    <2>8. Len(Endings(L)) \in Nat
      BY EndingsAre, OfIs
    <2>9. ASSUME n <= Len(Endings(L))
          PROVE  FALSE
      <3>1. n \in 1..Len(Endings(L))
        BY <2>6, <2>8, <2>9
      <3>2. n \in 1..Len(Acceptances(L)) /\ Acceptances(L)[n] = Endings(L)[n].turn
        BY <3>1, EndsFollow
      <3>3. q[n] = Acceptances(L)[n]
        <4>1. Ledger!Extends(q, Acceptances(L))
          BY AcceptanceWrites DEF q
        <4>2. DOMAIN Acceptances(L) = 1..Len(Acceptances(L))
          BY AcceptancesAre
        <4> QED
          BY <3>2, <4>1, <4>2 DEF Ledger!Extends
      <3>4. PICK e \in DOMAIN L : IsTerminal(L[e]) /\ L[e].turn = t
        BY <2>7, <3>1, <3>2, <3>3, EndingsAre
      <3>5. e \in DOMAIN M /\ M[e] = L[e] /\ e < c
        BY <1>1, <2>2
      <3> QED
        BY <2>1, <3>4, <3>5 DEF GoodLog, WellEnded
    <2>10. n \in (Len(Endings(L)) + 1)..Len(q)
      BY <2>7, <2>8, <2>9
    <2> QED
      BY <2>7, <2>10 DEF q, Ledger!OpenIn
  <1> QED
    BY <1>4, <1>5

LEMMA EndingWrites ==
    ASSUME NEW L, NEW M, Writes(L, M), NEW d, d = Endings(L), NEW e, e = Endings(M),
           NEW q, q = Acceptances(M), e # d
    PROVE  /\ Ledger!Extends(e, d) /\ Len(e) = Len(d) + 1 /\ Len(e) <= Len(q)
           /\ e[Len(e)].turn = q[Len(e)]
           /\ e[Len(e)].outcome \in Outcomes
           /\ e[Len(e)].outcome = "Cancelled" <=> e[Len(e)].turn \in Cancellations(M)
  <1> USE DEF Writes
  <1> DEFINE K == Of(L, Outcomes)
             J == Of(M, Outcomes)
             m == Len(M)
  <1>1. /\ DOMAIN L = 1..Len(L) /\ DOMAIN M = 1..Len(M) /\ Len(L) \in Nat /\ Len(M) \in Nat
        /\ Len(L) <= Len(M) /\ \A i \in DOMAIN L : i \in DOMAIN M /\ M[i] = L[i]
    BY DEF Prefix
  <1>2. /\ Len(d) = Cardinality(K) /\ DOMAIN d = 1..Cardinality(K)
        /\ \A n \in 1..Cardinality(K) : d[n] = Ending(L[Position(K, n)])
    BY EndingsAre
  <1>3. /\ Len(e) = Cardinality(J) /\ DOMAIN e = 1..Cardinality(J)
        /\ \A n \in 1..Cardinality(J) : e[n] = Ending(M[Position(J, n)])
    BY EndingsAre
  <1>4. /\ Cardinality(K) \in Nat /\ Cardinality(J) \in Nat /\ Cardinality(K) <= Cardinality(J)
        /\ \A n \in 1..Cardinality(K) :
             n \in 1..Cardinality(J) /\ M[Position(J, n)] = L[Position(K, n)]
    BY PrefixRanks
  <1>5. /\ K \in SUBSET (1..Len(L)) /\ IsFiniteSet(K) /\ J \in SUBSET (1..Len(M)) /\ IsFiniteSet(J)
        /\ \A i \in DOMAIN L : i \in K <=> IsTerminal(L[i])
        /\ \A i \in DOMAIN M : i \in J <=> IsTerminal(M[i])
    BY OfIs DEF IsTerminal
  <1> HIDE DEF K, J
  <1>6. J = K \/ (m \notin K /\ m \in J /\ J = K \cup {m})
    <2>1. \A i \in K : i \in J
      BY <1>1, <1>5
    <2>2. ASSUME NEW i \in J
          PROVE  i \in K \/ i = m
      <3>1. i \in DOMAIN M /\ IsTerminal(M[i])
        BY <1>1, <1>5
      <3>2. CASE i \in DOMAIN L
        BY <1>1, <1>5, <3>1, <3>2
      <3>3. CASE i \notin DOMAIN L
        <4>1. i > Len(L)
          BY <1>1, <3>1, <3>3
        <4> QED
          BY <3>1, <4>1
      <3> QED
        BY <3>2, <3>3
    <2> QED
      BY <2>1, <2>2
  <1>7. Ledger!Extends(e, d)
    BY <1>2, <1>3, <1>4 DEF Ledger!Extends
  <1>8. J # K
    <2> SUFFICES ASSUME J = K PROVE FALSE
      OBVIOUS
    <2>1. DOMAIN e = DOMAIN d /\ \A n \in DOMAIN d : e[n] = d[n]
      BY <1>2, <1>3, <1>4
    <2>2. e = [n \in DOMAIN e |-> e[n]] /\ d = [n \in DOMAIN d |-> d[n]]
      BY DEF Endings
    <2> QED
      BY <2>1, <2>2
  <1>9. Cardinality(J) = Cardinality(K) + 1
    BY <1>5, <1>6, <1>8, FS_AddElement
  <1> DEFINE n == Cardinality(J)
  <1>10. Position(J, n) = m
    <2>0. \A j \in J : j <= m
      BY <1>1, <1>5
    <2>1. UpTo(J, m) = J
      BY <2>0 DEF UpTo
    <2>2. m \in J /\ n = Cardinality(UpTo(J, m))
      BY <1>6, <1>8, <2>1
    <2> HIDE DEF n, m
    <2> QED
      BY <1>1, <1>5, <2>2, RankGives
  <1>11. Len(e) = n /\ n \in 1..n /\ Len(e) = Len(d) + 1
    BY <1>2, <1>3, <1>4, <1>9
  <1>12. e[n] = Ending(M[m]) /\ m \in DOMAIN M /\ IsTerminal(M[m])
    BY <1>1, <1>3, <1>5, <1>6, <1>8, <1>10, <1>11
  <1> HIDE DEF n, m
  <1>13. e[n].turn = M[m].turn /\ e[n].outcome = M[m].body
    BY <1>12 DEF Ending
  <1>14. n \in 1..Len(q) /\ q[n] = e[n].turn
    BY <1>11, EndsFollow
  <1>15. n <= Len(q)
    <2>1. Len(q) \in Nat
      BY AcceptancesAre, OfIs
    <2> QED
      BY <1>14, <2>1
  <1>16. M[m].body = "Cancelled" <=> M[m].turn \in Cancellations(M)
    <2>1. M[m].turn \in Cancellations(M) <=> Has(M, M[m].turn, "CancelRequested")
      BY DEF Cancellations, Of, Has
    <2>2. \A j \in DOMAIN M : M[j].body = "CancelRequested" => j \in 1..(m - 1)
      <3>1. M[m].body # "CancelRequested"
        BY <1>12 DEF IsTerminal, Outcomes
      <3> QED
        BY <1>1, <3>1 DEF m
    <2>3. 1..(m - 1) \subseteq DOMAIN M
      BY <1>1 DEF m
    <2> QED
      BY <1>12, <2>1, <2>2, <2>3 DEF GoodLog, WellCancelled, Has
  <1> QED
    BY <1>7, <1>11, <1>12, <1>13, <1>14, <1>15, <1>16 DEF IsTerminal

-----------------------------------------------------------------------------
(* Every write of the pipeline is one.                                      *)

(* prepare_flush_batch cuts a batch behind the first terminal.               *)
BatchEnds == \A k \in 1..(Len(flight.facts) - 1) : ~IsTerminal(flight.facts[k])

LEMMA BatchEndsHolds == Spec => []BatchEnds
  <1>1. Init => BatchEnds
    BY DEF Init, BatchEnds, NoFlight
  <1>2. ASSUME Inv, BatchEnds, [Next]_vars
        PROVE  BatchEnds'
    <2>1. CASE flight' = flight
      BY <1>2, <2>1 DEF BatchEnds
    <2>2. CASE flight' = NoFlight
      BY <2>2 DEF BatchEnds, NoFlight
    <2>3. CASE PrepareFlush
      <3>1. PICK n \in DOMAIN pending :
              /\ \A i \in 1..(n - 1) : ~IsTerminal(pending[i])
              /\ flight' = [phase |-> "sent", expected |-> durableSeq,
                            facts |-> SubSeq(pending, 1, n), result |-> "none"]
        BY <2>3 DEF PrepareFlush
      <3> DEFINE F == SubSeq(pending, 1, n)
      <3>2. pending \in Seq(Facts) /\ n \in 1..Len(pending)
        BY <1>2 DEF Inv, TypeOK
      <3>3. Len(F) = n /\ \A k \in 1..n : F[k] = pending[k]
        BY <3>2
      <3>4. flight'.facts = F
        BY <3>1
      <3> HIDE DEF F
      <3> QED
        BY <3>1, <3>2, <3>3, <3>4 DEF BatchEnds
    <2>4. CASE FlushStore
      <3>1. flight'.facts = flight.facts
        BY <1>2, <2>4 DEF FlushStore, Inv, TypeOK, Flights
      <3> QED
        BY <1>2, <3>1 DEF BatchEnds
    <2>5. flight' = flight \/ flight' = NoFlight \/ PrepareFlush \/ FlushStore
      <3>1. ASSUME NEW t \in Turns,
                   Submit(t) \/ Cancel(t) \/ Release(t) \/ StepBegin(t) \/ AcceptBegin(t)
            PROVE  flight' = flight
        BY <3>1 DEF Submit, Cancel, Release, StepBegin, OpBegin, AcceptBegin
      <3>2. ASSUME NEW t \in Turns, NEW b \in EffectBodies, Publish(t, b) PROVE flight' = flight
        BY <3>2 DEF Publish
      <3>3. ASSUME NEW t \in Turns, NEW o \in Proposals, PublishTerminal(t, o) \/ FinishBegin(t, o)
            PROVE  flight' = flight
        BY <3>3 DEF PublishTerminal, FinishBegin, OpBegin
      <3>4. ASSUME NEW f \in waits, WaitReturns(f) \/ WaitFails(f) PROVE flight' = flight
        BY <3>4 DEF WaitReturns, WaitFails
      <3>5. Claim \/ ClaimQuarantines => flight' = flight
        BY DEF Claim, ClaimQuarantines
      <3>6. FlushSucceeds \/ FlushFails => flight' = NoFlight
        BY DEF FlushSucceeds, FlushFails
      <3>7. OpSend \/ OpAbandon \/ OpStore => flight' = flight
        BY DEF OpSend, OpAbandon, OpStore
      <3>8. FinishInstall \/ FinishFails \/ FinishIndeterminate \/ StepInstall \/ StepFails
              => flight' = flight
        BY DEF FinishInstall, FinishFails, FinishIndeterminate, StepInstall, StepFails
      <3>9. Crash => flight' = NoFlight
        BY DEF Crash
      <3>10. RepairTurn \/ Boot \/ Load \/ UNCHANGED vars => flight' = flight
        BY DEF RepairTurn, Boot, Load, vars
      <3>11. AcceptKnown \/ AcceptInstall \/ AcceptFails \/ GuardDrop => flight' = flight
        BY DEF AcceptKnown, AcceptInstall, AcceptFails, GuardDrop
      <3> QED
        BY <1>2, <3>1, <3>2, <3>3, <3>4, <3>5, <3>6, <3>7, <3>8, <3>9, <3>10, <3>11 DEF Next
    <2> QED
      BY <2>1, <2>2, <2>3, <2>4, <2>5
  <1> QED
    BY <1>1, <1>2, InvHolds, PTL DEF Spec

LEMMA StoreWrites ==
    ASSUME Inv, Inv', BatchEnds, [Next]_vars
    PROVE  stored' = stored \/ Writes(stored, stored')
  <1>1. /\ stored \in Seq(Facts) /\ stored' \in Seq(Facts) /\ GoodLog(stored) /\ GoodLog(stored')
        /\ Len(stored) \in Nat /\ Len(stored') \in Nat
    BY DEF Inv, TypeOK, LogsAgree
  <1>2. Prefix(stored, stored')
    BY <1>1, StoreOnlyGrows DEF Prefix
  <1>3. ASSUME NEW F \in Seq(Facts), stored' = stored \o F,
               \A k \in 1..(Len(F) - 1) : ~IsTerminal(F[k])
        PROVE  Writes(stored, stored')
    <2>1. /\ Len(stored') = Len(stored) + Len(F) /\ Len(F) \in Nat
          /\ \A k \in 1..Len(F) : stored'[Len(stored) + k] = F[k]
      BY <1>1, <1>3, AppendIs
    <2>2. ASSUME NEW i \in DOMAIN stored', i > Len(stored), IsTerminal(stored'[i])
          PROVE  i = Len(stored')
      <3> DEFINE k == i - Len(stored)
      <3>1. k \in 1..Len(F) /\ i = Len(stored) + k
        BY <1>1, <2>1, <2>2
      <3> HIDE DEF k
      <3>2. IsTerminal(F[k])
        BY <2>1, <2>2, <3>1
      <3>3. k \notin 1..(Len(F) - 1)
        BY <1>3, <3>2
      <3>4. k = Len(F)
        BY <2>1, <3>1, <3>3
      <3> QED
        BY <2>1, <3>1, <3>4
    <2> QED
      BY <1>1, <1>2, <2>2 DEF Writes
  <1>4. CASE FlushStore
    <2>1. stored' = stored \/ stored' = stored \o flight.facts
      BY <1>4 DEF FlushStore, StoreAnswer
    <2>2. flight.facts \in Seq(Facts)
      BY FlightFields DEF Inv
    <2> QED
      BY <1>3, <2>1, <2>2 DEF BatchEnds
  <1>5. CASE OpStore
    <2>1. stored' = stored \/ stored' = stored \o op.facts
      BY <1>5 DEF OpStore, StoreAnswer
    <2>2. op.facts \in Seq(Facts)
      BY OpFields DEF Inv
    <2>3. Len(op.facts) = 1
      BY <1>5 DEF OpStore, Inv, OpAgrees, OpStages, Staged
    <2>4. \A k \in 1..(Len(op.facts) - 1) : ~IsTerminal(op.facts[k])
      BY <2>3
    <2> QED
      BY <1>3, <2>1, <2>2, <2>4
  <1>6. CASE RepairTurn
    BY <1>1, <1>2, <1>6, RepairGrows DEF Writes
  <1> QED
    BY <1>4, <1>5, <1>6, WritersAre

(* The Store, read as a ledger of Turns, behaves as TurnLedger prescribes:    *)
(* acceptance order, cancellations of open Turns only, and the end of the     *)
(* oldest open Turn with the right outcome, in single commits, whichever of   *)
(* the write-behind worker, claim_message_with_lane, finish_direct_claim,     *)
(* claim_pending_step_messages and repair_unfinished_session writes.          *)
THEOREM PipelineImplementsLedger == Spec => ImplementsLedger
  <1>1. Init => Ledger!Init
    <2> SUFFICES ASSUME Init PROVE Ledger!Init
      OBVIOUS
    <2>1. stored = <<>>
      BY DEF Init
    <2>2. \A b : Of(stored, b) = {}
      BY <2>1 DEF Of
    <2>3. Cardinality({}) = 0
      BY FS_EmptySet
    <2>4. Kept(stored, {}) = <<>>
      BY <2>3 DEF Kept
    <2>5. Acceptances(stored) = <<>> /\ Endings(stored) = <<>>
      <3>1. Kept(stored, Of(stored, {"Accepted"})) = <<>> /\ Kept(stored, Of(stored, Outcomes)) = <<>>
        BY <2>2, <2>4
      <3>2. Acceptances(stored) = <<>>
        BY <3>1 DEF Acceptances, TurnsAt
      <3>3. Endings(stored) = <<>>
        BY <3>1 DEF Endings
      <3> QED
        BY <3>2, <3>3
    <2>6. Cancellations(stored) = {}
      BY <2>2 DEF Cancellations
    <2> QED
      BY <2>5, <2>6 DEF Ledger!Init
  <1>2. ASSUME Inv, Inv', BatchEnds, [Next]_vars
        PROVE  [Ledger!Commit]_(Ledger!ledger)
    <2>1. CASE stored' = stored
      <3>1. /\ Acceptances(stored)' = Acceptances(stored)
            /\ Cancellations(stored)' = Cancellations(stored)
            /\ Endings(stored)' = Endings(stored)
        BY <2>1
      <3> QED
        BY <3>1 DEF Ledger!ledger
    <2>2. CASE Writes(stored, stored')
      <3>1. /\ Ledger!Extends(Acceptances(stored'), Acceptances(stored))
            /\ \A i, j \in DOMAIN Acceptances(stored') :
                 i # j => Acceptances(stored')[i] # Acceptances(stored')[j]
        BY <2>2, AcceptanceWrites
      <3>2. /\ Cancellations(stored) \subseteq Cancellations(stored')
            /\ Cancellations(stored') \ Cancellations(stored)
                 \subseteq Ledger!OpenIn(Acceptances(stored'), Endings(stored))
        BY <2>2, CancellationWrites
      <3>3. LET d == Endings(stored)
                e == Endings(stored')
                q == Acceptances(stored')
            IN  e = d \/
                  /\ Ledger!Extends(e, d) /\ Len(e) = Len(d) + 1 /\ Len(e) <= Len(q)
                  /\ e[Len(e)].turn = q[Len(e)]
                  /\ e[Len(e)].outcome \in Outcomes
                  /\ e[Len(e)].outcome = "Cancelled" <=> e[Len(e)].turn \in Cancellations(stored')
        BY <2>2, EndingWrites
      <3>4. Ledger!AcceptTurns
        BY <3>1 DEF Ledger!AcceptTurns
      <3>5. Ledger!RequestCancellations
        BY <3>2 DEF Ledger!RequestCancellations
      <3>6. Ledger!EndOldest
        BY <3>3 DEF Ledger!EndOldest
      <3> QED
        BY <3>4, <3>5, <3>6 DEF Ledger!Commit
    <2> QED
      BY <1>2, <2>1, <2>2, StoreWrites
  <1> QED
    BY <1>1, <1>2, InvHolds, BatchEndsHolds, PTL DEF Spec, ImplementsLedger, Ledger!Spec

=============================================================================
