------------------------ MODULE ActivationTreeProofs ------------------------
(***************************************************************************)
(* The activations of an Agent tree, for any number of Sessions, any fork  *)
(* lineage and all capacities: the facts about mailboxes, the inductive    *)
(* invariant that the steps of ActivationTree keep, and what follows from  *)
(* it: nesting of activations, no stranded input, room for completions,    *)
(* and no start in a suspended inbox.                                      *)
(***************************************************************************)
EXTENDS ActivationTree, QueueProofs

-----------------------------------------------------------------------------
(* Queues.                                                                  *)

(* The places of x in a queue, and queues that need no more of them.         *)
Slots(q, x) == {i \in DOMAIN q : q[i].to = x}
Fits(g, q) == \A x : Cardinality(Slots(g, x)) <= Cardinality(Slots(q, x))

LEMMA SlotsFinite ==
    ASSUME NEW R, NEW q \in Seq(R), NEW x
    PROVE  IsFiniteSet(Slots(q, x)) /\ Cardinality(Slots(q, x)) \in Nat
  <1>1. IsFiniteSet(1..Len(q)) /\ DOMAIN q = 1..Len(q)
    BY FS_Interval
  <1>2. Slots(q, x) \in SUBSET (1..Len(q))
    BY <1>1 DEF Slots
  <1>3. IsFiniteSet(Slots(q, x))
    BY <1>1, <1>2, FS_Subset
  <1> QED
    BY <1>3, FS_CardinalityType

LEMMA EmbedFits ==
    ASSUME NEW R, NEW q \in Seq(R), NEW g, NEW h \in [DOMAIN g -> DOMAIN q],
           \A m, n \in DOMAIN g : h[m] = h[n] => m = n,
           \A n \in DOMAIN g : g[n].to = q[h[n]].to
    PROVE  Fits(g, q)
  <1> SUFFICES ASSUME NEW x
               PROVE  Cardinality(Slots(g, x)) <= Cardinality(Slots(q, x))
    BY DEF Fits
  <1> DEFINE f == [n \in Slots(g, x) |-> h[n]]
  <1>1. f \in [Slots(g, x) -> Slots(q, x)]
    BY DEF Slots
  <1>2. \A m, n \in Slots(g, x) : f[m] = f[n] => m = n
    BY DEF Slots
  <1> HIDE DEF f
  <1>3. f \in Injection(Slots(g, x), Slots(q, x))
    BY <1>1, <1>2 DEF Injection, IsInjective
  <1> QED
    BY <1>3, SlotsFinite, FS_Injection

LEMMA KeptFits ==
    ASSUME NEW R, NEW q \in Seq(R), NEW K \in SUBSET DOMAIN q
    PROVE  Fits(Kept(q, K), q)
  <1> DEFINE g == Kept(q, K)
             h == [n \in DOMAIN g |-> Position(K, n)]
  <1>1. /\ g \in Seq(R)
        /\ \A n \in DOMAIN g : Position(K, n) \in K /\ g[n] = q[Position(K, n)]
        /\ \A m, n \in DOMAIN g : Position(K, m) = Position(K, n) => m = n
    BY KeptIs
  <1> HIDE DEF g
  <1>2. /\ h \in [DOMAIN g -> DOMAIN q]
        /\ \A m, n \in DOMAIN g : h[m] = h[n] => m = n
        /\ \A n \in DOMAIN g : g[n].to = q[h[n]].to
    BY <1>1
  <1> HIDE DEF h
  <1>3. Fits(g, q)
    BY <1>2, EmbedFits
  <1> QED
    BY <1>3 DEF g

(* Two parts of a queue, one after the other.                                *)
LEMMA SplitIs ==
    ASSUME NEW R, NEW q \in Seq(R), NEW K \in SUBSET DOMAIN q
    PROVE  LET g == Kept(q, DOMAIN q \ K) \o Kept(q, K) IN
           /\ g \in Seq(R)
           /\ \A n \in DOMAIN g : \E i \in DOMAIN q : g[n] = q[i]
           /\ Fits(g, q)
  <1> DEFINE J == DOMAIN q \ K
             a == Kept(q, J)
             b == Kept(q, K)
             g == a \o b
  <1>1. /\ a \in Seq(R) /\ DOMAIN a = 1..Cardinality(J) /\ Cardinality(J) \in Nat
        /\ Len(a) = Cardinality(J)
        /\ \A n \in DOMAIN a : Position(J, n) \in J /\ a[n] = q[Position(J, n)]
    <2>1. J \in SUBSET DOMAIN q
      OBVIOUS
    <2> HIDE DEF J
    <2> QED
      BY <2>1, KeptIs
  <1>2. /\ b \in Seq(R) /\ DOMAIN b = 1..Cardinality(K) /\ Cardinality(K) \in Nat
        /\ Len(b) = Cardinality(K)
        /\ \A n \in DOMAIN b : Position(K, n) \in K /\ b[n] = q[Position(K, n)]
    BY KeptIs
  <1>3. /\ \A m, n \in 1..Cardinality(J) : Position(J, m) = Position(J, n) => m = n
        /\ \A m, n \in 1..Cardinality(K) : Position(K, m) = Position(K, n) => m = n
    <2>1. Len(q) \in Nat /\ J \in SUBSET (1..Len(q)) /\ K \in SUBSET (1..Len(q))
      OBVIOUS
    <2> HIDE DEF J
    <2> QED
      BY <2>1, PositionOf
  <1>4. J \cap K = {} /\ J \subseteq DOMAIN q
    OBVIOUS
  <1> DEFINE cj == Cardinality(J)
             ck == Cardinality(K)
             h == [n \in 1..(cj + ck) |-> IF n <= cj THEN Position(J, n) ELSE Position(K, n - cj)]
  <1> HIDE DEF J, a, b
  <1>5. g \in Seq(R) /\ DOMAIN g = 1..(cj + ck)
    <2>0. a \in Seq(R) /\ b \in Seq(R)
      BY <1>1, <1>2
    <2>a. g \in Seq(R)
      BY <2>0
    <2>1. g \in Seq(R) /\ Len(g) = Len(a) + Len(b)
      BY <2>0, <2>a
    <2>2. DOMAIN g = 1..Len(g)
      BY <2>1
    <2> QED
      BY <1>1, <1>2, <2>1, <2>2
  <1>6. \A n \in 1..(cj + ck) :
          /\ n <= cj => n \in DOMAIN a /\ g[n] = a[n]
          /\ ~(n <= cj) => (n - cj) \in DOMAIN b /\ g[n] = b[n - cj]
    BY <1>1, <1>2
  <1> HIDE DEF cj, ck, g
  <1>a. \A n \in 1..(cj + ck) :
          /\ n <= cj => h[n] \in J /\ h[n] = Position(J, n) /\ n \in 1..cj
          /\ ~(n <= cj) => h[n] \in K /\ h[n] = Position(K, n - cj) /\ n - cj \in 1..ck
    BY <1>1, <1>2, <1>6 DEF cj, ck
  <1>b. DOMAIN h = 1..(cj + ck) /\ cj \in Nat /\ ck \in Nat
    BY <1>1, <1>2 DEF cj, ck
  <1> HIDE DEF h
  <1>7. h \in [DOMAIN g -> DOMAIN q]
    <2>1. \A n \in 1..(cj + ck) : h[n] \in DOMAIN q
      BY <1>4, <1>a
    <2>2. h = [n \in 1..(cj + ck) |-> h[n]]
      BY DEF h
    <2> QED
      BY <1>5, <2>1, <2>2
  <1>8. \A n \in DOMAIN g : g[n] = q[h[n]]
    BY <1>1, <1>2, <1>5, <1>6, <1>a
  <1>9. ASSUME NEW m \in DOMAIN g, NEW n \in DOMAIN g, h[m] = h[n]
        PROVE  m = n
    <2>1. m \in 1..(cj + ck) /\ n \in 1..(cj + ck)
      BY <1>5
    <2>2. m <= cj <=> n <= cj
      BY <1>4, <1>9, <1>a, <2>1
    <2>3. CASE m <= cj
      BY <1>3, <1>9, <1>a, <2>1, <2>2, <2>3 DEF cj
    <2>4. CASE ~(m <= cj)
      <3>1. m - cj = n - cj
        BY <1>3, <1>9, <1>a, <2>1, <2>2, <2>4 DEF ck
      <3> QED
        BY <1>b, <2>1, <3>1
    <2> QED
      BY <2>3, <2>4
  <1>10. Fits(g, q)
    BY <1>7, <1>8, <1>9, EmbedFits
  <1>11. \A n \in DOMAIN g : \E i \in DOMAIN q : g[n] = q[i]
    BY <1>7, <1>8
  <1> QED
    BY <1>5, <1>10, <1>11 DEF g, a, b, J

LEMMA FitsTransitive ==
    ASSUME NEW R, NEW f \in Seq(R), NEW g \in Seq(R), NEW q \in Seq(R), Fits(f, g), Fits(g, q)
    PROVE  Fits(f, q)
  <1> SUFFICES ASSUME NEW x
               PROVE  Cardinality(Slots(f, x)) <= Cardinality(Slots(q, x))
    BY DEF Fits
  <1>1. /\ Cardinality(Slots(f, x)) \in Nat /\ Cardinality(Slots(g, x)) \in Nat
        /\ Cardinality(Slots(q, x)) \in Nat
    BY SlotsFinite
  <1> QED
    BY <1>1 DEF Fits

LEMMA AppendSlots ==
    ASSUME NEW R, NEW q \in Seq(R), NEW m \in R, NEW x
    PROVE  LET g == Append(q, m) IN
           Cardinality(Slots(g, x)) = Cardinality(Slots(q, x)) + (IF m.to = x THEN 1 ELSE 0)
  <1> DEFINE g == Append(q, m)
             e == Len(q) + 1
  <1>1. /\ g \in Seq(R) /\ DOMAIN g = DOMAIN q \cup {e} /\ e \notin DOMAIN q
        /\ g[e] = m /\ \A i \in DOMAIN q : g[i] = q[i]
    OBVIOUS
  <1> HIDE DEF g, e
  <1>2. IsFiniteSet(Slots(q, x)) /\ Cardinality(Slots(q, x)) \in Nat
    BY SlotsFinite
  <1>3. CASE m.to = x
    <2>1. Slots(g, x) = Slots(q, x) \cup {e} /\ e \notin Slots(q, x)
      BY <1>1, <1>3 DEF Slots
    <2>2. Cardinality(Slots(g, x)) = Cardinality(Slots(q, x)) + 1
      BY <1>2, <2>1, FS_AddElement
    <2> QED
      BY <1>3, <2>2 DEF g
  <1>4. CASE m.to # x
    <2>1. Slots(g, x) = Slots(q, x)
      BY <1>1, <1>4 DEF Slots
    <2> QED
      BY <1>2, <1>4, <2>1 DEF g
  <1> QED
    BY <1>3, <1>4

-----------------------------------------------------------------------------
(* The inductive invariant.                                                 *)

Roots == Sessions \cup {NoSession}
ActRecord ==
    [phase : Phases, no : Nat, held : Nat, outcome : Outcomes \cup {"none"},
     cancel : BOOLEAN]
FinRecord ==
    [pc : {"none", "ending", "unsettled"}, outcome : Outcomes \cup {"none"},
     todo : SUBSET Sessions]
MailRecord ==
    [id : MessageIds, to : Sessions, src : {"human", "agent", "completion"},
     target : {"step", "turn"}, steer : BOOLEAN]

Types ==
    /\ born \subseteq Sessions /\ IsFiniteSet(born)
    /\ act \in [Sessions -> ActRecord]
    /\ paused \in [Sessions -> BOOLEAN]
    /\ mail \in Seq(MailRecord)
    /\ lane \subseteq Sessions /\ IsFiniteSet(lane)
    /\ fin \in [Sessions -> FinRecord]
    /\ cand \in [id : MessageIds, to : Roots]
    /\ round \subseteq Sessions
    /\ settler \in [session : Roots, no : Nat]
    /\ mode \in {"up", "repair", "reconcile"}
    /\ left \in 0..Budget

(* One activation and the ending of its Turn.                                *)
ActAgrees(a, f) ==
    /\ a.cancel => a.phase \in {"running", "parked"}
    /\ a.phase = "waiting" <=> a.outcome \in Outcomes
    /\ a.held # 0 => a.phase # "none"
    /\ f.pc # "none" => a.phase = "running" /\ f.outcome \in Outcomes

BornAgree ==
    \A s \in Sessions :
        /\ HasActive(s) => s \in born
        /\ s \in born /\ HasParent(s) => Parent[s] \in born

LanesAgree ==
    /\ \A s \in lane : act[s].phase = "running"
    /\ Cardinality(lane) + (IF cand = NoCand THEN 0 ELSE 1) <= MaxRunning

(* Nothing volatile survives a crash.                                        *)
DownAgrees ==
    mode # "up" => lane = {} /\ cand = NoCand /\ \A s \in Sessions : fin[s] = NoFin

(* The identity of a message says where it goes; identities of submissions   *)
(* still to come are fresh.                                                  *)
Labels(q, c) ==
    {<<q[i].id, q[i].to>> : i \in DOMAIN q}
      \cup (IF c = NoCand THEN {} ELSE {<<c.id, c.to>>})

LabelsAgree(L, n) ==
    /\ \A l \in L :
        /\ l[1] \in MessageIds /\ l[2] \in Sessions
        /\ l[1][1] \in Sessions => l[2] = Parent[l[1][1]]
        /\ l[1][1] = NoSession => n < l[1][2]
    /\ \A k, l \in L : k[1] = l[1] => k[2] = l[2]

MailAgrees ==
    /\ \A i \in DOMAIN mail : mail[i].to \in born
    /\ LabelsAgree(Labels(mail, cand), left)

Inv ==
    /\ Types
    /\ \A s \in Sessions : ActAgrees(act[s], fin[s])
    /\ BornAgree
    /\ LanesAgree
    /\ DownAgrees
    /\ MailAgrees
    /\ NestedActivations
    /\ NoStrandedInput
    /\ CompletionsHaveRoom

-----------------------------------------------------------------------------
LEMMA TreeConstants ==
    /\ NoSession \notin Sessions /\ Existing \subseteq Sessions /\ IsFiniteSet(Existing)
    /\ MaxPending \in Nat /\ MaxRunning \in Nat /\ Budget \in Nat
    /\ \A s \in Sessions : HasParent(s) => Parent[s] \in Sessions
    /\ HumanTargets \subseteq Sessions
    /\ \A s \in Existing : HasParent(s) => Parent[s] \in Existing
  BY TreeAssumption DEF HasParent

(* A parent is an ancestor, and nobody is his own parent.                    *)
LEMMA ParentIsAncestor ==
    ASSUME NEW s \in Sessions, HasParent(s)
    PROVE  Parent[s] \in Ancestors[s] /\ Parent[s] # s
  <1>1. Parent[s] \in Sessions
    BY TreeConstants
  <1>2. \A S \in SUBSET Sessions : Holds(S, s) => Parent[s] \in S
    BY DEF Holds
  <1>3. Parent[s] \in Ancestors[s]
    BY <1>1, <1>2 DEF Ancestors
  <1> QED
    BY <1>3, LineageAssumption

(* Activations that stay what they are for other Sessions.                   *)
SameActivity(f, g) ==
    /\ g \in [Sessions -> ActRecord]
    /\ \A s \in Sessions : /\ g[s].no = f[s].no /\ g[s].held = f[s].held
                           /\ g[s].phase = "none" <=> f[s].phase = "none"

LEMMA ActivityKeepsNesting ==
    ASSUME NestedActivations, SameActivity(act, act')
    PROVE  NestedActivations'
  BY TreeConstants DEF NestedActivations, SameActivity, HasActive

LEMMA ActivityKeepsBirth ==
    ASSUME BornAgree, SameActivity(act, act'), born' = born
    PROVE  BornAgree'
  BY DEF BornAgree, SameActivity, HasActive

(* Room for completions.                                                     *)
LEMMA RoomTypes ==
    ASSUME Types, NEW s
    PROVE  /\ Cardinality(MailOf(s)) \in Nat /\ Reservations(s) \in Nat
           /\ IsFiniteSet({c \in born : Parent[c] = s /\ HasActive(c)})
           /\ MailOf(s) = Slots(mail, s)
  <1>1. MailOf(s) = Slots(mail, s)
    BY DEF MailOf, Slots
  <1>2. Cardinality(Slots(mail, s)) \in Nat
    BY SlotsFinite DEF Types
  <1> DEFINE C == {c \in born : Parent[c] = s /\ HasActive(c)}
  <1>3. C \in SUBSET born /\ IsFiniteSet(born)
    BY DEF Types
  <1>4. IsFiniteSet(C)
    BY <1>3, FS_Subset
  <1>5. Cardinality(C) \in Nat
    BY <1>4, FS_CardinalityType
  <1> QED
    BY <1>1, <1>2, <1>4, <1>5 DEF Reservations

LEMMA ActivityKeepsRoom ==
    ASSUME Types, Types', CompletionsHaveRoom, SameActivity(act, act'), born' = born,
           Fits(mail', mail)
    PROVE  CompletionsHaveRoom'
  <1> SUFFICES ASSUME NEW s \in Sessions
               PROVE  Cardinality(MailOf(s)') + Reservations(s)' <= MaxPending
    BY DEF CompletionsHaveRoom
  <1>1. Reservations(s)' = Reservations(s)
    <2>1. {c \in born' : Parent[c] = s /\ HasActive(c)'} = {c \in born : Parent[c] = s /\ HasActive(c)}
      BY DEF SameActivity, HasActive, Types
    <2> QED
      BY <2>1 DEF Reservations
  <1>2. Cardinality(MailOf(s)') \in Nat /\ MailOf(s)' = Slots(mail', s)
    <2>1. MailOf(s)' = Slots(mail', s)
      BY DEF MailOf, Slots
    <2>2. mail' \in Seq(MailRecord)
      BY DEF Types
    <2>3. Cardinality(Slots(mail', s)) \in Nat
      BY <2>2, SlotsFinite
    <2> QED
      BY <2>1, <2>3
  <1>3. Cardinality(MailOf(s)) \in Nat /\ Reservations(s) \in Nat /\ MailOf(s) = Slots(mail, s)
    BY RoomTypes
  <1>4. Cardinality(MailOf(s)') <= Cardinality(MailOf(s))
    BY <1>2, <1>3 DEF Fits
  <1>5. Cardinality(MailOf(s)) + Reservations(s) <= MaxPending
    BY DEF CompletionsHaveRoom
  <1> QED
    BY <1>1, <1>2, <1>3, <1>4, <1>5, TreeConstants

LEMMA FitsItself ==
    ASSUME NEW q \in Seq(MailRecord)
    PROVE  Fits(q, q)
  <1> SUFFICES ASSUME NEW x
               PROVE  Cardinality(Slots(q, x)) <= Cardinality(Slots(q, x))
    BY DEF Fits
  <1> HIDE DEF MailRecord
  <1>1. Cardinality(Slots(q, x)) \in Nat
    BY SlotsFinite
  <1> QED
    BY <1>1

-----------------------------------------------------------------------------
(* What the operations do to the queue.                                     *)

LEMMA LabelsShrink ==
    ASSUME NEW L, NEW M \in SUBSET L, NEW n \in Nat, NEW k \in Nat, k <= n,
           LabelsAgree(L, n)
    PROVE  LabelsAgree(M, k)
  <1>1. \A l \in M : l[1][1] = NoSession => k < l[1][2]
    <2> SUFFICES ASSUME NEW l \in M, l[1][1] = NoSession PROVE k < l[1][2]
      OBVIOUS
    <2>1. l[1] \in MessageIds /\ n < l[1][2]
      BY DEF LabelsAgree
    <2>2. l[1][2] \in Nat
      BY <2>1 DEF MessageIds
    <2> QED
      BY <2>1, <2>2
  <1> QED
    BY <1>1 DEF LabelsAgree

LEMMA LabelsAccept ==
    ASSUME NEW L, NEW n \in Nat, n > 0, NEW x \in Sessions,
           NEW M \in SUBSET (L \cup {<<<<NoSession, n>>, x>>}), LabelsAgree(L, n)
    PROVE  LabelsAgree(M, n - 1)
  <1> DEFINE new == <<<<NoSession, n>>, x>>
  <1>1. LabelsAgree(L, n - 1)
    BY LabelsShrink
  <1>2. new[1] \in MessageIds /\ new[2] = x /\ new[1][1] = NoSession /\ new[1][2] = n
    BY DEF MessageIds
  <1>3. \A l \in L : l[1] # new[1]
    <2> SUFFICES ASSUME NEW l \in L, l[1] = new[1] PROVE FALSE
      OBVIOUS
    <2>1. l[1][1] = NoSession /\ l[1][2] = n
      BY <1>2
    <2> QED
      BY <2>1 DEF LabelsAgree
  <1>4. n - 1 < n /\ NoSession \notin Sessions
    BY TreeConstants
  <1> HIDE DEF new
  <1>5. LabelsAgree(L \cup {new}, n - 1)
    BY <1>1, <1>2, <1>3, <1>4 DEF LabelsAgree
  <1>6. M \in SUBSET (L \cup {new})
    BY DEF new
  <1> QED
    BY <1>5, <1>6 DEF LabelsAgree

LEMMA LabelsNotice ==
    ASSUME NEW L, NEW n \in Nat, NEW s \in Sessions, HasParent(s), NEW k \in Nat,
           NEW M \in SUBSET (L \cup {<<<<s, k>>, Parent[s]>>}), LabelsAgree(L, n)
    PROVE  LabelsAgree(M, n)
  <1> DEFINE new == <<<<s, k>>, Parent[s]>>
  <1>1. /\ new[1] \in MessageIds /\ new[2] = Parent[s] /\ new[1][1] = s
        /\ Parent[s] \in Sessions /\ s # NoSession
    BY TreeConstants DEF MessageIds
  <1>2. \A l \in L : l[1] = new[1] => l[2] = Parent[s]
    BY <1>1 DEF LabelsAgree
  <1> HIDE DEF new
  <1>3. LabelsAgree(L \cup {new}, n)
    BY <1>1, <1>2 DEF LabelsAgree
  <1>4. M \in SUBSET (L \cup {new})
    BY DEF new
  <1> QED
    BY <1>3, <1>4 DEF LabelsAgree

(* Messages are taken out; or the Turn of s ends and what waited for its     *)
(* next Step is promoted.                                                    *)
Drawn(g, q) == \A n \in DOMAIN g : \E i \in DOMAIN q : g[n] = q[i]

Derived(g, q, s) ==
    \A n \in DOMAIN g : \E i \in DOMAIN q :
        /\ g[n].id = q[i].id /\ g[n].to = q[i].to
        /\ \/ g[n] = q[i] /\ ~IsNotice(q[i], s) /\ ~IsSteer(q[i], s)
           \/ g[n].target = "turn"

SameLabels(g, q) ==
    \A n \in DOMAIN g : \E i \in DOMAIN q : g[n].id = q[i].id /\ g[n].to = q[i].to

LEMMA LabelsDrawn ==
    ASSUME NEW g, NEW q, NEW c, SameLabels(g, q)
    PROVE  Labels(g, c) \subseteq Labels(q, c) /\ Labels(g, NoCand) \subseteq Labels(q, c)
  <1>1. {<<g[n].id, g[n].to>> : n \in DOMAIN g} \subseteq {<<q[i].id, q[i].to>> : i \in DOMAIN q}
    BY DEF SameLabels
  <1> QED
    BY <1>1 DEF Labels

LEMMA KeptShrinks ==
    ASSUME NEW q \in Seq(MailRecord), NEW K \in SUBSET DOMAIN q
    PROVE  /\ Kept(q, K) \in Seq(MailRecord) /\ Fits(Kept(q, K), q)
           /\ Drawn(Kept(q, K), q) /\ SameLabels(Kept(q, K), q)
  <1> HIDE DEF MailRecord
  <1> DEFINE g == Kept(q, K)
  <1>1. /\ g \in Seq(MailRecord) /\ Fits(g, q)
        /\ \A n \in DOMAIN g : Position(K, n) \in K /\ g[n] = q[Position(K, n)]
    BY KeptIs, KeptFits
  <1> HIDE DEF g
  <1>2. Drawn(g, q)
    BY <1>1 DEF Drawn
  <1>3. SameLabels(g, q)
    BY <1>2 DEF Drawn, SameLabels
  <1> QED
    BY <1>1, <1>2, <1>3 DEF g

LEMMA WithoutShrinks ==
    ASSUME Types, NEW ids
    PROVE  LET g == Without(ids) IN
           /\ g \in Seq(MailRecord) /\ Fits(g, mail) /\ Drawn(g, mail) /\ SameLabels(g, mail)
  <1> DEFINE K == {i \in DOMAIN mail : mail[i].id \notin ids}
  <1>1. K \in SUBSET DOMAIN mail /\ mail \in Seq(MailRecord)
    BY DEF Types
  <1>2. Without(ids) = Kept(mail, K)
    BY DEF Without
  <1> HIDE DEF K
  <1> QED
    BY <1>1, <1>2, KeptShrinks

LEMMA PromotedIs ==
    ASSUME Types, NEW s
    PROVE  LET g == Promoted(s) IN
           /\ g \in Seq(MailRecord) /\ Fits(g, mail) /\ Derived(g, mail, s)
           /\ SameLabels(g, mail)
  <1> DEFINE P(i) == IsNotice(mail[i], s) \/ IsSteer(mail[i], s)
             w == [i \in DOMAIN mail |-> IF P(i) THEN WakeUp(mail[i]) ELSE mail[i]]
             K == {i \in DOMAIN w : IsNotice(mail[i], s)}
             g == Kept(w, DOMAIN w \ K) \o Kept(w, K)
  <1>0. mail \in Seq(MailRecord) /\ Len(mail) \in Nat /\ DOMAIN mail = 1..Len(mail)
    BY DEF Types
  <1>a. \A i \in DOMAIN mail : mail[i] \in MailRecord
    BY <1>0
  <1>b. ASSUME NEW m \in MailRecord
        PROVE  /\ WakeUp(m) \in MailRecord /\ WakeUp(m).id = m.id /\ WakeUp(m).to = m.to
               /\ WakeUp(m).target = "turn"
    BY <1>b DEF WakeUp, MailRecord
  <1>1. DOMAIN w = DOMAIN mail
    OBVIOUS
  <1>2. \A i \in DOMAIN mail :
          /\ w[i] \in MailRecord /\ w[i].id = mail[i].id /\ w[i].to = mail[i].to
          /\ \/ w[i] = mail[i] /\ ~IsNotice(mail[i], s) /\ ~IsSteer(mail[i], s)
             \/ w[i].target = "turn"
    <2> SUFFICES ASSUME NEW i \in DOMAIN mail
                 PROVE  /\ w[i] \in MailRecord /\ w[i].id = mail[i].id /\ w[i].to = mail[i].to
                        /\ \/ w[i] = mail[i] /\ ~IsNotice(mail[i], s) /\ ~IsSteer(mail[i], s)
                           \/ w[i].target = "turn"
      OBVIOUS
    <2>1. mail[i] \in MailRecord
      BY <1>a
    <2>2. CASE P(i)
      <3>1. w[i] = WakeUp(mail[i])
        BY <2>2
      <3> HIDE DEF w
      <3> QED
        BY <1>b, <2>1, <3>1
    <2>3. CASE ~P(i)
      <3>1. w[i] = mail[i]
        BY <2>3
      <3> HIDE DEF w
      <3> QED
        BY <2>1, <2>3, <3>1
    <2> QED
      BY <2>2, <2>3
  <1>3. w = [i \in 1..Len(mail) |-> w[i]]
    BY <1>0
  <1>4. Promoted(s) = g
    BY DEF Promoted, Reordered
  <1>5. K \in SUBSET DOMAIN w
    OBVIOUS
  <1> HIDE DEF w, K
  <1>6. w \in Seq(MailRecord)
    <2>1. \A i \in 1..Len(mail) : w[i] \in MailRecord
      BY <1>0, <1>2
    <2> HIDE DEF MailRecord
    <2> QED
      BY <1>0, <1>3, <2>1
  <1>7. /\ g \in Seq(MailRecord) /\ Fits(g, w)
        /\ \A n \in DOMAIN g : \E i \in DOMAIN w : g[n] = w[i]
    <2> HIDE DEF MailRecord
    <2> QED
      BY <1>5, <1>6, SplitIs, ZenonT(60)
  <1> HIDE DEF g
  <1>8. Fits(w, mail)
    <2> DEFINE h == [i \in DOMAIN w |-> i]
    <2>1. /\ h \in [DOMAIN w -> DOMAIN mail]
          /\ \A m, n \in DOMAIN w : h[m] = h[n] => m = n
          /\ \A n \in DOMAIN w : w[n].to = mail[h[n]].to
      BY <1>1, <1>2
    <2> HIDE DEF h, MailRecord
    <2> QED
      BY <1>0, <2>1, EmbedFits
  <1>9. Fits(g, mail)
    <2> HIDE DEF MailRecord
    <2> QED
      BY <1>0, <1>6, <1>7, <1>8, FitsTransitive
  <1>10. Derived(g, mail, s)
    BY <1>1, <1>2, <1>7 DEF Derived
  <1>11. SameLabels(g, mail)
    BY <1>10 DEF Derived, SameLabels
  <1> QED
    BY <1>4, <1>7, <1>9, <1>10, <1>11

-----------------------------------------------------------------------------
(* Steps that start and settle nothing.                                     *)

LEMMA MailTyped ==
    ASSUME Types
    PROVE  \A i \in DOMAIN mail : mail[i] \in MailRecord /\ mail[i].to \in Sessions
  <1>1. \A i \in DOMAIN mail : mail[i] \in MailRecord
    <2>1. mail \in Seq(MailRecord)
      BY DEF Types
    <2> HIDE DEF MailRecord
    <2> QED
      BY <2>1
  <1> QED
    BY <1>1 DEF MailRecord

LEMMA StrandedDrawn ==
    ASSUME NoStrandedInput, Drawn(mail', mail),
           \A s \in Sessions : HasOpenTurn(s) => HasOpenTurn(s)', Types
    PROVE  NoStrandedInput'
  <1>1. \A i \in DOMAIN mail : mail[i].to \in Sessions
    BY MailTyped
  <1> QED
    BY <1>1 DEF NoStrandedInput, Drawn

LEMMA StrandedPromoted ==
    ASSUME NoStrandedInput, NEW s, Derived(mail', mail, s), Types,
           \A x \in Sessions \ {s} : HasOpenTurn(x) => HasOpenTurn(x)'
    PROVE  NoStrandedInput'
  <1>1. \A i \in DOMAIN mail : mail[i].to \in Sessions
    BY MailTyped
  <1> SUFFICES ASSUME NEW n \in DOMAIN mail', mail'[n].target = "step",
                      mail'[n].steer \/ mail'[n].src = "completion"
               PROVE  act'[mail'[n].to].phase \in {"running", "parked"}
    BY DEF NoStrandedInput, HasOpenTurn
  <1>2. PICK i \in DOMAIN mail : mail'[n] = mail[i] /\ ~IsNotice(mail[i], s) /\ ~IsSteer(mail[i], s)
    BY DEF Derived
  <1>3. mail[i].to # s
    BY <1>2 DEF IsNotice, IsSteer
  <1>4. HasOpenTurn(mail[i].to)
    BY <1>2 DEF NoStrandedInput
  <1>5. act'[mail[i].to].phase \in {"running", "parked"}
    BY <1>1, <1>3, <1>4 DEF HasOpenTurn
  <1> QED
    BY <1>2, <1>5

LEMMA CalmStep ==
    ASSUME Inv, Types', SameActivity(act, act'), born' = born, left' <= left,
           \A s \in Sessions : ActAgrees(act'[s], fin'[s]),
           LanesAgree', DownAgrees', NoStrandedInput',
           Fits(mail', mail), SameLabels(mail', mail),
           Labels(mail', cand') \subseteq Labels(mail, cand)
    PROVE  Inv'
  <1> USE DEF Inv
  <1>1. BornAgree'
    BY ActivityKeepsBirth
  <1>2. NestedActivations'
    BY ActivityKeepsNesting
  <1>3. CompletionsHaveRoom'
    BY ActivityKeepsRoom
  <1>4. LabelsAgree(Labels(mail', cand'), left')
    <2>1. left \in Nat /\ left' \in Nat
      BY TreeConstants DEF Types
    <2>2. LabelsAgree(Labels(mail, cand), left)
      BY DEF MailAgrees
    <2> QED
      BY <2>1, <2>2, LabelsShrink
  <1>5. MailAgrees'
    BY <1>4 DEF MailAgrees, SameLabels
  <1> QED
    BY <1>1, <1>2, <1>3, <1>5

(* Only the volatile state changes.                                          *)
LEMMA VolatileStep ==
    ASSUME Inv, Types', UNCHANGED <<born, act, mail, left>>,
           \A s \in Sessions : ActAgrees(act'[s], fin'[s]),
           LanesAgree', DownAgrees', Labels(mail', cand') \subseteq Labels(mail, cand)
    PROVE  Inv'
  <1> USE DEF Inv
  <1>1. SameActivity(act, act')
    BY DEF SameActivity, Types
  <1>2. NoStrandedInput'
    BY DEF NoStrandedInput, HasOpenTurn
  <1>3. Fits(mail', mail)
    BY FitsItself DEF Types
  <1>4. SameLabels(mail', mail)
    BY DEF SameLabels
  <1>5. left' <= left
    BY TreeConstants DEF Types
  <1> QED
    BY <1>1, <1>2, <1>3, <1>4, <1>5, CalmStep

(* Messages leave the queue.                                                 *)
LEMMA ShrinkStep ==
    ASSUME Inv, paused' \in [Sessions -> BOOLEAN],
           mail' \in Seq(MailRecord), Fits(mail', mail), Drawn(mail', mail),
           UNCHANGED <<born, act, volatile, mode, left>>
    PROVE  Inv'
  <1> USE DEF Inv
  <1>0. UNCHANGED <<born, act, lane, fin, cand, wake, round, settler, mode, left>>
    BY DEF volatile
  <1>1. SameActivity(act, act')
    BY <1>0 DEF SameActivity, Types
  <1>2. Types'
    BY <1>0 DEF Types
  <1>3. LanesAgree' /\ DownAgrees'
    BY <1>0 DEF LanesAgree, DownAgrees
  <1>4. NoStrandedInput'
    BY <1>0, StrandedDrawn DEF HasOpenTurn
  <1>5. SameLabels(mail', mail)
    BY DEF Drawn, SameLabels
  <1>6. left' <= left
    BY <1>0, TreeConstants DEF Types
  <1>7. Labels(mail', cand') \subseteq Labels(mail, cand)
    BY <1>0, <1>5, LabelsDrawn
  <1> QED
    BY <1>0, <1>1, <1>2, <1>3, <1>4, <1>5, <1>6, <1>7, CalmStep

(* The activation of s becomes a.                                            *)
Becomes(f, g, s, a) ==
    g \in [Sessions -> ActRecord] /\ g[s] = a /\ \A x \in Sessions \ {s} : g[x] = f[x]

LEMMA ActBecomes ==
    ASSUME NEW f \in [Sessions -> ActRecord], NEW s \in Sessions, NEW a \in ActRecord
    PROVE  Becomes(f, [f EXCEPT ![s] = a], s, a)
  BY DEF Becomes

SameActivation(a, b) ==
    b.no = a.no /\ b.held = a.held /\ (b.phase = "none" <=> a.phase = "none")

LEMMA BecomesSame ==
    ASSUME NEW f, NEW g, NEW s \in Sessions, NEW a, Becomes(f, g, s, a),
           SameActivation(f[s], a)
    PROVE  SameActivity(f, g)
  BY DEF Becomes, SameActivity, SameActivation

-----------------------------------------------------------------------------
(* A message is accepted.                                                   *)
LEMMA AcceptStep ==
    ASSUME Inv, NEW m \in MailRecord, m.id = <<NoSession, left>>, left > 0,
           left' = left - 1, mail' = Append(mail, m), HasRoom(m.to),
           paused' \in [Sessions -> BOOLEAN],
           born' = born \cup {m.to}, HasParent(m.to) => Parent[m.to] \in born,
           UNCHANGED <<act, volatile, mode>>,
           m.target = "step" /\ (m.steer \/ m.src = "completion") => HasOpenTurn(m.to)
    PROVE  Inv'
  <1> USE DEF Inv
  <1>0. /\ UNCHANGED <<act, lane, fin, cand, wake, round, settler, mode>>
        /\ m.to \in Sessions /\ left \in Nat
    BY TreeConstants DEF volatile, MailRecord, Types
  <1>1. /\ mail' \in Seq(MailRecord)
        /\ DOMAIN mail' = DOMAIN mail \cup {Len(mail) + 1}
        /\ mail'[Len(mail) + 1] = m /\ \A i \in DOMAIN mail : mail'[i] = mail[i]
    <2>1. mail \in Seq(MailRecord)
      BY DEF Types
    <2> HIDE DEF MailRecord
    <2> QED
      BY <2>1
  <1>2. IsFiniteSet(born')
    BY FS_AddElement DEF Types
  <1>3. Types'
    <2>1. left' \in 0..Budget
      BY <1>0, TreeConstants DEF Types
    <2> QED
      BY <1>0, <1>1, <1>2, <2>1 DEF Types
  <1>4. BornAgree'
    BY <1>0 DEF BornAgree, HasActive
  <1>5. LanesAgree' /\ DownAgrees'
    BY <1>0 DEF LanesAgree, DownAgrees
  <1>6. MailAgrees'
    <2>1. \A i \in DOMAIN mail' : mail'[i].to \in born'
      BY <1>1 DEF MailAgrees
    <2>2. Labels(mail', cand') \subseteq Labels(mail, cand) \cup {<<<<NoSession, left>>, m.to>>}
      BY <1>0, <1>1, SMTT(60) DEF Labels
    <2>3. LabelsAgree(Labels(mail, cand), left)
      BY DEF MailAgrees
    <2>4. LabelsAgree(Labels(mail', cand'), left - 1)
      BY <1>0, <2>2, <2>3, LabelsAccept
    <2> QED
      BY <2>1, <2>4 DEF MailAgrees
  <1>7. NestedActivations'
    BY <1>0 DEF NestedActivations, HasActive
  <1>8. NoStrandedInput'
    BY <1>0, <1>1 DEF NoStrandedInput, HasOpenTurn
  <1>9. CompletionsHaveRoom'
    <2> SUFFICES ASSUME NEW s \in Sessions
                 PROVE  Cardinality(MailOf(s)') + Reservations(s)' <= MaxPending
      BY DEF CompletionsHaveRoom
    <2>1. Reservations(s)' = Reservations(s)
      <3>1. {c \in born' : Parent[c] = s /\ HasActive(c)'} = {c \in born : Parent[c] = s /\ HasActive(c)}
        BY <1>0 DEF HasActive, BornAgree
      <3> QED
        BY <3>1 DEF Reservations
    <2>2. /\ Cardinality(MailOf(s)) \in Nat /\ Reservations(s) \in Nat
          /\ MailOf(s) = Slots(mail, s)
      BY RoomTypes
    <2>3. MailOf(s)' = Slots(mail', s)
      BY DEF MailOf, Slots
    <2>4. Cardinality(Slots(mail', s)) = Cardinality(Slots(mail, s)) + (IF m.to = s THEN 1 ELSE 0)
      <3>1. mail \in Seq(MailRecord)
        BY DEF Types
      <3> HIDE DEF MailRecord
      <3> QED
        BY <3>1, AppendSlots
    <2>5. Cardinality(MailOf(s)) + Reservations(s) <= MaxPending
      BY DEF CompletionsHaveRoom
    <2>6. m.to = s => Cardinality(MailOf(s)) + Reservations(s) < MaxPending
      BY DEF HasRoom
    <2> QED
      BY <2>1, <2>2, <2>3, <2>4, <2>5, <2>6, TreeConstants
  <1> QED
    BY <1>0, <1>3, <1>4, <1>5, <1>6, <1>7, <1>8, <1>9

(* A queued message becomes a steer of the open Turn, in its place.          *)
LEMMA ConvertStep ==
    ASSUME Inv, NEW i \in DOMAIN mail, ConvertToSteer(i)
    PROVE  Inv'
  <1> USE DEF Inv
  <1> DEFINE s == mail[i].to
             m == Message(s, "human", "step", TRUE)
  <1>0. /\ UNCHANGED <<born, act, paused, lane, fin, cand, wake, round, settler, mode>>
        /\ s \in Sessions /\ left \in Nat /\ left > 0 /\ left' = left - 1
        /\ HasOpenTurn(s) /\ mail' = [mail EXCEPT ![i] = m]
    BY TreeConstants, MailTyped DEF volatile, ConvertToSteer, Types
  <1>1. m \in MailRecord /\ m.id = <<NoSession, left>> /\ m.to = s
    <2> HIDE DEF s
    <2> QED
      BY <1>0 DEF Message, MailRecord, MessageIds
  <1> HIDE DEF m
  <1>2. /\ mail' \in Seq(MailRecord) /\ DOMAIN mail' = DOMAIN mail /\ mail'[i] = m
        /\ \A j \in DOMAIN mail \ {i} : mail'[j] = mail[j]
    <2>1. mail \in Seq(MailRecord)
      BY DEF Types
    <2> HIDE DEF MailRecord
    <2> QED
      BY <1>0, <1>1, <2>1
  <1>3. Types'
    <2>1. left' \in 0..Budget
      BY <1>0, TreeConstants DEF Types
    <2> QED
      BY <1>0, <1>2, <2>1 DEF Types
  <1>4. BornAgree'
    BY <1>0 DEF BornAgree, HasActive
  <1>5. LanesAgree' /\ DownAgrees'
    BY <1>0 DEF LanesAgree, DownAgrees
  <1>6. MailAgrees'
    <2>1. \A j \in DOMAIN mail' : mail'[j].to \in born'
      BY <1>0, <1>1, <1>2 DEF MailAgrees
    <2>2. Labels(mail', cand') \subseteq Labels(mail, cand) \cup {<<<<NoSession, left>>, s>>}
      BY <1>0, <1>1, <1>2 DEF Labels
    <2>3. LabelsAgree(Labels(mail, cand), left)
      BY DEF MailAgrees
    <2> HIDE DEF s
    <2>4. LabelsAgree(Labels(mail', cand'), left - 1)
      BY <1>0, <2>2, <2>3, LabelsAccept
    <2> QED
      BY <1>0, <2>1, <2>4 DEF MailAgrees
  <1>7. NestedActivations'
    BY <1>0 DEF NestedActivations, HasActive
  <1>8. NoStrandedInput'
    BY <1>0, <1>1, <1>2 DEF NoStrandedInput, HasOpenTurn
  <1>9. CompletionsHaveRoom'
    <2>1. SameActivity(act, act')
      BY <1>0 DEF SameActivity, Types
    <2>2. Fits(mail', mail)
      <3> DEFINE h == [j \in DOMAIN mail' |-> j]
      <3>1. /\ h \in [DOMAIN mail' -> DOMAIN mail]
            /\ \A k, n \in DOMAIN mail' : h[k] = h[n] => k = n
            /\ \A n \in DOMAIN mail' : mail'[n].to = mail[h[n]].to
        BY <1>1, <1>2
      <3>2. mail \in Seq(MailRecord)
        BY DEF Types
      <3> HIDE DEF h, MailRecord
      <3> QED
        BY <3>1, <3>2, EmbedFits
    <2> QED
      BY <1>0, <1>3, <2>1, <2>2, ActivityKeepsRoom
  <1> QED
    BY <1>0, <1>3, <1>4, <1>5, <1>6, <1>7, <1>8, <1>9

-----------------------------------------------------------------------------
(* An activation starts.                                                    *)
LEMMA ClaimStep ==
    ASSUME Inv, ClaimMessage, mode = "up", cand # NoCand,
           NEW i \in DOMAIN mail, mail[i].id = cand.id, ClaimAllowed(mail[i])
    PROVE  Inv' /\ mail[i].to = cand.to /\ act'[cand.to].no = act[cand.to].no + 1
             /\ \A x \in Sessions \ {cand.to} : act'[x] = act[x]
  <1> USE DEF Inv
  <1> DEFINE s == cand.to
             p == Parent[s]
             a == [phase |-> "running", no |-> act[s].no + 1,
                   held |-> IF HasParent(s) /\ HasActive(Parent[s])
                            THEN act[Parent[s]].no ELSE 0,
                   outcome |-> "none", cancel |-> FALSE]
  <1>1. mail[i].to = s /\ s \in Sessions
    <2>1. <<mail[i].id, mail[i].to>> \in Labels(mail, cand) /\ <<cand.id, cand.to>> \in Labels(mail, cand)
      BY DEF Labels
    <2>2. LabelsAgree(Labels(mail, cand), left)
      BY DEF MailAgrees
    <2>3. mail[i].to = cand.to
      BY <2>1, <2>2 DEF LabelsAgree
    <2> QED
      BY <2>3, MailTyped
  <1>2. /\ act' = [act EXCEPT ![s] = a] /\ mail' = Without({cand.id})
        /\ lane' = lane \cup {s} /\ cand' = NoCand
        /\ UNCHANGED <<born, paused, fin, wake, round, settler, mode, left>>
    BY DEF ClaimMessage
  <1>3. ~HasActive(s) /\ (HasParent(s) => HasRoom(p)) /\ s \in born
    BY <1>1 DEF ClaimAllowed, ParentAllows, MailAgrees
  <1>4. HasParent(s) => p \in Sessions /\ p # s
    BY <1>1, TreeConstants, ParentIsAncestor
  <1>5. a \in ActRecord
    <2>1. act[s].no + 1 \in Nat
      BY <1>1 DEF Types, ActRecord
    <2>2. a.held \in Nat
      BY <1>4 DEF Types, ActRecord
    <2> QED
      BY <2>1, <2>2 DEF ActRecord, Phases, Outcomes
  <1>6. Becomes(act, act', s, a)
    <2>1. act \in [Sessions -> ActRecord]
      BY DEF Types
    <2> HIDE DEF a, s
    <2> QED
      BY <1>1, <1>2, <1>5, <2>1, ActBecomes
  <1>7. /\ a.phase = "running" /\ a.no = act[s].no + 1 /\ a.outcome = "none" /\ a.cancel = FALSE
        /\ a.held # 0 => HasParent(s) /\ HasActive(p) /\ a.held = act[p].no
    OBVIOUS
  <1> HIDE DEF a, s, p
  <1>8. /\ mail' \in Seq(MailRecord) /\ Fits(mail', mail) /\ Drawn(mail', mail)
        /\ SameLabels(mail', mail)
    BY <1>2, WithoutShrinks
  <1>9. IsFiniteSet(lane') /\ lane' \subseteq Sessions /\ Cardinality(lane') <= Cardinality(lane) + 1
    <2>1. IsFiniteSet(lane) /\ lane \subseteq Sessions /\ Cardinality(lane) \in Nat
      BY FS_CardinalityType DEF Types
    <2>2. IsFiniteSet(lane')
      BY <1>2, <2>1, FS_AddElement
    <2>3. CASE s \in lane
      <3>1. lane' = lane
        BY <1>2, <2>3
      <3> QED
        BY <1>1, <2>1, <3>1
    <2>4. CASE s \notin lane
      <3>1. Cardinality(lane') = Cardinality(lane) + 1
        BY <1>2, <2>1, <2>4, FS_AddElement
      <3> QED
        BY <1>1, <1>2, <2>1, <2>2, <3>1
    <2> QED
      BY <2>3, <2>4
  <1>10. Types'
    <2>1. NoCand \in [id : MessageIds, to : Roots]
      BY DEF NoCand, MessageIds, Roots
    <2>2. act' \in [Sessions -> ActRecord]
      BY <1>6 DEF Becomes
    <2> QED
      BY <1>2, <1>8, <1>9, <2>1, <2>2 DEF Types
  <1>11. \A x \in Sessions : ActAgrees(act'[x], fin'[x])
    <2>1. ActAgrees(a, fin[s])
      BY <1>1, <1>7 DEF ActAgrees, Outcomes
    <2> QED
      BY <1>2, <1>6, <2>1 DEF Becomes
  <1>12. BornAgree'
    BY <1>2, <1>3, <1>6 DEF BornAgree, Becomes, HasActive
  <1>13. LanesAgree'
    <2>1. \A x \in lane' : act'[x].phase = "running"
      BY <1>2, <1>6, <1>7 DEF LanesAgree, Becomes, Types
    <2>2. Cardinality(lane) + 1 <= MaxRunning
      BY DEF LanesAgree
    <2>3. Cardinality(lane') \in Nat /\ Cardinality(lane) \in Nat
      BY <1>9, FS_CardinalityType DEF Types
    <2>4. Cardinality(lane') + 0 <= MaxRunning
      BY <1>9, <2>2, <2>3, TreeConstants
    <2> QED
      BY <1>2, <2>1, <2>4 DEF LanesAgree
  <1>14. DownAgrees'
    BY <1>2 DEF DownAgrees
  <1>15. MailAgrees'
    <2>1. \A j \in DOMAIN mail' : mail'[j].to \in born'
      BY <1>2, <1>8 DEF MailAgrees, Drawn
    <2>2. Labels(mail', cand') \subseteq Labels(mail, cand)
      BY <1>2, <1>8, LabelsDrawn
    <2>3. LabelsAgree(Labels(mail, cand), left) /\ left \in Nat
      BY TreeConstants DEF MailAgrees, Types
    <2>4. LabelsAgree(Labels(mail', cand'), left)
      BY <2>2, <2>3, LabelsShrink
    <2> QED
      BY <1>2, <2>1, <2>4 DEF MailAgrees
  <1>16. NestedActivations'
    <2> SUFFICES ASSUME NEW c \in Sessions, HasParent(c), act'[c].held # 0
                 PROVE  act'[Parent[c]].phase # "none" /\ act'[Parent[c]].no = act'[c].held
      BY DEF NestedActivations, HasActive
    <2>1. CASE c = s
      <3>1. act'[c] = a /\ Parent[c] = p
        BY <1>6, <2>1 DEF Becomes, p
      <3>2. HasActive(p) /\ a.held = act[p].no /\ p \in Sessions /\ p # s
        BY <1>4, <1>7, <3>1
      <3>3. act'[p] = act[p]
        BY <1>6, <3>2 DEF Becomes
      <3> QED
        BY <3>1, <3>2, <3>3 DEF HasActive
    <2>2. CASE c # s
      <3>1. act'[c] = act[c] /\ Parent[c] \in Sessions
        BY <1>6, <2>2, TreeConstants DEF Becomes
      <3>2. HasActive(Parent[c]) /\ act[Parent[c]].no = act[c].held
        BY <3>1 DEF NestedActivations
      <3>3. act'[Parent[c]] = act[Parent[c]]
        BY <1>3, <1>6, <3>1, <3>2 DEF Becomes
      <3> QED
        BY <3>1, <3>2, <3>3 DEF HasActive
    <2> QED
      BY <2>1, <2>2
  <1>17. NoStrandedInput'
    <2>1. \A x \in Sessions : HasOpenTurn(x) => HasOpenTurn(x)'
      BY <1>3, <1>6 DEF Becomes, HasOpenTurn, HasActive
    <2> QED
      BY <1>8, <2>1, StrandedDrawn
  <1>18. CompletionsHaveRoom'
    <2> SUFFICES ASSUME NEW x \in Sessions
                 PROVE  Cardinality(MailOf(x)') + Reservations(x)' <= MaxPending
      BY DEF CompletionsHaveRoom
    <2> DEFINE C == {c \in born : Parent[c] = x /\ HasActive(c)}
               D == {c \in born' : Parent[c] = x /\ HasActive(c)'}
    <2>1. /\ Cardinality(MailOf(x)) \in Nat /\ Reservations(x) \in Nat
          /\ MailOf(x) = Slots(mail, x) /\ IsFiniteSet(C)
      BY RoomTypes
    <2>2. MailOf(x)' = Slots(mail', x)
      BY DEF MailOf, Slots
    <2>3. Cardinality(Slots(mail', x)) \in Nat
      BY <1>8, SlotsFinite
    <2>4. Cardinality(Slots(mail', x)) <= Cardinality(Slots(mail, x))
      BY <1>8 DEF Fits
    <2>5. Reservations(x) = Cardinality(C) /\ Reservations(x)' = Cardinality(D)
      BY DEF Reservations
    <2>6. Cardinality(MailOf(x)) + Reservations(x) <= MaxPending
      BY DEF CompletionsHaveRoom
    <2>7. CASE Parent[s] = x
      <3>1. D = C \cup {s} /\ s \notin C
        BY <1>1, <1>2, <1>3, <1>6, <1>7, <2>7 DEF Becomes, HasActive, Types
      <3>2. HasParent(s) /\ p = x
        BY <2>7, TreeConstants DEF HasParent, p
      <3>3. Cardinality(MailOf(x)) + Reservations(x) < MaxPending
        BY <1>3, <3>2 DEF HasRoom
      <3> HIDE DEF C, D
      <3>4. Cardinality(D) = Cardinality(C) + 1
        BY <2>1, <3>1, FS_AddElement
      <3> QED
        BY <2>1, <2>2, <2>3, <2>4, <2>5, <3>3, <3>4, TreeConstants
    <2>8. CASE Parent[s] # x
      <3>1. D = C
        BY <1>1, <1>2, <1>6, <2>8 DEF Becomes, HasActive, Types
      <3> HIDE DEF C, D
      <3> QED
        BY <2>1, <2>2, <2>3, <2>4, <2>5, <2>6, <3>1, TreeConstants
    <2> QED
      BY <2>7, <2>8
  <1>19. act'[s].no = act[s].no + 1 /\ \A x \in Sessions \ {s} : act'[x] = act[x]
    BY <1>6, <1>7 DEF Becomes
  <1>20. Inv'
    BY <1>2, <1>10, <1>11, <1>12, <1>13, <1>14, <1>15, <1>16, <1>17, <1>18
  <1> QED
    BY <1>1, <1>19, <1>20 DEF s

-----------------------------------------------------------------------------
(* An activation is settled: nothing that was admitted under it lives.       *)
LEMMA SettleStep ==
    ASSUME Inv, NEW s \in Sessions, NEW o, Settle(s, o), HasActive(s), Quiescent(s),
           fin'[s].pc = "none", \A x \in Sessions \ {s} : fin'[x] = fin[x],
           fin' \in [Sessions -> FinRecord],
           lane' \subseteq lane, s \notin lane', round' \subseteq Sessions,
           settler' \in [session : Roots, no : Nat],
           mode # "up" => fin' = fin,
           UNCHANGED <<born, cand, mode, left>>
    PROVE  Inv'
  <1> USE DEF Inv
  <1> DEFINE p == Parent[s]
             a == [phase |-> "none", no |-> act[s].no, held |-> 0,
                   outcome |-> "none", cancel |-> FALSE]
             g == Promoted(s)
             m == Notice(s)
  <1>1. HasParent(s) => p \in Sessions /\ p # s /\ p \in born
    BY TreeConstants, ParentIsAncestor DEF BornAgree
  <1>2. act' = [act EXCEPT ![s] = a] /\ a \in ActRecord
    BY DEF Settle, Types, ActRecord, Phases
  <1>3. Becomes(act, act', s, a) /\ a.phase = "none" /\ a.held = 0 /\ a.no = act[s].no
    <2>1. act \in [Sessions -> ActRecord] /\ a.phase = "none" /\ a.held = 0 /\ a.no = act[s].no
      BY DEF Types
    <2>2. ActAgrees(a, fin'[s])
      BY DEF ActAgrees, Outcomes
    <2> HIDE DEF a
    <2> QED
      BY <1>2, <2>1, ActBecomes
  <1>4. ActAgrees(a, fin'[s])
    BY DEF ActAgrees, Outcomes
  <1>5. /\ g \in Seq(MailRecord) /\ Fits(g, mail) /\ Derived(g, mail, s) /\ SameLabels(g, mail)
    BY PromotedIs
  <1>6. HasParent(s) => /\ m \in MailRecord /\ m.id = <<s, act[s].no>> /\ m.to = p
                        /\ m.target = "step" => HasOpenTurn(p)
    <2> SUFFICES ASSUME HasParent(s)
                 PROVE  /\ m \in MailRecord /\ m.id = <<s, act[s].no>> /\ m.to = p
                        /\ m.target = "step" => HasOpenTurn(p)
      OBVIOUS
    <2> DEFINE t == IF HasOpenTurn(p) THEN "step" ELSE "turn"
    <2>1. act[s].no \in Nat
      BY DEF Types, ActRecord
    <2>2. m = [id |-> <<s, act[s].no>>, to |-> p, src |-> "completion", target |-> t,
               steer |-> FALSE]
      BY DEF Notice
    <2>3. t \in {"step", "turn"} /\ (t = "step" => HasOpenTurn(p))
      OBVIOUS
    <2> HIDE DEF t, m, p
    <2> QED
      BY <1>1, <2>1, <2>2, <2>3 DEF MailRecord, MessageIds
  <1>7. \/ mail' = g /\ paused' = paused
        \/ HasParent(s) /\ mail' = Append(g, m) /\ paused' \in [Sessions -> BOOLEAN]
    <2>1. CASE HasParent(s) /\ ~Stopped(s, o)
      <3> DEFINE b == paused[p] /\ HasOpenTurn(p)
      <3>1. mail' = Append(g, m) /\ paused' = [paused EXCEPT ![p] = b]
        BY <2>1 DEF Settle
      <3>2. b \in BOOLEAN
        OBVIOUS
      <3> HIDE DEF b
      <3>3. paused' \in [Sessions -> BOOLEAN]
        BY <1>1, <2>1, <3>1, <3>2 DEF Types
      <3> QED
        BY <2>1, <3>1, <3>3
    <2>2. CASE ~(HasParent(s) /\ ~Stopped(s, o))
      BY <2>2 DEF Settle
    <2> QED
      BY <2>1, <2>2
  <1> HIDE DEF a, g, m, p
  <1>8. HasParent(s) => /\ Append(g, m) \in Seq(MailRecord)
                        /\ DOMAIN Append(g, m) = DOMAIN g \cup {Len(g) + 1}
                        /\ Append(g, m)[Len(g) + 1] = m
                        /\ \A n \in DOMAIN g : Append(g, m)[n] = g[n]
    <2> HIDE DEF MailRecord
    <2> QED
      BY <1>5, <1>6
  <1>9. mail' \in Seq(MailRecord) /\ act' \in [Sessions -> ActRecord]
    BY <1>3, <1>5, <1>7, <1>8 DEF Becomes
  <1>10. Types'
    <2>1. IsFiniteSet(lane') /\ lane' \subseteq Sessions
      BY FS_Subset DEF Types
    <2>2. paused' \in [Sessions -> BOOLEAN]
      BY <1>7 DEF Types
    <2> QED
      BY <1>9, <2>1, <2>2 DEF Types
  <1>11. \A x \in Sessions : ActAgrees(act'[x], fin'[x])
    BY <1>3, <1>4 DEF Becomes
  <1>12. BornAgree'
    BY <1>3 DEF BornAgree, Becomes, HasActive
  <1>13. LanesAgree'
    <2>1. \A x \in lane' : act'[x].phase = "running"
      BY <1>3 DEF LanesAgree, Becomes, Types
    <2>2. IsFiniteSet(lane)
      BY DEF Types
    <2>3. IsFiniteSet(lane') /\ Cardinality(lane') <= Cardinality(lane)
      BY <2>2, FS_Subset
    <2>4. Cardinality(lane') \in Nat /\ Cardinality(lane) \in Nat
      BY <2>2, <2>3, FS_CardinalityType
    <2> QED
      BY <2>1, <2>3, <2>4, TreeConstants DEF LanesAgree
  <1>14. DownAgrees'
    BY DEF DownAgrees
  <1>15. MailAgrees'
    <2>1. \A n \in DOMAIN mail' : mail'[n].to \in born'
      BY <1>1, <1>5, <1>6, <1>7, <1>8, SMTT(60) DEF MailAgrees, SameLabels
    <2>2. LabelsAgree(Labels(mail, cand), left) /\ left \in Nat /\ act[s].no \in Nat
      BY TreeConstants DEF MailAgrees, Types, ActRecord
    <2>3. Labels(g, cand) \subseteq Labels(mail, cand)
      BY <1>5, LabelsDrawn
    <2>4. CASE mail' = g
      BY <2>1, <2>2, <2>3, <2>4, LabelsShrink DEF MailAgrees
    <2>5. CASE HasParent(s) /\ mail' = Append(g, m)
      <3>1. Labels(mail', cand) \subseteq Labels(g, cand) \cup {<<<<s, act[s].no>>, Parent[s]>>}
        BY <1>6, <1>8, <2>5, SMTT(60) DEF Labels, p
      <3>2. Labels(mail', cand) \subseteq Labels(mail, cand) \cup {<<<<s, act[s].no>>, Parent[s]>>}
        BY <2>3, <3>1
      <3>3. LabelsAgree(Labels(mail', cand), left)
        BY <2>2, <2>5, <3>2, LabelsNotice
      <3> QED
        BY <2>1, <3>3 DEF MailAgrees
    <2> QED
      BY <1>7, <2>4, <2>5
  <1>16. NestedActivations'
    <2> SUFFICES ASSUME NEW c \in Sessions, HasParent(c), act'[c].held # 0
                 PROVE  act'[Parent[c]].phase # "none" /\ act'[Parent[c]].no = act'[c].held
      BY DEF NestedActivations, HasActive
    <2>1. c # s /\ act'[c] = act[c] /\ Parent[c] \in Sessions
      BY <1>3, TreeConstants DEF Becomes
    <2>2. HasActive(Parent[c]) /\ act[Parent[c]].no = act[c].held
      BY <2>1 DEF NestedActivations
    <2>3. HasActive(c) /\ c \in born
      BY <2>1 DEF ActAgrees, HasActive, BornAgree
    <2>4. Parent[c] # s
      BY <2>3, ParentIsAncestor DEF Quiescent, Descendants
    <2>5. act'[Parent[c]] = act[Parent[c]]
      BY <1>3, <2>1, <2>4 DEF Becomes
    <2> QED
      BY <2>1, <2>2, <2>5 DEF HasActive
  <1>17. NoStrandedInput'
    <2>1. \A x \in Sessions \ {s} : act'[x] = act[x]
      BY <1>3 DEF Becomes
    <2> SUFFICES ASSUME NEW n \in DOMAIN mail', mail'[n].target = "step",
                        mail'[n].steer \/ mail'[n].src = "completion"
                 PROVE  act'[mail'[n].to].phase \in {"running", "parked"}
      BY DEF NoStrandedInput, HasOpenTurn
    <2>2. CASE n \in DOMAIN g /\ mail'[n] = g[n]
      <3>1. PICK i \in DOMAIN mail : g[n] = mail[i] /\ ~IsNotice(mail[i], s) /\ ~IsSteer(mail[i], s)
        BY <1>5, <2>2 DEF Derived
      <3>2. mail[i].to # s /\ mail[i].to \in Sessions
        BY <2>2, <3>1, MailTyped DEF IsNotice, IsSteer
      <3>3. HasOpenTurn(mail[i].to)
        BY <2>2, <3>1 DEF NoStrandedInput
      <3> QED
        BY <2>1, <2>2, <3>1, <3>2, <3>3 DEF HasOpenTurn
    <2>3. CASE HasParent(s) /\ mail'[n] = m
      BY <1>1, <1>6, <2>1, <2>3 DEF HasOpenTurn
    <2> QED
      BY <1>7, <1>8, <2>2, <2>3
  <1>18. CompletionsHaveRoom'
    <2> SUFFICES ASSUME NEW x \in Sessions
                 PROVE  Cardinality(MailOf(x)') + Reservations(x)' <= MaxPending
      BY DEF CompletionsHaveRoom
    <2> DEFINE C == {c \in born : Parent[c] = x /\ HasActive(c)}
               D == {c \in born' : Parent[c] = x /\ HasActive(c)'}
    <2>1. /\ Cardinality(MailOf(x)) \in Nat /\ Reservations(x) \in Nat
          /\ MailOf(x) = Slots(mail, x) /\ IsFiniteSet(C)
      BY RoomTypes
    <2>2. MailOf(x)' = Slots(mail', x)
      BY DEF MailOf, Slots
    <2>3. Cardinality(Slots(mail', x)) \in Nat /\ Cardinality(Slots(g, x)) \in Nat
      BY <1>5, <1>9, SlotsFinite
    <2>4. Cardinality(Slots(g, x)) <= Cardinality(Slots(mail, x))
      BY <1>5 DEF Fits
    <2>5. Reservations(x) = Cardinality(C) /\ Reservations(x)' = Cardinality(D)
      BY DEF Reservations
    <2>6. Cardinality(MailOf(x)) + Reservations(x) <= MaxPending
      BY DEF CompletionsHaveRoom
    <2>7. CASE Parent[s] = x
      <3>1. D = C \ {s} /\ s \in C
        BY <1>3, <2>7 DEF Becomes, HasActive, Types, BornAgree
      <3>2. Cardinality(Slots(mail', x)) <= Cardinality(Slots(g, x)) + 1
        <4>1. CASE mail' = g
          BY <2>3, <4>1
        <4>2. CASE HasParent(s) /\ mail' = Append(g, m)
          <5>1. Cardinality(Slots(mail', x)) = Cardinality(Slots(g, x)) + (IF m.to = x THEN 1 ELSE 0)
            BY <1>5, <1>6, <4>2, AppendSlots
          <5> QED
            BY <2>3, <5>1
        <4> QED
          BY <1>7, <4>1, <4>2
      <3> HIDE DEF C, D
      <3>3. Cardinality(D) = Cardinality(C) - 1 /\ Cardinality(C) \in Nat
        BY <2>1, <3>1, FS_RemoveElement, FS_CardinalityType
      <3>4. Cardinality(D) \in Nat
        <4>1. IsFiniteSet(D)
          BY <2>1, <3>1, FS_RemoveElement
        <4> QED
          BY <4>1, FS_CardinalityType
      <3> QED
        BY <2>1, <2>2, <2>3, <2>4, <2>5, <2>6, <3>2, <3>3, <3>4, TreeConstants
    <2>8. CASE Parent[s] # x
      <3>1. D = C
        BY <1>3, <2>8 DEF Becomes, HasActive, Types
      <3>2. Cardinality(Slots(mail', x)) = Cardinality(Slots(g, x))
        <4>1. CASE mail' = g
          BY <4>1
        <4>2. CASE HasParent(s) /\ mail' = Append(g, m)
          <5>1. Cardinality(Slots(mail', x)) = Cardinality(Slots(g, x)) + (IF m.to = x THEN 1 ELSE 0)
            BY <1>5, <1>6, <4>2, AppendSlots
          <5> QED
            BY <1>6, <2>3, <2>8, <4>2, <5>1 DEF p
        <4> QED
          BY <1>7, <4>1, <4>2
      <3> HIDE DEF C, D
      <3> QED
        BY <2>1, <2>2, <2>3, <2>4, <2>5, <2>6, <3>1, <3>2, TreeConstants
    <2> QED
      BY <2>7, <2>8
  <1> QED
    BY <1>10, <1>11, <1>12, <1>13, <1>14, <1>15, <1>16, <1>17, <1>18

-----------------------------------------------------------------------------
(* Acceptance of messages.                                                  *)

LEMMA MessageIs ==
    ASSUME Inv, NEW s \in Sessions, NEW src \in {"human", "agent"},
           NEW target \in {"step", "turn"}, NEW steer \in BOOLEAN
    PROVE  LET m == Message(s, src, target, steer) IN
           /\ m \in MailRecord /\ m.id = <<NoSession, left>> /\ m.to = s
           /\ m.target = target /\ m.steer = steer /\ m.src = src
  <1>1. left \in Nat
    BY TreeConstants DEF Inv, Types
  <1> QED
    BY <1>1 DEF Message, MailRecord, MessageIds

LEMMA AcceptedStep ==
    ASSUME Inv, NEW m \in MailRecord, NEW waking \in BOOLEAN, Accept(m, waking),
           m.id = <<NoSession, left>>,
           born' = born \cup {m.to}, HasParent(m.to) => Parent[m.to] \in born,
           UNCHANGED <<act, volatile, mode>>,
           m.target = "step" /\ (m.steer \/ m.src = "completion") => HasOpenTurn(m.to)
    PROVE  Inv' /\ act' = act
  <1> DEFINE b == paused[m.to] /\ ~waking
  <1>1. /\ left > 0 /\ left' = left - 1 /\ mail' = Append(mail, m) /\ HasRoom(m.to)
        /\ paused' = [paused EXCEPT ![m.to] = b]
    BY DEF Accept
  <1>2. b \in BOOLEAN
    OBVIOUS
  <1> HIDE DEF b
  <1>3. paused' \in [Sessions -> BOOLEAN]
    BY <1>1, <1>2 DEF Inv, Types
  <1> QED
    BY <1>1, <1>3, AcceptStep

LEMMA SubmitHumanStep ==
    ASSUME Inv, NEW s \in Sessions, NEW delivery, SubmitHuman(s, delivery)
    PROVE  Inv' /\ act' = act
  <1> DEFINE bound == delivery = "steer" /\ HasOpenTurn(s) /\ ~act[s].cancel
             t == IF bound THEN "step" ELSE "turn"
             m == Message(s, "human", t, bound)
  <1>1. /\ s \in born \/ ~HasParent(s)
        /\ Accept(m, TRUE) /\ born' = born \cup {s} /\ UNCHANGED <<act, volatile, mode>>
    BY DEF SubmitHuman
  <1>2. bound \in BOOLEAN /\ t \in {"step", "turn"} /\ (t = "step" => HasOpenTurn(s))
    OBVIOUS
  <1> HIDE DEF bound, t
  <1>3. m \in MailRecord /\ m.id = <<NoSession, left>> /\ m.to = s /\ m.target = t
    BY <1>2, MessageIs
  <1>4. HasParent(s) => Parent[s] \in born
    BY <1>1 DEF Inv, BornAgree
  <1> HIDE DEF m
  <1> QED
    BY <1>1, <1>2, <1>3, <1>4, AcceptedStep

LEMMA SpawnAgentStep ==
    ASSUME Inv, NEW p \in Sessions, NEW c \in Sessions, SpawnAgent(p, c)
    PROVE  Inv' /\ act' = act
  <1> DEFINE m == Message(c, "agent", "turn", FALSE)
  <1>1. /\ Accept(m, TRUE) /\ born' = born \cup {c} /\ UNCHANGED <<act, volatile, mode>>
        /\ Parent[c] = p /\ HasActive(p)
    BY DEF SpawnAgent, Calling, HasActive
  <1>2. m \in MailRecord /\ m.id = <<NoSession, left>> /\ m.to = c /\ m.target = "turn"
    BY MessageIs
  <1>3. p \in born
    BY <1>1 DEF Inv, BornAgree
  <1> HIDE DEF m
  <1> QED
    BY <1>1, <1>2, <1>3, AcceptedStep

LEMMA SendAgentMessageStep ==
    ASSUME Inv, NEW a \in Sessions, NEW b \in Sessions, NEW t \in {"turn", "step"},
           SendAgentMessage(a, b, t)
    PROVE  Inv' /\ act' = act
  <1> DEFINE m == Message(b, "agent", t, FALSE)
             w == t = "turn"
  <1>1. /\ Accept(m, w) /\ born' = born /\ UNCHANGED <<act, volatile, mode>> /\ b \in born
    BY DEF SendAgentMessage
  <1>2. /\ m \in MailRecord /\ m.id = <<NoSession, left>> /\ m.to = b
    <2>1. left \in Nat
      BY TreeConstants DEF Inv, Types
    <2> QED
      BY <2>1 DEF Message, MailRecord, MessageIds
  <1>5. ~m.steer /\ m.src = "agent"
    BY DEF Message
  <1>4. w \in BOOLEAN
    OBVIOUS
  <1>3. born' = born \cup {b} /\ (HasParent(b) => Parent[b] \in born)
    BY <1>1 DEF Inv, BornAgree
  <1> HIDE DEF m, w
  <1> QED
    BY <1>1, <1>2, <1>3, <1>4, <1>5, AcceptedStep

-----------------------------------------------------------------------------
(* Withdrawals, and input taken at a Step boundary.                         *)

LEMMA DiscardMessageStep ==
    ASSUME Inv, NEW i \in DOMAIN mail, DiscardMessage(i)
    PROVE  Inv' /\ act' = act
  <1> DEFINE ids == {mail[i].id}
  <1>1. mail' = Without(ids) /\ UNCHANGED <<born, act, paused, volatile, mode, left>>
    BY DEF DiscardMessage
  <1> HIDE DEF ids
  <1>2. mail' \in Seq(MailRecord) /\ Fits(mail', mail) /\ Drawn(mail', mail)
    BY <1>1, WithoutShrinks DEF Inv
  <1>3. paused' \in [Sessions -> BOOLEAN]
    BY <1>1 DEF Inv, Types
  <1> QED
    BY <1>1, <1>2, <1>3, ShrinkStep

LEMMA StepBoundaryStep ==
    ASSUME Inv, NEW s \in Sessions, StepBoundary(s)
    PROVE  Inv' /\ act' = act
  <1> DEFINE K == {i \in DOMAIN mail : ~(mail[i].to = s /\ mail[i].target = "step")}
  <1>1. mail' = Kept(mail, K) /\ UNCHANGED <<born, act, paused, volatile, mode, left>>
    BY DEF StepBoundary
  <1>2. K \in SUBSET DOMAIN mail /\ mail \in Seq(MailRecord)
    BY DEF Inv, Types
  <1> HIDE DEF K
  <1>3. mail' \in Seq(MailRecord) /\ Fits(mail', mail) /\ Drawn(mail', mail)
    BY <1>1, <1>2, KeptShrinks
  <1>4. paused' \in [Sessions -> BOOLEAN]
    BY <1>1 DEF Inv, Types
  <1> QED
    BY <1>1, <1>3, <1>4, ShrinkStep

-----------------------------------------------------------------------------
(* Cancellation of an open Turn.                                            *)

(* The activation of s changes in its phase, outcome and cancellation only.  *)
Edited(s) ==
    /\ act' \in [Sessions -> ActRecord]
    /\ act'[s].no = act[s].no /\ act'[s].held = act[s].held
    /\ \A x \in Sessions \ {s} : act'[x] = act[x]

LEMMA EditedSame ==
    ASSUME NEW s \in Sessions, Edited(s), act'[s].phase = "none" <=> act[s].phase = "none"
    PROVE  SameActivity(act, act')
  BY DEF Edited, SameActivity

LEMMA CancelStep ==
    ASSUME Inv, NEW s \in Sessions, NEW b \in BOOLEAN,
           act' = [act EXCEPT ![s].cancel = b], b => HasOpenTurn(s),
           paused' \in [Sessions -> BOOLEAN],
           mail' \in Seq(MailRecord), Fits(mail', mail), Drawn(mail', mail),
           fin' \in [Sessions -> FinRecord], mode # "up" => fin' = fin,
           \A x \in Sessions : fin'[x].pc = fin[x].pc /\ fin'[x].outcome = fin[x].outcome,
           UNCHANGED <<born, lane, cand, wake, round, settler, mode, left>>
    PROVE  Inv' /\ SameActivity(act, act')
  <1> USE DEF Inv
  <1>1. Edited(s) /\ act'[s].cancel = b /\ act'[s].phase = act[s].phase
                  /\ act'[s].outcome = act[s].outcome
    <2>1. act \in [Sessions -> ActRecord] /\ act[s] \in ActRecord
      BY DEF Types
    <2> QED
      BY <2>1 DEF Edited, ActRecord
  <1>2. SameActivity(act, act')
    BY <1>1, EditedSame
  <1>3. Types'
    BY <1>1 DEF Types, Edited
  <1>4. \A x \in Sessions : act'[x].phase = act[x].phase
    BY <1>1 DEF Edited
  <1>5. \A x \in Sessions : ActAgrees(act'[x], fin'[x])
    <2>1. ActAgrees(act'[s], fin'[s])
      <3>1. ActAgrees(act[s], fin[s])
        OBVIOUS
      <3> QED
        BY <1>1, <3>1 DEF ActAgrees, HasOpenTurn, Edited
    <2> QED
      BY <1>1, <2>1 DEF Edited, ActAgrees
  <1>6. LanesAgree' /\ DownAgrees'
    BY <1>4 DEF LanesAgree, DownAgrees, Types
  <1>7. NoStrandedInput'
    BY <1>4, StrandedDrawn DEF HasOpenTurn
  <1>8. SameLabels(mail', mail)
    BY DEF Drawn, SameLabels
  <1>9. Labels(mail', cand') \subseteq Labels(mail, cand)
    BY <1>8, LabelsDrawn
  <1>10. left' <= left
    BY TreeConstants DEF Types
  <1> QED
    BY <1>2, <1>3, <1>5, <1>6, <1>7, <1>8, <1>9, <1>10, CalmStep

LEMMA CancelTurnStep ==
    ASSUME Inv, NEW s \in Sessions, CancelTurn(s)
    PROVE  Inv' /\ SameActivity(act, act')
  <1>1. /\ act' = [act EXCEPT ![s].cancel = TRUE] /\ HasOpenTurn(s)
        /\ UNCHANGED <<born, paused, mail, lane, fin, cand, wake, round, settler, mode, left>>
    BY DEF CancelTurn, volatile
  <1>2. mail' \in Seq(MailRecord) /\ Fits(mail', mail) /\ Drawn(mail', mail)
    BY <1>1, FitsItself DEF Inv, Types, Drawn
  <1>3. paused' \in [Sessions -> BOOLEAN] /\ fin' \in [Sessions -> FinRecord]
    BY <1>1 DEF Inv, Types
  <1> QED
    BY <1>1, <1>2, <1>3, CancelStep

LEMMA CancelInboxStep ==
    ASSUME Inv, NEW s \in Sessions, NEW stop \in BOOLEAN, NEW keep \in BOOLEAN,
           CancelInbox(s, stop, keep)
    PROVE  Inv' /\ SameActivity(act, act')
  <1> DEFINE cut == stop /\ HasOpenTurn(s) /\ ~act[s].cancel
             ids == IF keep THEN {} ELSE IdsOf(s)
             b == act[s].cancel \/ cut
             z == paused[s] \/ stop
  <1>1. /\ act' = [act EXCEPT ![s].cancel = b] /\ mail' = Without(ids)
        /\ paused' = [paused EXCEPT ![s] = z]
        /\ UNCHANGED <<born, lane, fin, cand, wake, round, settler, mode, left>>
    BY DEF CancelInbox, volatile
  <1>2. b \in BOOLEAN /\ z \in BOOLEAN /\ (b => HasOpenTurn(s))
    <2>1. ActAgrees(act[s], fin[s])
      BY DEF Inv
    <2> QED
      BY <2>1 DEF ActAgrees, HasOpenTurn
  <1> HIDE DEF cut, ids, b, z
  <1>3. mail' \in Seq(MailRecord) /\ Fits(mail', mail) /\ Drawn(mail', mail)
    BY <1>1, WithoutShrinks DEF Inv
  <1>4. paused' \in [Sessions -> BOOLEAN] /\ fin' \in [Sessions -> FinRecord]
    BY <1>1, <1>2 DEF Inv, Types
  <1> QED
    BY <1>1, <1>2, <1>3, <1>4, CancelStep

LEMMA CancelDescendantStep ==
    ASSUME Inv, NEW s \in Sessions, NEW d \in Sessions, CancelDescendant(s, d)
    PROVE  Inv' /\ SameActivity(act, act')
  <1> DEFINE b == act[d].cancel \/ HasOpenTurn(d)
             S == fin[s].todo \ {d}
  <1>1. /\ act' = [act EXCEPT ![d].cancel = b] /\ d \in fin[s].todo
        /\ fin' = [fin EXCEPT ![s].todo = S]
        /\ UNCHANGED <<born, paused, mail, lane, cand, wake, round, settler, mode, left>>
    BY DEF CancelDescendant
  <1>2. b \in BOOLEAN /\ (b => HasOpenTurn(d))
    <2>1. ActAgrees(act[d], fin[d])
      BY DEF Inv
    <2> QED
      BY <2>1 DEF ActAgrees, HasOpenTurn
  <1> HIDE DEF b
  <1>3. mail' \in Seq(MailRecord) /\ Fits(mail', mail) /\ Drawn(mail', mail)
    BY <1>1, FitsItself DEF Inv, Types, Drawn
  <1>4. /\ fin' \in [Sessions -> FinRecord]
        /\ \A x \in Sessions : fin'[x].pc = fin[x].pc /\ fin'[x].outcome = fin[x].outcome
    <2>1. fin \in [Sessions -> FinRecord] /\ fin[s] \in FinRecord
      BY DEF Inv, Types
    <2>2. S \in SUBSET Sessions
      BY <2>1 DEF FinRecord
    <2> HIDE DEF S
    <2> QED
      BY <1>1, <2>1, <2>2 DEF FinRecord
  <1>5. mode = "up"
    BY <1>1 DEF Inv, DownAgrees, NoFin
  <1>6. paused' \in [Sessions -> BOOLEAN]
    BY <1>1 DEF Inv, Types
  <1> QED
    BY <1>1, <1>2, <1>3, <1>4, <1>5, <1>6, CancelStep

-----------------------------------------------------------------------------
(* The lane of a Turn is given back and taken again.                        *)

LEMMA ActEdits ==
    ASSUME Types, NEW s \in Sessions, NEW ph \in Phases,
           act' = [act EXCEPT ![s].phase = ph]
    PROVE  /\ Edited(s) /\ act'[s].phase = ph /\ act'[s].cancel = act[s].cancel
           /\ act'[s].outcome = act[s].outcome
  <1>1. act \in [Sessions -> ActRecord] /\ act[s] \in ActRecord
    BY DEF Types
  <1> QED
    BY <1>1 DEF Edited, ActRecord

LEMMA OpenStep ==
    ASSUME Inv, NEW s \in Sessions, NEW ph \in {"running", "parked"},
           act' = [act EXCEPT ![s].phase = ph], HasOpenTurn(s), fin[s].pc = "none",
           lane' \subseteq Sessions, IsFiniteSet(lane'), lane' \subseteq lane \cup {s},
           s \in lane' => ph = "running", mode = "up",
           Cardinality(lane') + (IF cand = NoCand THEN 0 ELSE 1) <= MaxRunning,
           left' \in 0..Budget, left' <= left,
           UNCHANGED <<born, paused, mail, fin, cand, wake, round, settler, mode>>
    PROVE  Inv' /\ SameActivity(act, act')
  <1> USE DEF Inv
  <1>1. /\ Edited(s) /\ act'[s].phase = ph /\ act'[s].cancel = act[s].cancel
        /\ act'[s].outcome = act[s].outcome
    <2>1. ph \in Phases
      BY DEF Phases
    <2> QED
      BY <2>1, ActEdits
  <1>2. SameActivity(act, act')
    BY <1>1, EditedSame DEF HasOpenTurn
  <1>3. Types'
    BY <1>1 DEF Types, Edited
  <1>4. \A x \in Sessions : ActAgrees(act'[x], fin'[x])
    <2>1. ActAgrees(act[s], fin[s])
      OBVIOUS
    <2>2. ActAgrees(act'[s], fin'[s])
      BY <1>1, <2>1 DEF ActAgrees, HasOpenTurn, Edited
    <2> QED
      BY <1>1, <2>2 DEF Edited
  <1>5. LanesAgree'
    BY <1>1 DEF LanesAgree, Edited, Types
  <1>6. DownAgrees'
    BY DEF DownAgrees
  <1>7. NoStrandedInput'
    <2>1. \A x \in Sessions : HasOpenTurn(x) => HasOpenTurn(x)'
      BY <1>1 DEF HasOpenTurn, Edited
    <2> QED
      BY <2>1, StrandedDrawn DEF Drawn
  <1>8. Fits(mail', mail) /\ SameLabels(mail', mail)
    BY FitsItself DEF Types, SameLabels
  <1> QED
    BY <1>2, <1>3, <1>4, <1>5, <1>6, <1>7, <1>8, CalmStep

LEMMA ParkStep ==
    ASSUME Inv, NEW s \in Sessions, Park(s)
    PROVE  Inv' /\ SameActivity(act, act')
  <1>1. /\ act' = [act EXCEPT ![s].phase = "parked"] /\ lane' = lane \ {s}
        /\ left > 0 /\ left' = left - 1 /\ mode = "up" /\ HasOpenTurn(s) /\ fin[s].pc = "none"
        /\ UNCHANGED <<born, paused, mail, fin, cand, wake, round, settler, mode>>
    BY DEF Park, Calling, HasOpenTurn
  <1>2. left' \in 0..Budget /\ left' <= left
    BY <1>1, TreeConstants DEF Inv, Types
  <1>3. lane \subseteq Sessions /\ IsFiniteSet(lane)
    BY DEF Inv, Types
  <1>4. IsFiniteSet(lane') /\ Cardinality(lane') <= Cardinality(lane)
    <2>1. lane' \in SUBSET lane
      BY <1>1
    <2> QED
      BY <1>3, <2>1, FS_Subset
  <1>5. Cardinality(lane') \in Nat /\ Cardinality(lane) \in Nat
    BY <1>3, <1>4, FS_CardinalityType
  <1>6. Cardinality(lane') + (IF cand = NoCand THEN 0 ELSE 1) <= MaxRunning
    BY <1>4, <1>5, TreeConstants DEF Inv, LanesAgree
  <1> QED
    BY <1>1, <1>2, <1>3, <1>4, <1>6, OpenStep

LEMMA ResumeStep ==
    ASSUME Inv, NEW s \in Sessions, NEW interrupted \in BOOLEAN, Resume(s, interrupted)
    PROVE  Inv' /\ SameActivity(act, act')
  <1>1. /\ act' = [act EXCEPT ![s].phase = "running"] /\ act[s].phase = "parked"
        /\ \/ lane' = lane
           \/ lane' = lane \cup {s} /\ FreeLane
        /\ mode = "up" /\ HasOpenTurn(s)
        /\ UNCHANGED <<born, paused, mail, fin, cand, wake, round, settler, mode, left>>
    BY DEF Resume, HasOpenTurn
  <1>2. left' \in 0..Budget /\ left' <= left
    BY <1>1, TreeConstants DEF Inv, Types
  <1>3. fin[s].pc = "none"
    <2>1. ActAgrees(act[s], fin[s])
      BY DEF Inv
    <2> QED
      BY <1>1, <2>1 DEF ActAgrees
  <1>4. lane \subseteq Sessions /\ IsFiniteSet(lane) /\ Cardinality(lane) \in Nat
    BY FS_CardinalityType DEF Inv, Types
  <1>5. IsFiniteSet(lane') /\ Cardinality(lane') + (IF cand = NoCand THEN 0 ELSE 1) <= MaxRunning
    <2>1. CASE lane' = lane
      BY <1>4, <2>1 DEF Inv, LanesAgree
    <2>2. CASE lane' = lane \cup {s} /\ FreeLane
      <3>1. s \notin lane
        BY <1>1 DEF Inv, LanesAgree
      <3>2. IsFiniteSet(lane') /\ Cardinality(lane') = Cardinality(lane) + 1
        BY <1>4, <2>2, <3>1, FS_AddElement
      <3> QED
        BY <1>4, <2>2, <3>2, TreeConstants DEF FreeLane
    <2> QED
      BY <1>1, <2>1, <2>2
  <1>6. lane' \subseteq Sessions /\ lane' \subseteq lane \cup {s}
    BY <1>1, <1>4
  <1> QED
    BY <1>1, <1>2, <1>3, <1>5, <1>6, OpenStep

-----------------------------------------------------------------------------
(* A Turn ends and its activation waits for descendants.                    *)

LEMMA WaitStep ==
    ASSUME Inv, NEW s \in Sessions, NEW o \in Outcomes, HasOpenTurn(s),
           act' = [act EXCEPT ![s].phase = "waiting", ![s].outcome = o, ![s].cancel = FALSE],
           mail' = Promoted(s), fin'[s] = NoFin, fin' \in [Sessions -> FinRecord],
           \A x \in Sessions \ {s} : fin'[x] = fin[x],
           mode # "up" => fin' = fin, lane' \subseteq lane, s \notin lane',
           UNCHANGED <<born, paused, cand, wake, round, settler, mode, left>>
    PROVE  Inv' /\ SameActivity(act, act')
  <1> USE DEF Inv
  <1>1. /\ Edited(s) /\ act'[s].phase = "waiting" /\ act'[s].outcome = o
        /\ act'[s].cancel = FALSE
    <2>1. act \in [Sessions -> ActRecord] /\ act[s] \in ActRecord
      BY DEF Types
    <2> QED
      BY <2>1 DEF Edited, ActRecord, Phases
  <1>2. SameActivity(act, act')
    BY <1>1, EditedSame DEF HasOpenTurn
  <1>3. /\ mail' \in Seq(MailRecord) /\ Fits(mail', mail) /\ Derived(mail', mail, s)
        /\ SameLabels(mail', mail)
    BY PromotedIs
  <1>4. IsFiniteSet(lane') /\ lane' \subseteq Sessions /\ Cardinality(lane') <= Cardinality(lane)
    BY FS_Subset DEF Types
  <1>5. Types'
    BY <1>1, <1>3, <1>4 DEF Types, Edited
  <1>6. \A x \in Sessions : ActAgrees(act'[x], fin'[x])
    <2>1. ActAgrees(act'[s], fin'[s])
      BY <1>1 DEF ActAgrees, NoFin
    <2> QED
      BY <1>1, <2>1 DEF Edited
  <1>7. LanesAgree'
    <2>1. \A x \in lane' : act'[x].phase = "running"
      BY <1>1 DEF LanesAgree, Edited, Types
    <2>2. Cardinality(lane') \in Nat /\ Cardinality(lane) \in Nat
      BY <1>4, FS_CardinalityType DEF Types
    <2>3. Cardinality(lane) + (IF cand = NoCand THEN 0 ELSE 1) <= MaxRunning
      BY DEF LanesAgree
    <2>4. Cardinality(lane') + (IF cand' = NoCand THEN 0 ELSE 1) <= MaxRunning
      BY <1>4, <2>2, <2>3, TreeConstants
    <2> QED
      BY <2>1, <2>4 DEF LanesAgree
  <1>8. DownAgrees'
    BY DEF DownAgrees
  <1>9. NoStrandedInput'
    <2>1. \A x \in Sessions \ {s} : HasOpenTurn(x) => HasOpenTurn(x)'
      BY <1>1 DEF HasOpenTurn, Edited
    <2> QED
      BY <1>3, <2>1, StrandedPromoted
  <1>10. Labels(mail', cand') \subseteq Labels(mail, cand)
    BY <1>3, LabelsDrawn
  <1>11. left' <= left
    BY TreeConstants DEF Types
  <1> QED
    BY <1>2, <1>3, <1>5, <1>6, <1>7, <1>8, <1>9, <1>10, <1>11, CalmStep

LEMMA NoFinIs ==
    NoFin \in FinRecord /\ NoFin.pc = "none" /\ NoFin.todo = {}
  BY DEF NoFin, FinRecord

LEMMA FinishWaitingStep ==
    ASSUME Inv, NEW s \in Sessions, FinishWaiting(s)
    PROVE  Inv' /\ SameActivity(act, act')
  <1> DEFINE o == fin[s].outcome
  <1>1. /\ act' = [act EXCEPT ![s].phase = "waiting", ![s].outcome = o, ![s].cancel = FALSE]
        /\ mail' = Promoted(s) /\ fin' = [fin EXCEPT ![s] = NoFin] /\ lane' = lane \ {s}
        /\ fin[s].pc = "unsettled"
        /\ UNCHANGED <<born, paused, cand, wake, round, settler, mode, left>>
    BY DEF FinishWaiting
  <1>2. o \in Outcomes /\ HasOpenTurn(s)
    <2>1. ActAgrees(act[s], fin[s])
      BY DEF Inv
    <2> QED
      BY <1>1, <2>1 DEF ActAgrees, HasOpenTurn
  <1>3. mode = "up"
    BY <1>1 DEF Inv, DownAgrees, NoFin
  <1>4. /\ fin' \in [Sessions -> FinRecord] /\ fin'[s] = NoFin
        /\ \A x \in Sessions \ {s} : fin'[x] = fin[x]
    <2>1. fin \in [Sessions -> FinRecord]
      BY DEF Inv, Types
    <2> HIDE DEF FinRecord, NoFin
    <2> QED
      BY <1>1, <2>1, NoFinIs
  <1> HIDE DEF o
  <1> QED
    BY <1>1, <1>2, <1>3, <1>4, WaitStep

LEMMA RecoverSessionStep ==
    ASSUME Inv, NEW s \in Sessions, RecoverSession(s)
    PROVE  Inv' /\ SameActivity(act, act')
  <1> DEFINE o == IF act[s].cancel THEN "cancelled" ELSE "failed"
  <1>1. /\ act' = [act EXCEPT ![s].phase = "waiting", ![s].cancel = FALSE, ![s].outcome = o]
        /\ mail' = Promoted(s) /\ mode = "repair" /\ HasOpenTurn(s)
        /\ UNCHANGED <<born, paused, lane, fin, cand, wake, round, settler, mode, left>>
    BY DEF RecoverSession, volatile
  <1>2. o \in Outcomes
    BY DEF Outcomes
  <1> HIDE DEF o
  <1>3. act' = [act EXCEPT ![s].phase = "waiting", ![s].outcome = o, ![s].cancel = FALSE]
    <2>1. act \in [Sessions -> ActRecord] /\ act[s] \in ActRecord
      BY DEF Inv, Types
    <2> DEFINE u == [act[s] EXCEPT !.phase = "waiting", !.cancel = FALSE, !.outcome = o]
               v == [act[s] EXCEPT !.phase = "waiting", !.outcome = o, !.cancel = FALSE]
    <2>2. u = v
      BY <2>1 DEF ActRecord
    <2> QED
      BY <1>1, <2>1, <2>2
  <1>4. /\ fin' \in [Sessions -> FinRecord] /\ fin'[s] = NoFin /\ lane' = {}
    BY <1>1 DEF Inv, Types, DownAgrees
  <1> QED
    BY <1>1, <1>2, <1>3, <1>4, WaitStep

-----------------------------------------------------------------------------
(* The ready scheduler.                                                     *)

LEMMA NoCandTyped ==
    NoCand \in [id : MessageIds, to : Roots] /\ NoSettler \in [session : Roots, no : Nat]
  BY DEF NoCand, NoSettler, MessageIds, Roots

LEMMA ReadyScanStep ==
    ASSUME Inv, ReadyScan
    PROVE  Inv' /\ act' = act
  <1> USE DEF Inv
  <1>1. PICK i \in DOMAIN mail : cand' = [id |-> mail[i].id, to |-> mail[i].to]
    BY DEF ReadyScan
  <1>2. /\ mode = "up" /\ cand = NoCand /\ Cardinality(lane) < MaxRunning
        /\ UNCHANGED <<born, act, paused, mail, lane, fin, wake, round, settler, mode, left>>
    BY DEF ReadyScan
  <1>3. mail[i] \in MailRecord /\ mail[i].to \in Sessions
    BY MailTyped
  <1>4. cand' \in [id : MessageIds, to : Roots] /\ cand'.id = mail[i].id /\ cand'.to = mail[i].to
    <2>1. mail[i].id \in MessageIds
      BY <1>3 DEF MailRecord
    <2> QED
      BY <1>1, <1>3, <2>1 DEF Roots
  <1>5. Types'
    BY <1>2, <1>4 DEF Types
  <1>6. LanesAgree'
    <2>1. Cardinality(lane) \in Nat
      BY FS_CardinalityType DEF Types
    <2>2. Cardinality(lane) + 1 <= MaxRunning
      BY <1>2, <2>1, TreeConstants
    <2>3. Cardinality(lane) + (IF cand' = NoCand THEN 0 ELSE 1) <= MaxRunning
      BY <2>1, <2>2, TreeConstants
    <2> QED
      BY <1>2, <2>3 DEF LanesAgree
  <1>7. DownAgrees'
    BY <1>2 DEF DownAgrees
  <1>8. Labels(mail', cand') \subseteq Labels(mail, cand)
    BY <1>2, <1>4 DEF Labels
  <1>9. \A s \in Sessions : ActAgrees(act'[s], fin'[s])
    BY <1>2
  <1> QED
    BY <1>2, <1>5, <1>6, <1>7, <1>8, <1>9, VolatileStep

(* Only a message that is allowed to start an activation does.               *)
LEMMA ClaimMessageStep ==
    ASSUME Inv, ClaimMessage
    PROVE  /\ Inv'
           /\ \A s \in Sessions : act'[s].no # act[s].no => ~paused[s]
  <1> USE DEF Inv
  <1> DEFINE chosen == {i \in DOMAIN mail : mail[i].id = cand.id /\ ClaimAllowed(mail[i])}
  <1>1. /\ mode = "up" /\ cand # NoCand /\ cand' = NoCand
        /\ UNCHANGED <<born, paused, fin, wake, round, settler, mode, left>>
    BY DEF ClaimMessage
  <1>2. CASE chosen = {}
    <2>1. UNCHANGED <<act, mail, lane>>
      BY <1>2 DEF ClaimMessage
    <2>2. Types'
      BY <1>1, <2>1, NoCandTyped DEF Types
    <2>3. LanesAgree'
      <3>1. Cardinality(lane) \in Nat
        BY FS_CardinalityType DEF Types
      <3>2. Cardinality(lane) + 1 <= MaxRunning
        BY <1>1 DEF LanesAgree
      <3>3. Cardinality(lane) + 0 <= MaxRunning
        BY <3>1, <3>2, TreeConstants
      <3> QED
        BY <1>1, <2>1, <3>3 DEF LanesAgree
    <2>4. DownAgrees'
      BY <1>1 DEF DownAgrees
    <2>5. Labels(mail', cand') \subseteq Labels(mail, cand)
      BY <1>1, <2>1 DEF Labels
    <2>6. \A s \in Sessions : ActAgrees(act'[s], fin'[s])
      BY <1>1, <2>1
    <2>7. Inv'
      BY <1>1, <2>1, <2>2, <2>3, <2>4, <2>5, <2>6, VolatileStep
    <2> QED
      BY <2>1, <2>7
  <1>3. CASE chosen # {}
    <2>1. PICK i \in DOMAIN mail : mail[i].id = cand.id /\ ClaimAllowed(mail[i])
      BY <1>3
    <2>2. /\ Inv' /\ mail[i].to = cand.to
          /\ \A x \in Sessions \ {cand.to} : act'[x] = act[x]
      BY <1>1, <2>1, ClaimStep
    <2>3. ~paused[cand.to]
      BY <2>1, <2>2 DEF ClaimAllowed
    <2> QED
      BY <2>2, <2>3
  <1> QED
    BY <1>2, <1>3

-----------------------------------------------------------------------------
(* The ending of a Turn.                                                    *)

LEMMA EndingStep ==
    ASSUME Inv, mode = "up", NEW s \in Sessions, NEW f \in FinRecord, f.outcome \in Outcomes,
           act[s].phase = "running", fin' = [fin EXCEPT ![s] = f],
           UNCHANGED <<born, act, paused, mail, lane, cand, wake, round, settler, mode, left>>
    PROVE  Inv'
  <1> USE DEF Inv
  <1>1. /\ fin' \in [Sessions -> FinRecord] /\ fin'[s] = f
        /\ \A x \in Sessions \ {s} : fin'[x] = fin[x]
    <2>1. fin \in [Sessions -> FinRecord]
      BY DEF Types
    <2> HIDE DEF FinRecord
    <2> QED
      BY <2>1
  <1>2. Types'
    BY <1>1 DEF Types
  <1>3. \A x \in Sessions : ActAgrees(act'[x], fin'[x])
    <2>1. ActAgrees(act[s], fin[s])
      OBVIOUS
    <2>2. ActAgrees(act'[s], fin'[s])
      BY <1>1, <2>1 DEF ActAgrees
    <2> QED
      BY <1>1, <2>2
  <1>4. LanesAgree' /\ DownAgrees'
    BY DEF LanesAgree, DownAgrees
  <1> QED
    BY <1>2, <1>3, <1>4, VolatileStep

LEMMA FinishBeginStep ==
    ASSUME Inv, NEW s \in Sessions, NEW o \in Outcomes, FinishBegin(s, o)
    PROVE  Inv' /\ act' = act
  <1> DEFINE S == IF o = "completed" THEN {} ELSE Descendants(s)
             f == [pc |-> "ending", outcome |-> o, todo |-> S]
  <1>1. /\ mode = "up" /\ act[s].phase = "running" /\ fin' = [fin EXCEPT ![s] = f]
        /\ UNCHANGED <<born, act, paused, mail, lane, cand, wake, round, settler, mode, left>>
    BY DEF FinishBegin
  <1>2. S \in SUBSET Sessions
    BY DEF Descendants, Inv, Types
  <1> HIDE DEF S
  <1>3. f \in FinRecord /\ f.outcome \in Outcomes
    BY <1>2 DEF FinRecord
  <1> HIDE DEF f
  <1> QED
    BY <1>1, <1>3, EndingStep

LEMMA SettleNumbers ==
    ASSUME Types, NEW s \in Sessions, NEW o, Settle(s, o)
    PROVE  \A x \in Sessions : act'[x].no = act[x].no
  BY DEF Settle, Types

LEMMA FinishSettleStep ==
    ASSUME Inv, NEW s \in Sessions, FinishSettle(s)
    PROVE  Inv' /\ \A x \in Sessions : act'[x].no = act[x].no
  <1>0. ActAgrees(act[s], fin[s]) /\ Types
    BY DEF Inv
  <1>1. /\ mode = "up" /\ fin[s].pc = "ending"
        /\ UNCHANGED <<born, cand, round, settler, mode, left>>
    BY DEF FinishSettle
  <1>2. act[s].phase = "running" /\ Terminal(s) \in Outcomes
    BY <1>0, <1>1 DEF ActAgrees, Terminal, Outcomes
  <1>3. CASE Quiescent(s)
    <2>1. Settle(s, Terminal(s)) /\ fin' = [fin EXCEPT ![s] = NoFin] /\ lane' = lane \ {s}
      BY <1>3 DEF FinishSettle
    <2>2. /\ fin' \in [Sessions -> FinRecord] /\ fin'[s].pc = "none"
          /\ \A x \in Sessions \ {s} : fin'[x] = fin[x]
      <3>1. fin \in [Sessions -> FinRecord]
        BY <1>0 DEF Types
      <3> HIDE DEF FinRecord, NoFin
      <3> QED
        BY <2>1, <3>1, NoFinIs
    <2>3. HasActive(s) /\ round' \subseteq Sessions /\ settler' \in [session : Roots, no : Nat]
      BY <1>0, <1>1, <1>2 DEF HasActive, Types
    <2>4. lane' \subseteq lane /\ s \notin lane'
      BY <2>1
    <2>5. Inv'
      BY <1>1, <1>3, <2>1, <2>2, <2>3, <2>4, SettleStep
    <2> QED
      BY <1>0, <2>1, <2>5, SettleNumbers
  <1>4. CASE ~Quiescent(s)
    <2> DEFINE o == Terminal(s)
               f == [fin[s] EXCEPT !.pc = "unsettled", !.outcome = o]
    <2>1. /\ fin' = [fin EXCEPT ![s].pc = "unsettled", ![s].outcome = o]
          /\ UNCHANGED <<act, mail, paused, lane, wake>>
      BY <1>4 DEF FinishSettle
    <2>2. o \in Outcomes
      BY <1>2
    <2> HIDE DEF o
    <2>3. fin \in [Sessions -> FinRecord] /\ fin[s] \in FinRecord
      BY <1>0 DEF Types
    <2>4. f \in FinRecord /\ f.outcome \in Outcomes
      BY <2>2, <2>3 DEF FinRecord
    <2>5. fin' = [fin EXCEPT ![s] = f]
      BY <2>1, <2>3
    <2> HIDE DEF f
    <2>6. Inv'
      BY <1>1, <1>2, <2>1, <2>4, <2>5, EndingStep
    <2> QED
      BY <2>1, <2>6
  <1> QED
    BY <1>3, <1>4

-----------------------------------------------------------------------------
(* The settlement worker, crash and recovery.                               *)

(* A step of the worker that commits nothing.                                *)
LEMMA WorkerStep ==
    ASSUME Inv, round' \subseteq Sessions, settler' \in [session : Roots, no : Nat],
           mode' \in {"up", "repair", "reconcile"}, mode = "up" => mode' = "up",
           UNCHANGED <<born, act, paused, mail, lane, fin, cand, left>>
    PROVE  Inv'
  <1> USE DEF Inv
  <1>1. Types'
    BY DEF Types
  <1>2. LanesAgree' /\ DownAgrees'
    BY DEF LanesAgree, DownAgrees
  <1>3. \A s \in Sessions : ActAgrees(act'[s], fin'[s])
    OBVIOUS
  <1> QED
    BY <1>1, <1>2, <1>3, VolatileStep

LEMMA RoundBeginStep ==
    ASSUME Inv, RoundBegin
    PROVE  Inv' /\ act' = act
  <1>1. /\ round' \subseteq Sessions
        /\ UNCHANGED <<born, act, paused, mail, lane, fin, cand, settler, mode, left>>
    BY DEF RoundBegin, Waiting
  <1>2. settler' \in [session : Roots, no : Nat] /\ mode' \in {"up", "repair", "reconcile"}
    BY <1>1 DEF Inv, Types
  <1> QED
    BY <1>1, <1>2, WorkerStep

LEMMA SettleReadStep ==
    ASSUME Inv, NEW s \in Sessions, SettleRead(s)
    PROVE  Inv' /\ act' = act
  <1>1. /\ round' = round \ {s}
        /\ settler' = [session |-> s, no |-> act[s].no] \/ settler' = NoSettler
        /\ UNCHANGED <<born, act, paused, mail, lane, fin, cand, wake, mode, left>>
    BY DEF SettleRead
  <1>2. act[s].no \in Nat
    BY DEF Inv, Types, ActRecord
  <1>3. settler' \in [session : Roots, no : Nat]
    BY <1>1, <1>2, NoCandTyped DEF Roots
  <1>4. round' \subseteq Sessions /\ mode' \in {"up", "repair", "reconcile"}
    BY <1>1 DEF Inv, Types
  <1> QED
    BY <1>1, <1>3, <1>4, WorkerStep

LEMMA SettleCommitStep ==
    ASSUME Inv, SettleCommit
    PROVE  Inv' /\ \A x \in Sessions : act'[x].no = act[x].no
  <1> DEFINE s == settler.session
  <1>1. settler' = NoSettler /\ UNCHANGED <<born, lane, fin, cand, wake, mode, left>>
    BY DEF SettleCommit
  <1>2. CASE SettleCurrent /\ Quiescent(s)
    <2>1. Settle(s, act[s].outcome) /\ s \in Sessions /\ act[s].phase = "waiting"
      BY <1>2 DEF SettleCommit, SettleCurrent, Waiting
    <2>2. round' \subseteq Sessions
      <3>1. round' = (IF HasParent(s) THEN round \cup {Parent[s]} ELSE round)
        BY <1>2 DEF SettleCommit
      <3> HIDE DEF s
      <3> QED
        BY <2>1, <3>1, TreeConstants DEF Inv, Types
    <2>3. fin'[s].pc = "none"
      <3>1. ActAgrees(act[s], fin[s])
        BY <2>1 DEF Inv
      <3>2. fin[s] \in FinRecord
        BY <2>1 DEF Inv, Types
      <3> QED
        BY <1>1, <2>1, <3>1 DEF ActAgrees
    <2>4. lane' \subseteq lane /\ s \notin lane'
      BY <1>1, <2>1 DEF Inv, LanesAgree
    <2>5. fin' \in [Sessions -> FinRecord] /\ HasActive(s)
      BY <1>1, <2>1 DEF Inv, Types, HasActive
    <2> HIDE DEF s
    <2>6. Inv'
      BY <1>1, <1>2, <2>1, <2>2, <2>3, <2>4, <2>5, NoCandTyped, SettleStep
    <2>7. Types
      BY DEF Inv
    <2> QED
      BY <2>1, <2>6, <2>7, SettleNumbers
  <1>3. CASE ~(SettleCurrent /\ Quiescent(s))
    <2>1. UNCHANGED <<act, mail, paused, round>>
      BY <1>3 DEF SettleCommit
    <2>2. round' \subseteq Sessions /\ mode' \in {"up", "repair", "reconcile"}
      BY <1>1, <2>1 DEF Inv, Types
    <2>3. Inv'
      BY <1>1, <2>1, <2>2, NoCandTyped, WorkerStep
    <2> QED
      BY <2>1, <2>3
  <1> QED
    BY <1>2, <1>3

LEMMA CrashStep ==
    ASSUME Inv, Crash
    PROVE  Inv' /\ act' = act
  <1> USE DEF Inv
  <1>1. /\ mode' = "repair" /\ lane' = {} /\ fin' = [s \in Sessions |-> NoFin]
        /\ cand' = NoCand /\ round' = {} /\ settler' = NoSettler
        /\ UNCHANGED <<born, act, paused, mail, left>>
    BY DEF Crash
  <1>2. IsFiniteSet(lane') /\ Cardinality(lane') = 0
    BY <1>1, FS_EmptySet
  <1>3. Types'
    BY <1>1, <1>2, NoCandTyped, NoFinIs DEF Types
  <1>4. LanesAgree'
    BY <1>1, <1>2, TreeConstants DEF LanesAgree
  <1>5. DownAgrees'
    BY <1>1 DEF DownAgrees
  <1>6. \A s \in Sessions : ActAgrees(act'[s], fin'[s])
    <2> SUFFICES ASSUME NEW s \in Sessions PROVE ActAgrees(act'[s], fin'[s])
      OBVIOUS
    <2>1. ActAgrees(act[s], fin[s]) /\ act' = act /\ fin'[s].pc = "none"
      BY <1>1, NoFinIs
    <2> QED
      BY <2>1 DEF ActAgrees
  <1>7. Labels(mail', cand') \subseteq Labels(mail, cand)
    BY <1>1 DEF Labels
  <1> QED
    BY <1>1, <1>3, <1>4, <1>5, <1>6, <1>7, VolatileStep

LEMMA RecoverReconcileStep ==
    ASSUME Inv, RecoverReconcile
    PROVE  Inv' /\ act' = act
  <1>1. /\ mode = "repair" /\ mode' = "reconcile" /\ round' \subseteq Sessions
        /\ UNCHANGED <<born, act, paused, mail, lane, fin, cand, wake, settler, left>>
    BY DEF RecoverReconcile, Waiting
  <1>2. settler' \in [session : Roots, no : Nat]
    BY <1>1 DEF Inv, Types
  <1> QED
    BY <1>1, <1>2, WorkerStep

LEMMA RecoverServeStep ==
    ASSUME Inv, RecoverServe
    PROVE  Inv' /\ act' = act
  <1>1. /\ mode' = "up"
        /\ UNCHANGED <<born, act, paused, mail, lane, fin, cand, wake, round, settler, left>>
    BY DEF RecoverServe, volatile
  <1>2. settler' \in [session : Roots, no : Nat] /\ round' \subseteq Sessions
    BY <1>1 DEF Inv, Types
  <1> QED
    BY <1>1, <1>2, WorkerStep

-----------------------------------------------------------------------------
(* Nothing is active at the start, and nothing is queued.                    *)
LEMMA InitInv == Init => Inv
  <1> SUFFICES ASSUME Init PROVE Inv
    OBVIOUS
  <1> DEFINE a == [phase |-> "none", no |-> 0, held |-> 0, outcome |-> "none", cancel |-> FALSE]
  <1>1. a \in ActRecord /\ \A s \in Sessions : act[s] = a
    BY DEF Init, ActRecord, Phases
  <1>2. mail = <<>> /\ DOMAIN mail = {} /\ mail \in Seq(MailRecord)
    <2>1. mail = <<>>
      BY DEF Init
    <2> HIDE DEF MailRecord
    <2> QED
      BY <2>1
  <1>3. IsFiniteSet(lane) /\ Cardinality(lane) = 0 /\ lane = {}
    BY FS_EmptySet DEF Init
  <1>4. Types
    <2>1. act \in [Sessions -> ActRecord]
      BY <1>1 DEF Init
    <2>2. fin \in [Sessions -> FinRecord]
      BY NoFinIs DEF Init
    <2>3. left \in 0..Budget
      BY TreeConstants DEF Init
    <2> HIDE DEF a
    <2> QED
      BY <1>2, <1>3, <2>1, <2>2, <2>3, TreeConstants, NoCandTyped DEF Types, Init
  <1>5. \A s \in Sessions : ActAgrees(act[s], fin[s])
    BY <1>1 DEF ActAgrees, Init, Outcomes, NoFin
  <1>6. BornAgree
    BY <1>1, TreeConstants DEF BornAgree, HasActive, Init
  <1>7. LanesAgree
    BY <1>3, TreeConstants DEF LanesAgree, Init
  <1>8. DownAgrees
    BY DEF DownAgrees, Init
  <1>9. MailAgrees
    <2>1. Labels(mail, cand) = {}
      BY <1>2 DEF Labels, Init
    <2> QED
      BY <1>2, <2>1 DEF MailAgrees, LabelsAgree
  <1>10. NestedActivations
    BY <1>1 DEF NestedActivations
  <1>11. NoStrandedInput
    BY <1>2 DEF NoStrandedInput
  <1>12. CompletionsHaveRoom
    <2> SUFFICES ASSUME NEW s \in Sessions
                 PROVE  Cardinality(MailOf(s)) + Reservations(s) <= MaxPending
      BY DEF CompletionsHaveRoom
    <2>1. MailOf(s) = {}
      BY <1>2 DEF MailOf
    <2>2. {c \in born : Parent[c] = s /\ HasActive(c)} = {}
      <3>1. \A c \in born : c \in Sessions
        BY <1>4 DEF Types
      <3>2. \A c \in Sessions : ~HasActive(c)
        BY <1>1 DEF HasActive
      <3> QED
        BY <3>1, <3>2
    <2>3. Cardinality(MailOf(s)) = 0 /\ Reservations(s) = 0
      BY <2>1, <2>2, FS_EmptySet DEF Reservations
    <2> QED
      BY <2>3, TreeConstants
  <1> QED
    BY <1>4, <1>5, <1>6, <1>7, <1>8, <1>9, <1>10, <1>11, <1>12 DEF Inv

(* No step but a claim starts an activation.                                 *)
StartsAllowed == \A s \in Sessions : act'[s].no # act[s].no => ~paused[s]

LEMMA SameStarts ==
    (SameActivity(act, act') \/ act' = act \/ \A x \in Sessions : act'[x].no = act[x].no)
      => StartsAllowed
  BY DEF SameActivity, StartsAllowed

LEMMA PeopleStep ==
    ASSUME Inv, People
    PROVE  Inv' /\ StartsAllowed
  <1>1. CASE \E s \in HumanTargets, d \in {"turn", "steer"} : SubmitHuman(s, d)
    BY <1>1, TreeConstants, SubmitHumanStep, SameStarts
  <1>2. CASE \E i \in DOMAIN mail : DiscardMessage(i)
    BY <1>2, DiscardMessageStep, SameStarts
  <1>3. CASE \E i \in DOMAIN mail : ConvertToSteer(i)
    <2>1. PICK i \in DOMAIN mail : ConvertToSteer(i)
      BY <1>3
    <2>2. act' = act
      BY <2>1 DEF ConvertToSteer
    <2> QED
      BY <2>1, <2>2, ConvertStep, SameStarts
  <1>4. CASE \E s \in Sessions : CancelTurn(s)
    BY <1>4, CancelTurnStep, SameStarts
  <1>5. CASE \E s \in Sessions, stop, keep \in BOOLEAN : CancelInbox(s, stop, keep)
    BY <1>5, CancelInboxStep, SameStarts
  <1> QED
    BY <1>1, <1>2, <1>3, <1>4, <1>5 DEF People

LEMMA ToolsStep ==
    ASSUME Inv, Tools
    PROVE  Inv' /\ StartsAllowed
  <1>1. CASE \E p, c \in Sessions : SpawnAgent(p, c)
    BY <1>1, SpawnAgentStep, SameStarts
  <1>2. CASE \E a, b \in Sessions, t \in {"turn", "step"} : SendAgentMessage(a, b, t)
    BY <1>2, SendAgentMessageStep, SameStarts
  <1>3. CASE \E s \in Sessions : StepBoundary(s)
    BY <1>3, StepBoundaryStep, SameStarts
  <1>4. CASE \E s \in Sessions : Park(s)
    BY <1>4, ParkStep, SameStarts
  <1> QED
    BY <1>1, <1>2, <1>3, <1>4 DEF Tools

LEMMA FinishStep ==
    ASSUME Inv, NEW s \in Sessions, Finish(s)
    PROVE  Inv' /\ StartsAllowed
  <1>1. CASE \E o \in Outcomes \ {"cancelled"} : FinishBegin(s, o)
    BY <1>1, FinishBeginStep, SameStarts
  <1>2. CASE \E d \in Sessions : CancelDescendant(s, d)
    BY <1>2, CancelDescendantStep, SameStarts
  <1>3. CASE FinishSettle(s)
    BY <1>3, FinishSettleStep, SameStarts
  <1>4. CASE FinishWaiting(s)
    BY <1>4, FinishWaitingStep, SameStarts
  <1> QED
    BY <1>1, <1>2, <1>3, <1>4 DEF Finish

LEMMA SettlementStep ==
    ASSUME Inv, Settlement \/ Recovery
    PROVE  Inv' /\ StartsAllowed
  <1>1. CASE RoundBegin
    BY <1>1, RoundBeginStep, SameStarts
  <1>2. CASE \E s \in Sessions : SettleRead(s)
    BY <1>2, SettleReadStep, SameStarts
  <1>3. CASE SettleCommit
    BY <1>3, SettleCommitStep, SameStarts
  <1>4. CASE \E s \in Sessions : RecoverSession(s)
    BY <1>4, RecoverSessionStep, SameStarts
  <1>5. CASE RecoverReconcile
    BY <1>5, RecoverReconcileStep, SameStarts
  <1>6. CASE RecoverServe
    BY <1>6, RecoverServeStep, SameStarts
  <1> QED
    BY <1>1, <1>2, <1>3, <1>4, <1>5, <1>6 DEF Settlement, Recovery

LEMMA NextInv == Inv /\ [Next]_vars => Inv' /\ StartsAllowed
  <1> SUFFICES ASSUME Inv, [Next]_vars PROVE Inv' /\ StartsAllowed
    OBVIOUS
  <1>1. CASE People
    BY <1>1, PeopleStep
  <1>2. CASE Tools
    BY <1>2, ToolsStep
  <1>3. CASE ReadyScan
    BY <1>3, ReadyScanStep, SameStarts
  <1>4. CASE ClaimMessage
    BY <1>4, ClaimMessageStep DEF StartsAllowed
  <1>5. CASE \E s \in Sessions, i \in BOOLEAN : Resume(s, i)
    BY <1>5, ResumeStep, SameStarts
  <1>6. CASE \E s \in Sessions : Finish(s)
    BY <1>6, FinishStep
  <1>7. CASE Settlement \/ Recovery
    BY <1>7, SettlementStep
  <1>8. CASE Crash
    BY <1>8, CrashStep, SameStarts
  <1>9. CASE UNCHANGED vars
    <2>1. /\ UNCHANGED <<born, act, paused, mail, lane, fin, cand>>
          /\ UNCHANGED <<wake, round, settler, mode, left>>
      BY <1>9 DEF vars
    <2>2. /\ round' \subseteq Sessions /\ settler' \in [session : Roots, no : Nat]
          /\ mode' \in {"up", "repair", "reconcile"}
      BY <2>1 DEF Inv, Types
    <2>3. Inv'
      BY <2>1, <2>2, WorkerStep
    <2> QED
      BY <2>1, <2>3, SameStarts
  <1> QED
    BY <1>1, <1>2, <1>3, <1>4, <1>5, <1>6, <1>7, <1>8, <1>9 DEF Next

-----------------------------------------------------------------------------
(* The inductive invariant holds in every reachable state of every tree.     *)
THEOREM TreeInvariant == Spec => []Inv
  BY InitInv, NextInv, PTL DEF Spec

(* Types of the tree, with lanes held by running Turns only, endings that    *)
(* belong to running Turns, and terminal outcomes of waiting activations.    *)
THEOREM TreeIsTyped == Spec => []TypeOK
  <1>1. Inv => TypeOK
    <2> SUFFICES ASSUME Inv PROVE TypeOK
      OBVIOUS
    <2> USE DEF Inv
    <2>1. ASSUME NEW s \in Sessions
          PROVE  /\ act[s].phase \in Phases
                 /\ {act[s].no, act[s].held} \subseteq Nat
                 /\ act[s].cancel => HasOpenTurn(s)
                 /\ act[s].phase = "waiting" <=> act[s].outcome \in Outcomes
                 /\ fin[s].pc \in {"none", "ending", "unsettled"}
                 /\ fin[s].pc # "none" => act[s].phase = "running"
                 /\ s \notin born => ~HasActive(s)
      <3>1. act[s] \in ActRecord /\ fin[s] \in FinRecord /\ ActAgrees(act[s], fin[s])
        BY DEF Types
      <3>2. s \notin born => ~HasActive(s)
        BY DEF BornAgree
      <3>3. act[s].phase \in Phases /\ act[s].no \in Nat /\ act[s].held \in Nat
        BY <3>1 DEF ActRecord
      <3>4. fin[s].pc \in {"none", "ending", "unsettled"}
        BY <3>1 DEF FinRecord
      <3> QED
        BY <3>1, <3>2, <3>3, <3>4 DEF ActAgrees, HasOpenTurn
    <2>2. \A i \in DOMAIN mail :
            /\ mail[i].id \in MessageIds /\ mail[i].to \in born
            /\ mail[i].src \in {"human", "agent", "completion"}
            /\ mail[i].target \in {"step", "turn"}
      BY MailTyped DEF MailRecord, MailAgrees
    <2>3. Cardinality(lane) <= MaxRunning
      <3>1. Cardinality(lane) \in Nat
        BY FS_CardinalityType DEF Types
      <3> QED
        BY <3>1, TreeConstants DEF LanesAgree
    <2>4. \A s \in lane : act[s].phase = "running"
      BY DEF LanesAgree
    <2>5. /\ born \subseteq Sessions /\ paused \in [Sessions -> BOOLEAN]
          /\ mode \in {"up", "repair", "reconcile"} /\ left \in 0..Budget
      BY DEF Types
    <2> QED
      BY <2>1, <2>2, <2>3, <2>4, <2>5 DEF TypeOK
  <1> QED
    BY <1>1, TreeInvariant, PTL

(* An activation admitted under an activation of its parent lives inside it: *)
(* whatever is submitted, spawned, ended, settled or lost in a crash, the    *)
(* parent's activation is the same one until the child's is settled.         *)
THEOREM ActivationsNest == Spec => []NestedActivations
  BY TreeInvariant, PTL DEF Inv

(* No completion notice and no bound steer is left as a next-Step message    *)
(* where no open Turn will take it.                                          *)
THEOREM InputIsNotStranded == Spec => []NoStrandedInput
  BY TreeInvariant, PTL DEF Inv

(* Pending messages and the completions of active children together never    *)
(* exceed a mailbox, so the append of a settlement is never refused.         *)
THEOREM MailboxesHaveRoom == Spec => []CompletionsHaveRoom
  BY TreeInvariant, PTL DEF Inv

(* No activation starts in a Session while its inbox is suspended, although  *)
(* the scheduler chose the message without its admission.                    *)
THEOREM SuspendedInboxStartsNothing == Spec => PausedNeverStarts
  <1>1. Inv /\ [Next]_vars => [\A s \in Sessions : act'[s].no > act[s].no => ~paused[s]]_vars
    <2> SUFFICES ASSUME Inv, [Next]_vars, NEW s \in Sessions, act'[s].no > act[s].no
                 PROVE  ~paused[s]
      OBVIOUS
    <2>1. act[s].no \in Nat
      BY DEF Inv, Types, ActRecord
    <2> QED
      BY <2>1, NextInv DEF StartsAllowed
  <1> QED
    BY <1>1, TreeInvariant, PTL DEF Spec, PausedNeverStarts
=============================================================================
