-------------------------- MODULE TurnFactsProofs --------------------------
(***************************************************************************)
(* What the rules on Facts guarantee of every Turn, for any number of      *)
(* effects, calls, Tools, Steps and program ordinals: effects overlap only *)
(* as declared, every call is used once, a conclusion is the last thing a  *)
(* Turn does, and every Turn can be ended and every durable prefix closed. *)
(***************************************************************************)
EXTENDS TurnFacts, FiniteSetTheorems, TLAPS

-----------------------------------------------------------------------------
(* The inductive invariant.                                                 *)

Ids == EffectIds \cup {NoEffect}
ModelKeys == {"model"} \X EffectIds \X CallIds
ProgramKeys == {"program"} \X ModelKeys \X Nat
Keys == ModelKeys \cup ProgramKeys

EffectRecord ==
    [kind : {"model", "image", "tool"}, started : BOOLEAN,
     name : ToolNames \cup {"conversation", "side", "image"}, parent : Ids,
     next : 1..(MaxOrdinal + 1), tools : SUBSET ToolNames, call : Keys \cup {<<>>}]

CallRecord == [name : ToolNames, state : {"ready", "invalid", "consumed"}]

PartialMaps(S, R) == UNION {[D -> R] : D \in SUBSET S}
EffectMaps == PartialMaps(EffectIds, EffectRecord)
CallMaps == PartialMaps(CallIds, CallRecord)

SourceRecord == [effect : Ids, tools : SUBSET ToolNames, calls : CallMaps]

TurnRecord ==
    [step : BOOLEAN, inputs : BOOLEAN, rejected : BOOLEAN,
     selected : SUBSET ToolNames, app : BOOLEAN, source : SourceRecord,
     effects : EffectMaps, conclusion : {"none", "plain", "structured"},
     cancel : BOOLEAN,
     terminal : {"none", "completed", "failed", "cancelled", "interrupted"},
     result : BOOLEAN]

Types ==
    /\ turn \in TurnRecord
    /\ accepted \in {"plain", "contract", "image"}
    /\ models \subseteq EffectIds
    /\ steps \in Nat

(* A nested call belongs to a coordinator that runs, and what overlaps has   *)
(* been declared to.                                                         *)
Nested(f, x) ==
    LET p == f[x].parent IN
    /\ f[x].kind = "tool" /\ p \in DOMAIN f
    /\ f[p].kind = "tool" /\ f[p].started /\ f[p].parent = NoEffect
    /\ Role[f[p].name] = "coordinator"

SafeIn(f, x) == f[x].kind = "tool" /\ f[x].name \in ParallelSafe

MayOverlap(f, x, y) ==
    \/ SafeIn(f, x) /\ SafeIn(f, y) /\ f[x].parent = f[y].parent
    \/ f[x].parent = y
    \/ f[y].parent = x

EffectsAgree(f) ==
    /\ \A x \in DOMAIN f : f[x].kind = "tool" => f[x].name \in ToolNames
    /\ \A x \in DOMAIN f : f[x].parent # NoEffect => Nested(f, x)
    /\ \A x, y \in DOMAIN f : x # y => MayOverlap(f, x, y)

(* The source of a Turn is a model effect that has settled, or has no calls. *)
SourceIsSettled ==
    LET s == turn.source IN
    /\ s.effect \in models \cup {NoEffect}
    /\ s.effect = NoEffect => s = NoSource
    /\ \A x \in Active(turn) : turn.effects[x].kind = "model" => DOMAIN s.calls = {}

(* What has been used is consumed in its source, or behind the ordinal of    *)
(* its coordinator.                                                          *)
UsesAreConsumed(s, used) ==
    \A m, c : <<"model", m, c>> \in used =>
        /\ m \in models
        /\ m = s.effect => c \in DOMAIN s.calls /\ s.calls[c].state = "consumed"

KeysAgree(f, used) ==
    /\ \A x \in DOMAIN f : f[x].kind = "tool" =>
         /\ f[x].call \in used
         /\ \A o \in Nat : <<"program", f[x].call, o>> \in used => o < f[x].next
         /\ f[x].parent = NoEffect => f[x].call \in ModelKeys
    /\ \A x, y \in DOMAIN f : /\ f[x].kind = "tool" /\ f[y].kind = "tool"
                              /\ f[x].call = f[y].call
                              => x = y

UsesAgree ==
    /\ CallsAreUsedOnce
    /\ DOMAIN uses \subseteq Keys
    /\ \A k, o : <<"program", k, o>> \in DOMAIN uses => k \in DOMAIN uses
    /\ UsesAreConsumed(turn.source, DOMAIN uses)
    /\ KeysAgree(turn.effects, DOMAIN uses)

EndsAgree ==
    /\ turn.conclusion # "none" =>
         NoActiveEffect(turn) /\ (turn.conclusion = "structured" <=> contract)
    /\ ~Open(turn) => NoActiveEffect(turn)
    /\ turn.terminal = "completed" /\ contract => turn.result

Inv ==
    /\ Types
    /\ EffectsAgree(turn.effects)
    /\ SourceIsSettled
    /\ UsesAgree
    /\ EndsAgree

-----------------------------------------------------------------------------
(* Partial maps and the transformers of a TurnControl.                      *)

Put(f, e, r) == [x \in DOMAIN f \cup {e} |-> IF x = e THEN r ELSE f[x]]
Drop(f, D) == [x \in DOMAIN f \ D |-> f[x]]

LEMMA MapMembers ==
    ASSUME NEW S, NEW R, NEW f \in PartialMaps(S, R)
    PROVE  /\ DOMAIN f \subseteq S
           /\ \A x \in DOMAIN f : f[x] \in R
           /\ f \in [DOMAIN f -> R]
  BY DEF PartialMaps

LEMMA MapMake ==
    ASSUME NEW S, NEW R, NEW D \in SUBSET S, NEW f \in [D -> R]
    PROVE  f \in PartialMaps(S, R) /\ DOMAIN f = D
  BY DEF PartialMaps

LEMMA EmptyMap ==
    ASSUME NEW S, NEW R
    PROVE  <<>> \in PartialMaps(S, R) /\ DOMAIN <<>> = {}
  <1>1. <<>> \in [{} -> R]
    OBVIOUS
  <1> QED
    BY <1>1, MapMake

LEMMA PutMap ==
    ASSUME NEW S, NEW R, NEW f \in PartialMaps(S, R), NEW e \in S, NEW r \in R
    PROVE  /\ Put(f, e, r) \in PartialMaps(S, R)
           /\ DOMAIN Put(f, e, r) = DOMAIN f \cup {e}
           /\ Put(f, e, r)[e] = r
           /\ \A x \in DOMAIN f \ {e} : Put(f, e, r)[x] = f[x]
  <1>1. Put(f, e, r) \in [DOMAIN f \cup {e} -> R]
    BY MapMembers DEF Put
  <1>2. DOMAIN f \cup {e} \in SUBSET S
    BY MapMembers
  <1> QED
    BY <1>1, <1>2, MapMake DEF Put

LEMMA DropMap ==
    ASSUME NEW S, NEW R, NEW f \in PartialMaps(S, R), NEW D
    PROVE  /\ Drop(f, D) \in PartialMaps(S, R)
           /\ DOMAIN Drop(f, D) = DOMAIN f \ D
           /\ \A x \in DOMAIN f \ D : Drop(f, D)[x] = f[x]
  <1>1. Drop(f, D) \in [DOMAIN f \ D -> R]
    BY MapMembers DEF Drop
  <1>2. DOMAIN f \ D \in SUBSET S
    BY MapMembers
  <1> QED
    BY <1>1, <1>2, MapMake DEF Drop

LEMMA ExceptMap ==
    ASSUME NEW S, NEW R, NEW f \in PartialMaps(S, R), NEW e \in DOMAIN f, NEW r \in R
    PROVE  /\ [f EXCEPT ![e] = r] \in PartialMaps(S, R)
           /\ DOMAIN [f EXCEPT ![e] = r] = DOMAIN f
           /\ [f EXCEPT ![e] = r][e] = r
           /\ \A x \in DOMAIN f \ {e} : [f EXCEPT ![e] = r][x] = f[x]
  <1>1. [f EXCEPT ![e] = r] \in [DOMAIN f -> R]
    BY MapMembers
  <1>2. DOMAIN f \in SUBSET S
    BY MapMembers
  <1> QED
    BY <1>1, <1>2, MapMake

LEMMA EffectMembers ==
    ASSUME NEW f \in EffectMaps
    PROVE  DOMAIN f \subseteq EffectIds /\ \A x \in DOMAIN f : f[x] \in EffectRecord
  <1> HIDE DEF EffectRecord
  <1> QED
    BY MapMembers DEF EffectMaps

Puts(f, g, e, r) ==
    /\ e \notin DOMAIN f
    /\ DOMAIN g = DOMAIN f \cup {e} /\ g[e] = r
    /\ \A x \in DOMAIN f : g[x] = f[x]

Drops(f, g, D) == DOMAIN g = DOMAIN f \ D /\ \A x \in DOMAIN f \ D : g[x] = f[x]

Changes(f, g, e, r) ==
    /\ e \in DOMAIN f
    /\ DOMAIN g = DOMAIN f /\ g[e] = r
    /\ \A x \in DOMAIN f \ {e} : g[x] = f[x]

LEMMA EffectPut ==
    ASSUME NEW f \in EffectMaps, NEW e \in EffectIds, e \notin DOMAIN f,
           NEW r \in EffectRecord
    PROVE  Put(f, e, r) \in EffectMaps /\ Puts(f, Put(f, e, r), e, r)
  BY PutMap DEF EffectMaps, Puts

LEMMA EffectDrop ==
    ASSUME NEW f \in EffectMaps, NEW D
    PROVE  Drop(f, D) \in EffectMaps /\ Drops(f, Drop(f, D), D)
  BY DropMap DEF EffectMaps, Drops

LEMMA EffectExcept ==
    ASSUME NEW f \in EffectMaps, NEW e \in DOMAIN f, NEW r \in EffectRecord
    PROVE  /\ [f EXCEPT ![e] = r] \in EffectMaps
           /\ Changes(f, [f EXCEPT ![e] = r], e, r)
  BY ExceptMap DEF EffectMaps, Changes

(* The fields an executor Fact leaves alone.                                 *)
Ends(t, u) ==
    u.conclusion = t.conclusion /\ u.terminal = t.terminal /\ u.result = t.result

LEMMA TurnFields ==
    ASSUME NEW t \in TurnRecord
    PROVE  t.effects \in EffectMaps /\ t.source \in SourceRecord
  BY DEF TurnRecord

LEMMA SetEffects ==
    ASSUME NEW t \in TurnRecord, NEW f \in EffectMaps
    PROVE  LET u == [t EXCEPT !.effects = f] IN
           /\ u \in TurnRecord /\ u.effects = f /\ u.source = t.source
           /\ Ends(t, u) /\ u.step = t.step
  BY DEF TurnRecord, Ends

LEMMA SetSource ==
    ASSUME NEW t \in TurnRecord, NEW s \in SourceRecord
    PROVE  LET u == [t EXCEPT !.source = s] IN
           /\ u \in TurnRecord /\ u.effects = t.effects /\ u.source = s
           /\ Ends(t, u) /\ u.step = t.step
  BY DEF TurnRecord, Ends

LEMMA WithFields ==
    ASSUME NEW t \in TurnRecord, NEW e \in EffectIds, NEW r \in EffectRecord
    PROVE  LET u == With(t, e, r) IN
           /\ u \in TurnRecord /\ u.effects = Put(t.effects, e, r)
           /\ u.source = t.source /\ Ends(t, u)
  <1>1. Put(t.effects, e, r) \in EffectMaps
    BY TurnFields, PutMap DEF EffectMaps
  <1>2. With(t, e, r) = [t EXCEPT !.effects = Put(t.effects, e, r)]
    BY DEF With, Put, Active
  <1> QED
    BY <1>1, <1>2, SetEffects

LEMMA LessFields ==
    ASSUME NEW t \in TurnRecord, NEW e
    PROVE  LET u == Less(t, e) IN
           /\ u \in TurnRecord /\ u.effects = Drop(t.effects, {e})
           /\ u.source = t.source /\ Ends(t, u)
  <1>1. Drop(t.effects, {e}) \in EffectMaps
    BY TurnFields, EffectDrop
  <1>2. Less(t, e) = [t EXCEPT !.effects = Drop(t.effects, {e})]
    BY DEF Less, Drop, Active
  <1> QED
    BY <1>1, <1>2, SetEffects

NoSourceFacts == NoSource \in SourceRecord /\ NoSource.effect = NoEffect
                   /\ DOMAIN NoSource.calls = {}

LEMMA NoSourceIsEmpty == NoSourceFacts
  BY EmptyMap DEF NoSourceFacts, NoSource, SourceRecord, CallMaps, Ids

LEMMA ConsumeFields ==
    ASSUME NEW t \in TurnRecord, NEW c \in DOMAIN t.source.calls
    PROVE  LET u == Consume(t, c) IN
           /\ u \in TurnRecord /\ u.effects = t.effects /\ Ends(t, u)
           /\ u.source.effect = t.source.effect /\ u.source.tools = t.source.tools
           /\ DOMAIN u.source.calls = DOMAIN t.source.calls
           /\ u.source.calls[c].state = "consumed"
           /\ \A d \in DOMAIN t.source.calls \ {c} :
                u.source.calls[d] = t.source.calls[d]
  <1> DEFINE s == t.source
             q == [s.calls[c] EXCEPT !.state = "consumed"]
             g == [s.calls EXCEPT ![c] = q]
             v == [s EXCEPT !.calls = g]
  <1>1. s \in SourceRecord /\ s.calls \in CallMaps /\ s.calls[c] \in CallRecord
    <2>1. s \in SourceRecord
      BY TurnFields
    <2>2. s.calls \in CallMaps
      BY <2>1 DEF SourceRecord
    <2> QED
      BY <2>1, <2>2, MapMembers DEF CallMaps
  <1>2. q \in CallRecord /\ q.state = "consumed"
    BY <1>1 DEF CallRecord
  <1> HIDE DEF q
  <1>3. /\ g \in CallMaps /\ DOMAIN g = DOMAIN s.calls /\ g[c] = q
        /\ \A d \in DOMAIN s.calls \ {c} : g[d] = s.calls[d]
    BY <1>1, <1>2, ExceptMap DEF CallMaps
  <1>4. Consume(t, c) = [t EXCEPT !.source = v]
    BY DEF Consume, q
  <1> HIDE DEF g, s
  <1>5. v \in SourceRecord /\ v.effect = s.effect /\ v.tools = s.tools /\ v.calls = g
    BY <1>1, <1>3 DEF SourceRecord
  <1> HIDE DEF v
  <1>6. LET u == Consume(t, c) IN
        u \in TurnRecord /\ u.effects = t.effects /\ Ends(t, u) /\ u.source = v
    BY <1>4, <1>5, SetSource
  <1> QED
    BY <1>2, <1>3, <1>5, <1>6 DEF s

LEMMA NextOrdinalFields ==
    ASSUME NEW t \in TurnRecord, NEW p \in Active(t), t.effects[p].next <= MaxOrdinal,
           MaxOrdinal \in Nat
    PROVE  LET u == NextOrdinal(t, p)
               r == [t.effects[p] EXCEPT !.next = @ + 1] IN
           /\ u \in TurnRecord /\ u.effects = [t.effects EXCEPT ![p] = r]
           /\ r \in EffectRecord
           /\ u.source = t.source /\ Ends(t, u)
  <1> DEFINE r == [t.effects[p] EXCEPT !.next = @ + 1]
  <1>1. t.effects \in EffectMaps /\ p \in DOMAIN t.effects
    BY TurnFields DEF Active
  <1>2. t.effects[p] \in EffectRecord
    BY <1>1, EffectMembers
  <1>3. r \in EffectRecord
    BY <1>2 DEF EffectRecord
  <1>4. NextOrdinal(t, p) = [t EXCEPT !.effects = [t.effects EXCEPT ![p] = r]]
    BY DEF NextOrdinal
  <1> HIDE DEF r
  <1>5. [t.effects EXCEPT ![p] = r] \in EffectMaps
    BY <1>1, <1>3, EffectExcept
  <1>6. LET u == NextOrdinal(t, p) IN
        /\ u \in TurnRecord /\ u.effects = [t.effects EXCEPT ![p] = r]
        /\ u.source = t.source /\ Ends(t, u)
    BY <1>4, <1>5, SetEffects
  <1> QED
    BY <1>3, <1>6 DEF r

-----------------------------------------------------------------------------
(* Effects that come, change and go.                                        *)

LEMMA PutAgrees ==
    ASSUME NEW f \in EffectMaps, EffectsAgree(f),
           NEW e, NEW r, NEW g, Puts(f, g, e, r),
           r.kind = "tool" => r.name \in ToolNames,
           r.parent # NoEffect =>
               LET p == r.parent IN
               /\ r.kind = "tool" /\ p \in DOMAIN f
               /\ f[p].kind = "tool" /\ f[p].started /\ f[p].parent = NoEffect
               /\ Role[f[p].name] = "coordinator",
           \A x \in DOMAIN f :
               \/ /\ SafeIn(f, x) /\ r.kind = "tool" /\ r.name \in ParallelSafe
                  /\ f[x].parent = r.parent
               \/ r.parent = x
    PROVE  EffectsAgree(g)
  <1>1. /\ DOMAIN g = DOMAIN f \cup {e} /\ g[e] = r
        /\ \A x \in DOMAIN f : g[x] = f[x]
    BY DEF Puts
  <1>2. \A x \in DOMAIN g : g[x].kind = "tool" => g[x].name \in ToolNames
    BY <1>1 DEF EffectsAgree
  <1>3. \A x \in DOMAIN g : g[x].parent # NoEffect => Nested(g, x)
    BY <1>1 DEF EffectsAgree, Nested
  <1>4. \A x, y \in DOMAIN g : x # y => MayOverlap(g, x, y)
    BY <1>1 DEF EffectsAgree, MayOverlap, SafeIn
  <1> QED
    BY <1>2, <1>3, <1>4 DEF EffectsAgree

LEMMA DropAgrees ==
    ASSUME NEW f \in EffectMaps, EffectsAgree(f), NEW D, NEW g, Drops(f, g, D),
           \A x \in DOMAIN f \ D : f[x].parent \notin D \/ f[x].parent = NoEffect
    PROVE  EffectsAgree(g)
  <1>1. DOMAIN g = DOMAIN f \ D /\ \A x \in DOMAIN f \ D : g[x] = f[x]
    BY DEF Drops
  <1>2. \A x \in DOMAIN g : g[x].kind = "tool" => g[x].name \in ToolNames
    BY <1>1 DEF EffectsAgree
  <1>3. \A x \in DOMAIN g : g[x].parent # NoEffect => Nested(g, x)
    BY <1>1 DEF EffectsAgree, Nested
  <1>4. \A x, y \in DOMAIN g : x # y => MayOverlap(g, x, y)
    BY <1>1 DEF EffectsAgree, MayOverlap, SafeIn
  <1> QED
    BY <1>2, <1>3, <1>4 DEF EffectsAgree

(* An update that keeps what an effect is.                                   *)
SameEffect(r, s) ==
    /\ s.kind = r.kind /\ s.name = r.name /\ s.parent = r.parent /\ s.call = r.call
    /\ r.started => s.started
    /\ r.next <= s.next

LEMMA UpdateAgrees ==
    ASSUME NEW f \in EffectMaps, EffectsAgree(f), NEW e, NEW r \in EffectRecord,
           NEW g, Changes(f, g, e, r), SameEffect(f[e], r)
    PROVE  EffectsAgree(g)
  <1>1. /\ DOMAIN g = DOMAIN f
        /\ \A x \in DOMAIN f :
             /\ g[x].kind = f[x].kind /\ g[x].name = f[x].name
             /\ g[x].parent = f[x].parent /\ (f[x].started => g[x].started)
    BY DEF Changes, SameEffect
  <1>2. \A x \in DOMAIN g : g[x].kind = "tool" => g[x].name \in ToolNames
    BY <1>1 DEF EffectsAgree
  <1>3. \A x \in DOMAIN g : g[x].parent # NoEffect => Nested(g, x)
    BY <1>1 DEF EffectsAgree, Nested
  <1>4. \A x, y \in DOMAIN g : x # y => MayOverlap(g, x, y)
    BY <1>1 DEF EffectsAgree, MayOverlap, SafeIn
  <1> QED
    BY <1>2, <1>3, <1>4 DEF EffectsAgree

(* A used call of an effect that runs.                                       *)
LEMMA UseKeys ==
    ASSUME NEW f, NEW used, KeysAgree(f, used), NEW k,
           \A x \in DOMAIN f, o \in Nat :
               f[x].kind = "tool" /\ k = <<"program", f[x].call, o>> => o < f[x].next
    PROVE  KeysAgree(f, used \cup {k})
  BY DEF KeysAgree

LEMMA PutKeys ==
    ASSUME NEW f \in EffectMaps, NEW used, KeysAgree(f, used),
           \A k, o : <<"program", k, o>> \in used => k \in used,
           NEW e, NEW r, NEW g, Puts(f, g, e, r),
           r.kind = "tool" =>
               /\ r.call \notin used
               /\ r.parent = NoEffect => r.call \in ModelKeys
               /\ \A x \in DOMAIN f, o \in Nat :
                    f[x].kind = "tool" /\ r.call = <<"program", f[x].call, o>>
                      => o < f[x].next
               /\ \A o \in Nat : r.call # <<"program", r.call, o>>
    PROVE  KeysAgree(g, IF r.kind = "tool" THEN used \cup {r.call} ELSE used)
  <1>1. /\ DOMAIN g = DOMAIN f \cup {e} /\ g[e] = r
        /\ \A x \in DOMAIN f : g[x] = f[x]
    BY DEF Puts
  <1>2. CASE r.kind # "tool"
    <2>1. KeysAgree(g, used)
      BY <1>1, <1>2 DEF KeysAgree
    <2> QED
      BY <1>2, <2>1
  <1>3. CASE r.kind = "tool"
    <2> DEFINE more == used \cup {r.call}
    <2>1. KeysAgree(f, more)
      BY <1>3, UseKeys
    <2>2. \A x \in DOMAIN f : f[x].kind = "tool" => f[x].call # r.call
      BY <1>3 DEF KeysAgree
    <2>3. \A o \in Nat : <<"program", r.call, o>> \notin more
      BY <1>3
    <2> HIDE DEF more
    <2>4. r.call \in more
      BY DEF more
    <2>5. KeysAgree(g, more)
      BY <1>1, <1>3, <2>1, <2>2, <2>3, <2>4 DEF KeysAgree
    <2> QED
      BY <1>3, <2>5 DEF more
  <1> QED
    BY <1>2, <1>3

LEMMA DropKeys ==
    ASSUME NEW f \in EffectMaps, NEW used, KeysAgree(f, used), NEW D,
           NEW g, Drops(f, g, D)
    PROVE  KeysAgree(g, used)
  <1>1. DOMAIN g = DOMAIN f \ D /\ \A x \in DOMAIN f \ D : g[x] = f[x]
    BY DEF Drops
  <1> QED
    BY <1>1 DEF KeysAgree

LEMMA UpdateKeys ==
    ASSUME NEW f \in EffectMaps, NEW used, KeysAgree(f, used), NEW e, NEW r \in EffectRecord,
           NEW g, Changes(f, g, e, r), SameEffect(f[e], r), MaxOrdinal \in Nat
    PROVE  KeysAgree(g, used)
  <1>1. /\ DOMAIN g = DOMAIN f
        /\ \A x \in DOMAIN f :
             /\ g[x].kind = f[x].kind /\ g[x].call = f[x].call
             /\ g[x].parent = f[x].parent /\ f[x].next <= g[x].next
             /\ f[x].next \in Nat /\ g[x].next \in Nat
    <2>1. \A x \in DOMAIN f : f[x].next \in Nat
      BY EffectMembers DEF EffectRecord
    <2>2. r.next \in Nat
      BY DEF EffectRecord
    <2> QED
      BY <2>1, <2>2 DEF Changes, SameEffect
  <1> QED
    BY <1>1 DEF KeysAgree

-----------------------------------------------------------------------------
(* One lemma for each way a Fact changes the Turn.                          *)

LEMMA FactsConstants ==
    /\ NoEffect \notin EffectIds /\ MaxOrdinal \in Nat
    /\ ApplicationTools \cap ParallelSafe = {}
    /\ \A n \in ApplicationTools : n \in ToolNames /\ Role[n] = "unavailable"
  BY FactsAssumption

LEMMA ContractStays ==
    ASSUME accepted' = accepted
    PROVE  contract' <=> contract
  BY DEF contract

(* The effects, the ends and the uses stay; the source stays or is forgotten. *)
LEMMA QuietFact ==
    ASSUME Inv, turn' \in TurnRecord, turn'.effects = turn.effects,
           Ends(turn, turn'), turn'.source \in {turn.source, NoSource},
           UNCHANGED <<accepted, models, uses>>, steps' \in Nat
    PROVE  Inv'
  <1> USE DEF Inv
  <1>1. Types'
    BY DEF Types
  <1>2. EffectsAgree(turn'.effects)
    OBVIOUS
  <1>3. SourceIsSettled'
    BY NoSourceIsEmpty DEF SourceIsSettled, Active, NoSourceFacts
  <1>4. UsesAreConsumed(turn'.source, DOMAIN uses)
    BY NoSourceIsEmpty, FactsConstants
    DEF UsesAgree, UsesAreConsumed, NoSourceFacts, Types
  <1>5. UsesAgree'
    BY <1>4 DEF UsesAgree, UsesAreConsumed, CallsAreUsedOnce
  <1>6. EndsAgree'
    BY ContractStays DEF EndsAgree, Ends, Open, NoActiveEffect, Active
  <1> QED
    BY <1>1, <1>2, <1>3, <1>5, <1>6

(* An effect changes without becoming another one.                           *)
LEMMA ChangeFact ==
    ASSUME Inv, turn' \in TurnRecord, NEW e, NEW r \in EffectRecord,
           Changes(turn.effects, turn'.effects, e, r),
           SameEffect(turn.effects[e], r), Ends(turn, turn'),
           turn'.source = turn.source, UNCHANGED <<accepted, models, steps, uses>>
    PROVE  Inv'
  <1> USE DEF Inv
  <1>0. turn.effects \in EffectMaps
    BY TurnFields DEF Types
  <1>1. Types'
    BY DEF Types
  <1>2. EffectsAgree(turn'.effects)
    BY <1>0, UpdateAgrees
  <1>3. SourceIsSettled'
    BY DEF SourceIsSettled, Active, Changes, SameEffect
  <1>4. KeysAgree(turn'.effects, DOMAIN uses)
    BY <1>0, UpdateKeys, FactsConstants DEF UsesAgree
  <1>5. UsesAgree'
    BY <1>4 DEF UsesAgree, UsesAreConsumed, CallsAreUsedOnce
  <1>6. EndsAgree'
    BY ContractStays DEF EndsAgree, Ends, Open, NoActiveEffect, Active, Changes
  <1> QED
    BY <1>1, <1>2, <1>3, <1>5, <1>6

(* A model attempt or an image request is alone.                             *)
LEMMA AttemptFact ==
    ASSUME Inv, Business(turn), NoActiveEffect(turn), turn' \in TurnRecord,
           NEW e \in EffectIds, NEW r \in EffectRecord,
           turn'.effects = Put(turn.effects, e, r), r.parent = NoEffect,
           \/ r.kind = "image" /\ models' = models /\ turn'.source = turn.source
           \/ /\ r.kind = "model" /\ e \notin models /\ models' = models \cup {e}
              /\ \/ turn'.source.effect = e /\ DOMAIN turn'.source.calls = {}
                 \/ turn'.source = NoSource,
           Ends(turn, turn'), UNCHANGED <<accepted, steps, uses>>
    PROVE  Inv'
  <1> USE DEF Inv
  <1>0. /\ turn.effects \in EffectMaps /\ DOMAIN turn.effects = {}
        /\ models \subseteq EffectIds /\ models' \subseteq EffectIds
    BY TurnFields DEF Types, NoActiveEffect, Active
  <1>a. Puts(turn.effects, turn'.effects, e, r)
    BY <1>0, EffectPut
  <1>1. Types'
    BY <1>0 DEF Types
  <1>2. EffectsAgree(turn'.effects)
    BY <1>0, <1>a, PutAgrees
  <1>3. SourceIsSettled'
    BY <1>0, <1>a, FactsConstants, NoSourceIsEmpty
    DEF SourceIsSettled, Active, Puts, NoSourceFacts
  <1>4. KeysAgree(turn'.effects, DOMAIN uses)
    BY <1>0, <1>a, PutKeys DEF UsesAgree
  <1>b. UsesAreConsumed(turn.source, DOMAIN uses)
    BY DEF UsesAgree
  <1>5. UsesAreConsumed(turn.source, DOMAIN uses)'
    BY <1>0, <1>b, FactsConstants, NoSourceIsEmpty DEF UsesAreConsumed, NoSourceFacts
  <1>6. UsesAgree'
    BY <1>4, <1>5 DEF UsesAgree, CallsAreUsedOnce
  <1>7. EndsAgree'
    BY ContractStays DEF EndsAgree, Ends, Open, Business
  <1> QED
    BY <1>1, <1>2, <1>3, <1>6, <1>7

(* A settled attempt leaves a source with fresh calls, or none.              *)
LEMMA SettledFact ==
    ASSUME Inv, Business(turn), turn' \in TurnRecord, NEW e \in Active(turn),
           turn.effects[e].kind = "model",
           turn'.effects = Drop(turn.effects, {e}),
           \/ turn'.source.effect = turn.source.effect /\ turn.source.effect # NoEffect
           \/ turn'.source = NoSource,
           Ends(turn, turn'), UNCHANGED <<accepted, models, steps, uses>>
    PROVE  Inv'
  <1> USE DEF Inv
  <1>0. turn.effects \in EffectMaps /\ models \subseteq EffectIds
    BY TurnFields DEF Types
  <1>a. Drops(turn.effects, turn'.effects, {e})
    BY <1>0, EffectDrop
  <1>b. \A x \in Active(turn) : x = e
    BY <1>0, FactsConstants, EffectMembers
    DEF EffectsAgree, MayOverlap, SafeIn, Active, Nested, EffectRecord, Ids
  <1>c. DOMAIN turn.source.calls = {} /\ DOMAIN turn'.effects = {}
    BY <1>a, <1>b DEF SourceIsSettled, Drops, Active
  <1>1. Types'
    BY DEF Types
  <1>2. EffectsAgree(turn'.effects)
    BY <1>c DEF EffectsAgree
  <1>3. SourceIsSettled'
    BY <1>c, NoSourceIsEmpty DEF SourceIsSettled, Active, NoSourceFacts
  <1>4. KeysAgree(turn'.effects, DOMAIN uses)
    BY <1>c DEF KeysAgree
  <1>d. UsesAreConsumed(turn.source, DOMAIN uses)
    BY DEF UsesAgree
  <1>5. UsesAreConsumed(turn.source, DOMAIN uses)'
    BY <1>0, <1>c, <1>d, FactsConstants, NoSourceIsEmpty DEF UsesAreConsumed, NoSourceFacts
  <1>6. UsesAgree'
    BY <1>4, <1>5 DEF UsesAgree, CallsAreUsedOnce
  <1>7. EndsAgree'
    BY ContractStays DEF EndsAgree, Ends, Open, Business
  <1> QED
    BY <1>1, <1>2, <1>3, <1>6, <1>7

LEMMA UseOnce ==
    ASSUME CallsAreUsedOnce, NEW k, k \notin DOMAIN uses, uses' = BagAdd(uses, k)
    PROVE  CallsAreUsedOnce' /\ DOMAIN uses' = DOMAIN uses \cup {k}
  BY DEF CallsAreUsedOnce, BagAdd

LEMMA EffectIsRecord ==
    ASSUME NEW name \in ToolNames, NEW parent \in Ids, NEW tools \in SUBSET ToolNames,
           NEW call \in Keys
    PROVE  LET r == Effect("tool", name, parent, tools, call) IN
           /\ r \in EffectRecord /\ r.kind = "tool" /\ r.name = name
           /\ r.parent = parent /\ r.call = call /\ r.next = 1
  BY FactsConstants DEF Effect, EffectRecord

(* A call that is still available in its source has not been used.           *)
LEMMA AvailableIsUnused ==
    ASSUME Inv, NEW c \in CallIds, NEW name \in ToolNames, CanConsume(turn, c, name)
    PROVE  LET u == Consume(turn, c)
               k == ModelCall(c) IN
           /\ k \notin DOMAIN uses /\ k \in ModelKeys
           /\ u \in TurnRecord /\ u.effects = turn.effects /\ Ends(turn, u)
           /\ UsesAreConsumed(u.source, DOMAIN uses \cup {k})
           /\ u.source.effect = turn.source.effect
           /\ u.source.effect \in models
           /\ \A x \in Active(turn) : turn.effects[x].kind # "model"
  <1> USE DEF Inv
  <1> DEFINE s == turn.source
             u == Consume(turn, c)
             k == ModelCall(c)
  <1>1. c \in DOMAIN s.calls /\ s.calls[c].state = "ready" /\ turn \in TurnRecord
    BY DEF CanConsume, Types
  <1>2. s.effect \in models /\ s.effect \in EffectIds
    BY <1>1, NoSourceIsEmpty DEF SourceIsSettled, Types, NoSourceFacts
  <1>3. k = <<"model", s.effect, c>> /\ k \in ModelKeys
    BY <1>2 DEF ModelCall, ModelKeys
  <1>4. UsesAreConsumed(s, DOMAIN uses)
    BY DEF UsesAgree
  <1>5. k \notin DOMAIN uses
    BY <1>1, <1>3, <1>4 DEF UsesAreConsumed
  <1>6. /\ u \in TurnRecord /\ u.effects = turn.effects /\ Ends(turn, u)
        /\ u.source.effect = s.effect
        /\ DOMAIN u.source.calls = DOMAIN s.calls
        /\ u.source.calls[c].state = "consumed"
        /\ \A d \in DOMAIN s.calls \ {c} : u.source.calls[d] = s.calls[d]
    BY <1>1, ConsumeFields
  <1>7. \A x \in Active(turn) : turn.effects[x].kind # "model"
    BY <1>1 DEF SourceIsSettled
  <1> HIDE DEF u, k, s
  <1>8. UsesAreConsumed(u.source, DOMAIN uses \cup {k})
    BY <1>1, <1>2, <1>3, <1>4, <1>6 DEF UsesAreConsumed
  <1> QED
    BY <1>2, <1>3, <1>5, <1>6, <1>7, <1>8 DEF u, k, s

LEMMA ProgramClosure ==
    ASSUME NEW used, NEW k, \A i, o : <<"program", i, o>> \in used => i \in used,
           \/ k \in ModelKeys
           \/ \E i \in used : \E o : k = <<"program", i, o>>
    PROVE  \A i, o : <<"program", i, o>> \in used \cup {k} => i \in used \cup {k}
  BY DEF ModelKeys

LEMMA ToolRejectedFact ==
    ASSUME Inv, NEW c \in CallIds, NEW name \in ToolNames, ToolRejected(c, name)
    PROVE  Inv'
  <1> USE DEF Inv
  <1> DEFINE u == Consume(turn, c)
             k == ModelCall(c)
  <1>1. /\ turn' = u /\ uses' = BagAdd(uses, k) /\ CanConsume(turn, c, name)
        /\ UNCHANGED <<accepted, models, steps>> /\ Business(turn)
    BY DEF ToolRejected, Publish
  <1>2. /\ k \notin DOMAIN uses /\ k \in ModelKeys
        /\ u \in TurnRecord /\ u.effects = turn.effects /\ Ends(turn, u)
        /\ UsesAreConsumed(u.source, DOMAIN uses \cup {k})
        /\ u.source.effect = turn.source.effect
        /\ u.source.effect \in models
        /\ \A x \in Active(turn) : turn.effects[x].kind # "model"
    BY <1>1, AvailableIsUnused
  <1> HIDE DEF u, k
  <1>3. Types'
    BY <1>1, <1>2 DEF Types
  <1>4. SourceIsSettled'
    BY <1>1, <1>2, FactsConstants DEF SourceIsSettled, Active, Types
  <1>5. CallsAreUsedOnce' /\ DOMAIN uses' = DOMAIN uses \cup {k}
    BY <1>1, <1>2, UseOnce DEF UsesAgree
  <1>6. KeysAgree(turn.effects, DOMAIN uses \cup {k})
    BY <1>2, UseKeys DEF UsesAgree, ModelKeys
  <1>7. \A i, o : <<"program", i, o>> \in DOMAIN uses' => i \in DOMAIN uses'
    BY <1>2, <1>5, ProgramClosure DEF UsesAgree
  <1>8. UsesAgree'
    BY <1>1, <1>2, <1>5, <1>6, <1>7 DEF UsesAgree, UsesAreConsumed, Keys
  <1>9. EndsAgree'
    BY <1>1, <1>2, ContractStays DEF EndsAgree, Ends, Open, Business
  <1> QED
    BY <1>1, <1>2, <1>3, <1>4, <1>8, <1>9

LEMMA ToolIntentFact ==
    ASSUME Inv, NEW e \in EffectIds, NEW c \in CallIds, NEW name \in ToolNames,
           ToolIntent(e, c, name)
    PROVE  Inv'
  <1> USE DEF Inv
  <1> DEFINE u == Consume(turn, c)
             k == ModelCall(c)
             tools == turn.source.tools
             r == Effect("tool", name, NoEffect, tools, k)
             f == turn.effects
  <1>1. /\ turn' = With(u, e, r) /\ uses' = BagAdd(uses, k)
        /\ CanConsume(turn, c, name) /\ e \notin Active(turn)
        /\ UNCHANGED <<accepted, models, steps>> /\ Business(turn)
    BY DEF ToolIntent, Publish
  <1>2. \A x \in DOMAIN f : /\ SafeIn(f, x) /\ name \in ParallelSafe
                            /\ f[x].parent = NoEffect
    BY DEF ToolIntent, Safe, IsTool, SafeIn, FromModel, Active
  <1>3. /\ k \notin DOMAIN uses /\ k \in ModelKeys
        /\ u \in TurnRecord /\ u.effects = f /\ Ends(turn, u)
        /\ UsesAreConsumed(u.source, DOMAIN uses \cup {k})
        /\ u.source.effect = turn.source.effect
        /\ u.source.effect \in models
        /\ \A x \in Active(turn) : turn.effects[x].kind # "model"
    BY <1>1, AvailableIsUnused
  <1>4. /\ r \in EffectRecord /\ r.kind = "tool" /\ r.name = name
        /\ r.parent = NoEffect /\ r.call = k
    <2>1. tools \in SUBSET ToolNames
      BY TurnFields DEF SourceRecord, Types
    <2> HIDE DEF k, tools
    <2>2. k \in Keys /\ NoEffect \in Ids
      BY <1>3 DEF Keys, Ids
    <2> QED
      BY <2>1, <2>2, EffectIsRecord
  <1> HIDE DEF u, k, tools, r
  <1>5. /\ turn' \in TurnRecord /\ turn'.effects = Put(f, e, r)
        /\ turn'.source = u.source /\ Ends(u, turn')
    BY <1>1, <1>3, <1>4, WithFields
  <1>6. f \in EffectMaps /\ Puts(f, turn'.effects, e, r)
    BY <1>1, <1>4, <1>5, TurnFields, EffectPut DEF Types, Active
  <1> HIDE DEF f
  <1>7. Types'
    BY <1>1, <1>5 DEF Types
  <1>8. EffectsAgree(turn'.effects)
    BY <1>2, <1>4, <1>6, PutAgrees DEF f
  <1>9. SourceIsSettled'
    <2>1. \A x \in Active(turn') : turn'.effects[x].kind # "model"
      BY <1>3, <1>4, <1>6 DEF Active, Puts, f
    <2> QED
      BY <1>1, <1>3, <1>5, <2>1, FactsConstants DEF SourceIsSettled, Types
  <1>10. CallsAreUsedOnce' /\ DOMAIN uses' = DOMAIN uses \cup {k}
    BY <1>1, <1>3, UseOnce DEF UsesAgree
  <1>11. KeysAgree(turn'.effects, DOMAIN uses \cup {k})
    <2>1. KeysAgree(f, DOMAIN uses)
      BY DEF UsesAgree, f
    <2>2. \A i, o : k # <<"program", i, o>>
      BY <1>3 DEF ModelKeys
    <2> QED
      BY <1>3, <1>4, <1>6, <2>1, <2>2, PutKeys DEF UsesAgree
  <1>12. \A i, o : <<"program", i, o>> \in DOMAIN uses' => i \in DOMAIN uses'
    BY <1>3, <1>10, ProgramClosure DEF UsesAgree
  <1>13. UsesAgree'
    BY <1>1, <1>3, <1>5, <1>10, <1>11, <1>12 DEF UsesAgree, UsesAreConsumed, Keys
  <1>14. EndsAgree'
    BY <1>1, <1>3, <1>5, ContractStays DEF EndsAgree, Ends, Open, Business
  <1> QED
    BY <1>7, <1>8, <1>9, <1>13, <1>14

(* The next ordinal of a coordinator has not been used.                      *)
LEMMA OrdinalIsUnused ==
    ASSUME Inv, NEW p \in EffectIds, NEW ordinal \in 1..MaxOrdinal, NEW name, NEW safe,
           ProgramOriginAdmitted(turn, p, ordinal, name, safe)
    PROVE  LET u == NextOrdinal(turn, p)
               k == ProgramCall(p, ordinal)
               f == turn.effects
               g == u.effects IN
           /\ p \in DOMAIN f /\ f[p].kind = "tool" /\ f[p].started
           /\ f[p].parent = NoEffect /\ f[p].call \in DOMAIN uses
           /\ k \notin DOMAIN uses /\ k \in ProgramKeys /\ k = <<"program", f[p].call, ordinal>>
           /\ u \in TurnRecord /\ u.source = turn.source /\ Ends(turn, u)
           /\ g \in EffectMaps /\ DOMAIN g = DOMAIN f
           /\ \A x \in DOMAIN f :
                /\ g[x].kind = f[x].kind /\ g[x].name = f[x].name
                /\ g[x].parent = f[x].parent /\ g[x].call = f[x].call
                /\ f[x].started => g[x].started
           /\ EffectsAgree(g) /\ KeysAgree(g, DOMAIN uses)
           /\ \A x \in DOMAIN g, o \in Nat :
                g[x].kind = "tool" /\ k = <<"program", g[x].call, o>> => o < g[x].next
  <1> USE DEF Inv
  <1> DEFINE u == NextOrdinal(turn, p)
             k == ProgramCall(p, ordinal)
             f == turn.effects
             r == [f[p] EXCEPT !.next = @ + 1]
             g == u.effects
  <1>1. /\ p \in DOMAIN f /\ f[p].kind = "tool" /\ f[p].started
        /\ f[p].parent = NoEffect /\ ordinal = f[p].next
    BY DEF ProgramOriginAdmitted, StartedTool, IsTool, FromModel, Active
  <1>2. turn \in TurnRecord /\ f \in EffectMaps /\ f[p] \in EffectRecord
    BY <1>1, TurnFields, EffectMembers DEF Types
  <1>3. /\ u \in TurnRecord /\ g = [f EXCEPT ![p] = r] /\ r \in EffectRecord
        /\ u.source = turn.source /\ Ends(turn, u)
    <2>1. p \in Active(turn) /\ turn.effects[p].next <= MaxOrdinal
      BY <1>1, FactsConstants DEF Active
    <2> QED
      BY <1>2, <2>1, FactsConstants, NextOrdinalFields
  <1>4. SameEffect(f[p], r) /\ r.next = ordinal + 1
    BY <1>1, <1>2 DEF SameEffect, EffectRecord
  <1>5. k = <<"program", f[p].call, ordinal>>
    BY DEF ProgramCall
  <1>6. KeysAgree(f, DOMAIN uses) /\ EffectsAgree(f)
    BY DEF UsesAgree
  <1> HIDE DEF r, f
  <1>7. g \in EffectMaps /\ Changes(f, g, p, r)
    BY <1>1, <1>2, <1>3, EffectExcept
  <1> HIDE DEF u, k, g
  <1>8. f[p].call \in DOMAIN uses /\ f[p].call \in ModelKeys
    BY <1>1, <1>6 DEF KeysAgree
  <1>9. k \notin DOMAIN uses
    BY <1>1, <1>5, <1>6 DEF KeysAgree
  <1>10. k \in ProgramKeys
    BY <1>5, <1>8 DEF ProgramKeys
  <1>11. EffectsAgree(g)
    BY <1>2, <1>3, <1>4, <1>6, <1>7, UpdateAgrees
  <1>12. KeysAgree(g, DOMAIN uses)
    BY <1>2, <1>3, <1>4, <1>6, <1>7, UpdateKeys, FactsConstants
  <1>13. /\ DOMAIN g = DOMAIN f
         /\ \A x \in DOMAIN f :
             /\ g[x].kind = f[x].kind /\ g[x].name = f[x].name
             /\ g[x].parent = f[x].parent /\ g[x].call = f[x].call
             /\ f[x].started => g[x].started
    BY <1>4, <1>7 DEF Changes, SameEffect
  <1>14. ASSUME NEW x \in DOMAIN g, NEW o \in Nat, g[x].kind = "tool",
                k = <<"program", g[x].call, o>>
         PROVE  o < g[x].next
    <2>1. o = ordinal /\ g[x].call = f[p].call
      BY <1>5, <1>14
    <2>2. x = p
      BY <1>1, <1>6, <1>13, <1>14, <2>1 DEF KeysAgree
    <2>3. g[x].next = ordinal + 1
      BY <1>4, <1>7, <2>2 DEF Changes
    <2> QED
      BY <2>1, <2>3
  <1> QED
    BY <1>1, <1>3, <1>5, <1>7, <1>8, <1>9, <1>10, <1>11, <1>12, <1>13, <1>14
    DEF u, k, f, g

LEMMA ProgramUse ==
    ASSUME Inv, NEW p, NEW k \in ProgramKeys, NEW o, k = <<"program", p, o>>,
           p \in DOMAIN uses, k \notin DOMAIN uses, uses' = BagAdd(uses, k),
           UNCHANGED models, turn'.source = turn.source,
           KeysAgree(turn'.effects, DOMAIN uses \cup {k})
    PROVE  UsesAgree'
  <1> USE DEF Inv
  <1>1. CallsAreUsedOnce' /\ DOMAIN uses' = DOMAIN uses \cup {k}
    BY UseOnce DEF UsesAgree
  <1>2. \A i, j : <<"program", i, j>> \in DOMAIN uses' => i \in DOMAIN uses'
    BY <1>1, ProgramClosure DEF UsesAgree
  <1>3. UsesAreConsumed(turn.source, DOMAIN uses)
    BY DEF UsesAgree
  <1>4. UsesAreConsumed(turn.source, DOMAIN uses)'
    BY <1>1, <1>3 DEF UsesAreConsumed
  <1>5. DOMAIN uses' \subseteq Keys
    BY <1>1 DEF UsesAgree, Keys
  <1> QED
    BY <1>1, <1>2, <1>4, <1>5 DEF UsesAgree

LEMMA ProgramToolRejectedFact ==
    ASSUME Inv, NEW p \in EffectIds, NEW ordinal \in 1..MaxOrdinal, NEW name,
           ProgramToolRejected(p, ordinal, name)
    PROVE  Inv'
  <1> USE DEF Inv
  <1> DEFINE k == ProgramCall(p, ordinal)
             f == turn.effects
             g == turn'.effects
  <1>1. /\ ProgramOriginAdmitted(turn, p, ordinal, name, FALSE)
        /\ turn' = NextOrdinal(turn, p) /\ uses' = BagAdd(uses, k)
        /\ UNCHANGED <<accepted, models, steps>> /\ Business(turn)
    BY DEF ProgramToolRejected, Publish
  <1>2. /\ p \in DOMAIN f /\ f[p].call \in DOMAIN uses
        /\ k \notin DOMAIN uses /\ k \in ProgramKeys /\ k = <<"program", f[p].call, ordinal>>
        /\ turn' \in TurnRecord /\ turn'.source = turn.source /\ Ends(turn, turn')
        /\ g \in EffectMaps /\ DOMAIN g = DOMAIN f
        /\ \A x \in DOMAIN f : g[x].kind = f[x].kind
        /\ EffectsAgree(g) /\ KeysAgree(g, DOMAIN uses)
        /\ \A x \in DOMAIN g, o \in Nat :
             g[x].kind = "tool" /\ k = <<"program", g[x].call, o>> => o < g[x].next
    BY <1>1, OrdinalIsUnused
  <1> HIDE DEF k, f, g
  <1>3. KeysAgree(g, DOMAIN uses \cup {k})
    BY <1>2, UseKeys
  <1>4. UsesAgree'
    BY <1>1, <1>2, <1>3, ProgramUse DEF g
  <1>5. Types'
    BY <1>1, <1>2 DEF Types
  <1>6. SourceIsSettled'
    BY <1>1, <1>2 DEF SourceIsSettled, Active, f, g
  <1>7. EndsAgree'
    BY <1>1, <1>2, ContractStays DEF EndsAgree, Ends, Open, Business
  <1> QED
    BY <1>2, <1>4, <1>5, <1>6, <1>7 DEF g

LEMMA ProgramToolIntentFact ==
    ASSUME Inv, NEW e \in EffectIds, NEW p \in EffectIds, NEW ordinal \in 1..MaxOrdinal,
           NEW name \in ToolNames, ProgramToolIntent(e, p, ordinal, name)
    PROVE  Inv'
  <1> USE DEF Inv
  <1> DEFINE u == NextOrdinal(turn, p)
             k == ProgramCall(p, ordinal)
             f == turn.effects
             g == u.effects
             tools == f[p].tools
             r == Effect("tool", name, p, tools, k)
  <1>1. /\ ProgramOriginAdmitted(turn, p, ordinal, name, name \in ParallelSafe)
        /\ turn' = With(u, e, r) /\ uses' = BagAdd(uses, k) /\ e \notin DOMAIN f
        /\ UNCHANGED <<accepted, models, steps>> /\ Business(turn)
    BY DEF ProgramToolIntent, Publish, Active
  <1>2. /\ p \in DOMAIN f /\ f[p].kind = "tool" /\ f[p].started
        /\ f[p].parent = NoEffect /\ f[p].call \in DOMAIN uses
        /\ k \notin DOMAIN uses /\ k \in ProgramKeys /\ k = <<"program", f[p].call, ordinal>>
        /\ u \in TurnRecord /\ u.source = turn.source /\ Ends(turn, u)
        /\ g \in EffectMaps /\ DOMAIN g = DOMAIN f
        /\ \A x \in DOMAIN f :
             /\ g[x].kind = f[x].kind /\ g[x].name = f[x].name
             /\ g[x].parent = f[x].parent /\ g[x].call = f[x].call
             /\ f[x].started => g[x].started
        /\ EffectsAgree(g) /\ KeysAgree(g, DOMAIN uses)
        /\ \A x \in DOMAIN g, o \in Nat :
             g[x].kind = "tool" /\ k = <<"program", g[x].call, o>> => o < g[x].next
    BY <1>1, OrdinalIsUnused
  <1>3. /\ Role[f[p].name] = "coordinator"
        /\ \A x \in DOMAIN f \ {p} : /\ SafeIn(f, x) /\ name \in ParallelSafe
                                     /\ f[x].parent = p
    BY <1>1 DEF ProgramOriginAdmitted, Safe, IsTool, SafeIn, Active
  <1>4. /\ r \in EffectRecord /\ r.kind = "tool" /\ r.name = name
        /\ r.parent = p /\ r.call = k
    <2>1. tools \in SUBSET ToolNames
      <3>1. f[p] \in EffectRecord
        BY <1>2, TurnFields, EffectMembers DEF Types
      <3> QED
        BY <3>1 DEF EffectRecord
    <2> HIDE DEF k, tools
    <2>2. k \in Keys /\ p \in Ids
      BY <1>2 DEF Keys, Ids
    <2> QED
      BY <2>1, <2>2, EffectIsRecord
  <1>5. p # NoEffect
    BY FactsConstants
  <1> HIDE DEF u, k, f, g, tools, r
  <1>6. /\ turn' \in TurnRecord /\ turn'.effects = Put(g, e, r)
        /\ turn'.source = turn.source /\ Ends(u, turn')
    BY <1>1, <1>2, <1>4, WithFields DEF g
  <1>7. Puts(g, turn'.effects, e, r)
    BY <1>1, <1>2, <1>4, <1>6, EffectPut
  <1>8. EffectsAgree(turn'.effects)
    <2>1. /\ p \in DOMAIN g /\ g[p].kind = "tool" /\ g[p].started
          /\ g[p].parent = NoEffect /\ Role[g[p].name] = "coordinator"
      BY <1>2, <1>3
    <2>2. \A x \in DOMAIN g :
            \/ /\ SafeIn(g, x) /\ r.kind = "tool" /\ r.name \in ParallelSafe
               /\ g[x].parent = r.parent
            \/ r.parent = x
      BY <1>2, <1>3, <1>4 DEF SafeIn
    <2> QED
      BY <1>2, <1>4, <1>7, <2>1, <2>2, PutAgrees
  <1>9. KeysAgree(turn'.effects, DOMAIN uses \cup {k})
    <2>1. \A i, o : <<"program", i, o>> \in DOMAIN uses => i \in DOMAIN uses
      BY DEF UsesAgree
    <2>2. \A o : k # <<"program", k, o>>
      BY <1>2
    <2> DEFINE used == DOMAIN uses
    <2>3. /\ r.call \notin used
          /\ r.parent = NoEffect => r.call \in ModelKeys
          /\ \A x \in DOMAIN g, o \in Nat :
               g[x].kind = "tool" /\ r.call = <<"program", g[x].call, o>> => o < g[x].next
          /\ \A o \in Nat : r.call # <<"program", r.call, o>>
      BY <1>2, <1>4, <1>5, <2>2
    <2>4. g \in EffectMaps /\ KeysAgree(g, used)
      BY <1>2
    <2> HIDE DEF used
    <2>5. KeysAgree(turn'.effects, IF r.kind = "tool" THEN used \cup {r.call} ELSE used)
      BY <1>7, <2>1, <2>3, <2>4, PutKeys DEF used
    <2> QED
      BY <1>4, <2>5 DEF used
  <1>10. UsesAgree'
    BY <1>1, <1>2, <1>6, <1>9, ProgramUse
  <1>11. Types'
    BY <1>1, <1>6 DEF Types
  <1>12. SourceIsSettled'
    <2>1. DOMAIN turn.source.calls # {} => \A x \in Active(turn') : turn'.effects[x].kind # "model"
      BY <1>2, <1>4, <1>7 DEF SourceIsSettled, Active, Puts, f
    <2> QED
      BY <1>1, <1>6, <2>1 DEF SourceIsSettled
  <1>13. EndsAgree'
    BY <1>1, <1>2, <1>6, ContractStays DEF EndsAgree, Ends, Open, Business
  <1> QED
    BY <1>8, <1>10, <1>11, <1>12, <1>13

LEMMA ToolResultFact ==
    ASSUME Inv, NEW e \in EffectIds, NEW conclusion \in {"none", "plain", "structured"},
           ToolResult(e, conclusion)
    PROVE  Inv'
  <1> USE DEF Inv
  <1> DEFINE u == Less(turn, e)
             f == turn.effects
             g == turn'.effects
  <1>1. /\ Business(turn) /\ CanSettle(turn, e) /\ ConclusionAdmitted(turn, e, conclusion)
        /\ turn' = [u EXCEPT !.conclusion = conclusion]
        /\ UNCHANGED <<accepted, models, steps, uses>>
    BY DEF ToolResult, Publish
  <1>2. turn \in TurnRecord /\ f \in EffectMaps
    BY TurnFields DEF Types
  <1>3. u \in TurnRecord /\ u.effects = Drop(f, {e}) /\ u.source = turn.source /\ Ends(turn, u)
    BY <1>2, LessFields
  <1>4. /\ turn' \in TurnRecord /\ g = u.effects /\ turn'.source = u.source
        /\ turn'.conclusion = conclusion /\ turn'.terminal = u.terminal
        /\ turn'.result = u.result
    <2> HIDE DEF u
    <2> QED
      BY <1>1, <1>3 DEF TurnRecord
  <1> HIDE DEF u, g
  <1>5. Drops(f, g, {e})
    BY <1>2, <1>3, <1>4, EffectDrop
  <1>6. EffectsAgree(g)
    <2>1. \A x \in DOMAIN f \ {e} : f[x].parent \notin {e}
      BY <1>1 DEF CanSettle, Active
    <2>2. EffectsAgree(f)
      OBVIOUS
    <2> HIDE DEF f
    <2> QED
      BY <1>2, <1>5, <2>1, <2>2, DropAgrees
  <1>7. KeysAgree(g, DOMAIN uses)
    <2>1. KeysAgree(f, DOMAIN uses)
      BY DEF UsesAgree
    <2> HIDE DEF f
    <2> QED
      BY <1>2, <1>5, <2>1, DropKeys
  <1>8. UsesAgree'
    BY <1>1, <1>3, <1>4, <1>7 DEF UsesAgree, UsesAreConsumed, CallsAreUsedOnce, g
  <1>9. Types'
    BY <1>1, <1>4 DEF Types
  <1>10. SourceIsSettled'
    BY <1>1, <1>3, <1>4, <1>5 DEF SourceIsSettled, Active, Drops, g
  <1>11. EndsAgree'
    <2>1. turn'.terminal = "none"
      BY <1>1, <1>3, <1>4 DEF Business, Open, Ends
    <2>2. conclusion # "none" => DOMAIN g = {} /\ (conclusion = "structured" <=> contract)
      BY <1>1, <1>5 DEF ConclusionAdmitted, Drops, Active
    <2> QED
      BY <1>1, <1>4, <2>1, <2>2, ContractStays DEF EndsAgree, Open, NoActiveEffect, Active, g
  <1> QED
    BY <1>6, <1>8, <1>9, <1>10, <1>11 DEF g

(* The terminal Fact of a Turn takes its effects with it.                    *)
LEMMA EndFact ==
    ASSUME Inv, turn' \in TurnRecord, turn'.effects = <<>>,
           turn'.source = turn.source, turn'.conclusion = turn.conclusion,
           turn'.terminal = "completed" /\ contract => turn'.result,
           UNCHANGED <<accepted, models, steps, uses>>
    PROVE  Inv'
  <1> USE DEF Inv
  <1>0. DOMAIN turn'.effects = {}
    BY EmptyMap
  <1>1. Types'
    BY DEF Types
  <1>2. EffectsAgree(turn'.effects)
    BY <1>0 DEF EffectsAgree
  <1>3. SourceIsSettled'
    BY <1>0 DEF SourceIsSettled, Active
  <1>4. KeysAgree(turn'.effects, DOMAIN uses)
    BY <1>0 DEF KeysAgree
  <1>5. UsesAgree'
    BY <1>4 DEF UsesAgree, UsesAreConsumed, CallsAreUsedOnce
  <1>6. EndsAgree'
    BY <1>0, ContractStays DEF EndsAgree, NoActiveEffect, Active
  <1> QED
    BY <1>1, <1>2, <1>3, <1>5, <1>6

-----------------------------------------------------------------------------
(* The steps of the specification.                                          *)

LEMMA StepStartFields ==
    ASSUME NEW t \in TurnRecord
    PROVE  LET u == AfterStepStart(t) IN
           u \in TurnRecord /\ u.effects = t.effects /\ u.source = NoSource /\ Ends(t, u)
  BY NoSourceIsEmpty DEF AfterStepStart, TurnRecord, Ends, NoSourceFacts

LEMMA StepEndFields ==
    ASSUME NEW t \in TurnRecord
    PROVE  LET u == AfterStepEnd(t) IN
           /\ u \in TurnRecord /\ u.effects = t.effects /\ u.source = t.source
           /\ Ends(t, u) /\ u.step = FALSE /\ u.cancel = t.cancel
  BY DEF AfterStepEnd, TurnRecord, Ends

LEMMA SupersedeFields ==
    ASSUME NEW t \in TurnRecord
    PROVE  LET u == Supersede(t) IN
           u \in TurnRecord /\ u.effects = t.effects /\ Ends(t, u)
  <1> DEFINE h == t.source.calls
             g == [c \in DOMAIN h |-> [h[c] EXCEPT !.state = "consumed"]]
             v == [t.source EXCEPT !.calls = g]
  <1>1. t.source \in SourceRecord /\ h \in CallMaps
    BY TurnFields DEF SourceRecord
  <1>2. DOMAIN h \in SUBSET CallIds /\ \A c \in DOMAIN h : h[c] \in CallRecord
    BY <1>1, MapMembers DEF CallMaps
  <1> HIDE DEF h
  <1>3. \A c \in DOMAIN h : [h[c] EXCEPT !.state = "consumed"] \in CallRecord
    BY <1>2 DEF CallRecord
  <1>4. g \in [DOMAIN h -> CallRecord]
    BY <1>3
  <1>5. g \in CallMaps
    BY <1>2, <1>4, MapMake DEF CallMaps
  <1>6. Supersede(t) = [t EXCEPT !.source = v]
    BY DEF Supersede, h
  <1> HIDE DEF g
  <1>7. v \in SourceRecord
    BY <1>1, <1>5 DEF SourceRecord
  <1> HIDE DEF v
  <1> QED
    BY <1>6, <1>7, SetSource

LEMMA StepFactsKeep ==
    ASSUME Inv, StepFacts
    PROVE  Inv'
  <1>0. turn \in TurnRecord /\ steps \in Nat
    BY DEF Inv, Types
  <1>1. CASE StepStarted
    <2>1. turn' = AfterStepStart(turn) /\ steps' \in Nat /\ UNCHANGED <<accepted, models, uses>>
      BY <1>0, <1>1 DEF StepStarted, Publish
    <2> QED
      BY <1>0, <2>1, StepStartFields, QuietFact
  <1>2. CASE InputsClaimed
    <2>1. turn' = [turn EXCEPT !.inputs = TRUE] /\ UNCHANGED <<accepted, models, steps, uses>>
      BY <1>2 DEF InputsClaimed, Publish
    <2>2. /\ turn' \in TurnRecord /\ turn'.effects = turn.effects
          /\ turn'.source = turn.source /\ Ends(turn, turn')
      BY <1>0, <2>1 DEF TurnRecord, Ends
    <2> QED
      BY <1>0, <2>1, <2>2, QuietFact
  <1>3. CASE StepEnded
    <2>1. turn' = AfterStepEnd(turn) /\ UNCHANGED <<accepted, models, steps, uses>>
      BY <1>3 DEF StepEnded, Publish
    <2> QED
      BY <1>0, <2>1, StepEndFields, QuietFact
  <1>4. ASSUME NEW entered \in BOOLEAN, StepInputsPrepared(entered)
        PROVE  Inv'
    <2> DEFINE r == ~entered
    <2>1. /\ turn' = [turn EXCEPT !.inputs = FALSE, !.rejected = r]
          /\ UNCHANGED <<accepted, models, steps, uses>>
      BY <1>4 DEF StepInputsPrepared, Publish
    <2>2. r \in BOOLEAN
      OBVIOUS
    <2> HIDE DEF r
    <2>3. /\ turn' \in TurnRecord /\ turn'.effects = turn.effects
          /\ turn'.source = turn.source /\ Ends(turn, turn')
      BY <1>0, <2>1, <2>2 DEF TurnRecord, Ends
    <2> QED
      BY <1>0, <2>1, <2>3, QuietFact
  <1>5. ASSUME NEW app \in BOOLEAN, StepPrepared(app)
        PROVE  Inv'
    <2> DEFINE s == IF app THEN ToolNames ELSE ToolNames \ ApplicationTools
    <2>1. /\ turn' = [turn EXCEPT !.app = app, !.selected = s]
          /\ UNCHANGED <<accepted, models, steps, uses>>
      BY <1>5 DEF StepPrepared, Publish
    <2>2. s \in SUBSET ToolNames
      OBVIOUS
    <2> HIDE DEF s
    <2>3. /\ turn' \in TurnRecord /\ turn'.effects = turn.effects
          /\ turn'.source = turn.source /\ Ends(turn, turn')
      BY <1>0, <2>1, <2>2 DEF TurnRecord, Ends
    <2> QED
      BY <1>0, <2>1, <2>3, QuietFact
  <1> QED
    BY <1>1, <1>2, <1>3, <1>4, <1>5 DEF StepFacts

LEMMA AttemptRecord ==
    ASSUME NEW kind \in {"model", "image"}, NEW name \in {"conversation", "side", "image"}
    PROVE  LET r == Effect(kind, name, NoEffect, {}, <<>>) IN
           r \in EffectRecord /\ r.kind = kind /\ r.parent = NoEffect
  BY FactsConstants DEF Effect, EffectRecord, Ids

LEMMA ModelIntentKeeps ==
    ASSUME Inv, NEW e \in EffectIds, NEW purpose \in {"conversation", "side"},
           ModelIntent(e, purpose)
    PROVE  Inv'
  <1> DEFINE r == Effect("model", purpose, NoEffect, {}, <<>>)
             u == With(turn, e, r)
             s == IF purpose = "conversation"
                  THEN [effect |-> e, tools |-> turn.selected, calls |-> <<>>]
                  ELSE NoSource
  <1>1. /\ turn' = [u EXCEPT !.source = s] /\ Business(turn) /\ NoActiveEffect(turn)
        /\ e \notin models /\ models' = models \cup {e} /\ UNCHANGED <<accepted, steps, uses>>
    BY DEF ModelIntent, Publish
  <1>2. turn \in TurnRecord
    BY DEF Inv, Types
  <1>3. r \in EffectRecord /\ r.kind = "model" /\ r.parent = NoEffect
    BY AttemptRecord
  <1> HIDE DEF r
  <1>4. u \in TurnRecord /\ u.effects = Put(turn.effects, e, r) /\ Ends(turn, u)
    BY <1>2, <1>3, WithFields
  <1>5. s \in SourceRecord /\ ((s.effect = e /\ DOMAIN s.calls = {}) \/ s = NoSource)
    <2>1. turn.selected \in SUBSET ToolNames
      BY <1>2 DEF TurnRecord
    <2>2. <<>> \in CallMaps /\ DOMAIN <<>> = {} /\ e \in Ids
      BY EmptyMap DEF CallMaps, Ids
    <2> QED
      BY <2>1, <2>2, NoSourceIsEmpty DEF SourceRecord, NoSourceFacts
  <1> HIDE DEF u, s
  <1>6. /\ turn' \in TurnRecord /\ turn'.effects = u.effects /\ turn'.source = s
        /\ Ends(u, turn')
    BY <1>1, <1>4, <1>5, SetSource
  <1>7. Ends(turn, turn')
    BY <1>4, <1>6 DEF Ends
  <1> QED
    BY <1>1, <1>3, <1>4, <1>5, <1>6, <1>7, AttemptFact

LEMMA ImageIntentKeeps ==
    ASSUME Inv, NEW e \in EffectIds, ImageIntent(e)
    PROVE  Inv'
  <1> DEFINE r == Effect("image", "image", NoEffect, {}, <<>>)
  <1>1. /\ turn' = With(turn, e, r) /\ Business(turn) /\ NoActiveEffect(turn)
        /\ UNCHANGED <<accepted, models, steps, uses>>
    BY DEF ImageIntent, Publish
  <1>2. turn \in TurnRecord
    BY DEF Inv, Types
  <1>3. r \in EffectRecord /\ r.kind = "image" /\ r.parent = NoEffect
    BY AttemptRecord
  <1> HIDE DEF r
  <1>4. /\ turn' \in TurnRecord /\ turn'.effects = Put(turn.effects, e, r)
        /\ turn'.source = turn.source /\ Ends(turn, turn')
    BY <1>1, <1>2, <1>3, WithFields
  <1> QED
    BY <1>1, <1>3, <1>4, AttemptFact

LEMMA EffectChangeKeeps ==
    ASSUME Inv, NEW e \in Active(turn), NEW r \in EffectRecord,
           SameEffect(turn.effects[e], r),
           turn' = [turn EXCEPT !.effects = [turn.effects EXCEPT ![e] = r]],
           UNCHANGED <<accepted, models, steps, uses>>
    PROVE  Inv'
  <1>1. turn \in TurnRecord /\ turn.effects \in EffectMaps /\ e \in DOMAIN turn.effects
    BY TurnFields DEF Inv, Types, Active
  <1> DEFINE g == [turn.effects EXCEPT ![e] = r]
  <1>2. g \in EffectMaps /\ Changes(turn.effects, g, e, r)
    BY <1>1, EffectExcept
  <1> HIDE DEF g
  <1> DEFINE u == [turn EXCEPT !.effects = g]
  <1>3. u \in TurnRecord /\ u.effects = g /\ u.source = turn.source /\ Ends(turn, u)
    BY <1>1, <1>2, SetEffects
  <1>4. turn' = u
    BY DEF g
  <1> HIDE DEF u
  <1> QED
    BY <1>2, <1>3, <1>4, ChangeFact

LEMMA StartedKeeps ==
    ASSUME Inv, NEW e \in EffectIds, Started(e)
    PROVE  Inv'
  <1> DEFINE r == [turn.effects[e] EXCEPT !.started = TRUE]
  <1>1. /\ e \in Active(turn) /\ UNCHANGED <<accepted, models, steps, uses>>
        /\ turn' = [turn EXCEPT !.effects = [turn.effects EXCEPT ![e] = r]]
    BY DEF Started, Publish
  <1>2. turn.effects[e] \in EffectRecord
    BY <1>1, TurnFields, EffectMembers DEF Inv, Types, Active
  <1> DEFINE q == turn.effects[e]
  <1> HIDE DEF q
  <1>3. r = [q EXCEPT !.started = TRUE] /\ q \in EffectRecord
    BY <1>2 DEF q
  <1> HIDE DEF r
  <1>4. r \in EffectRecord
    BY <1>3 DEF EffectRecord
  <1>5. /\ r.kind = q.kind /\ r.name = q.name /\ r.parent = q.parent
        /\ r.call = q.call /\ r.next = q.next
    BY <1>3 DEF EffectRecord
  <1>6. r.started = TRUE
    BY <1>3 DEF EffectRecord
  <1>7. q.next <= q.next
    <2>1. q.next \in 1..(MaxOrdinal + 1)
      BY <1>3 DEF EffectRecord
    <2> QED
      BY <2>1, FactsConstants
  <1>8. SameEffect(turn.effects[e], r)
    BY <1>5, <1>6, <1>7 DEF SameEffect, q
  <1> QED
    BY <1>1, <1>4, <1>8, EffectChangeKeeps

LEMMA ImageOutputKeeps ==
    ASSUME Inv, NEW e \in EffectIds, ImageOutput(e)
    PROVE  Inv'
  <1> DEFINE r == [turn.effects[e] EXCEPT !.next = @ + 1]
  <1>1. /\ e \in Active(turn) /\ UNCHANGED <<accepted, models, steps, uses>>
        /\ turn.effects[e].next <= MaxOrdinal
        /\ turn' = [turn EXCEPT !.effects = [turn.effects EXCEPT ![e] = r]]
    BY DEF ImageOutput, Publish
  <1>2. turn.effects[e] \in EffectRecord
    BY <1>1, TurnFields, EffectMembers DEF Inv, Types, Active
  <1>3. r \in EffectRecord /\ SameEffect(turn.effects[e], r)
    BY <1>1, <1>2, FactsConstants, SMTT(60) DEF EffectRecord, SameEffect
  <1> HIDE DEF r
  <1> QED
    BY <1>1, <1>3, EffectChangeKeeps

LEMMA ModelAttemptSettledKeeps ==
    ASSUME Inv, NEW e \in EffectIds, NEW calls \in Responses, ModelAttemptSettled(e, calls)
    PROVE  Inv'
  <1> DEFINE u == Less(turn, e)
             s == turn.source
             v == IF DOMAIN calls = {} \/ s = NoSource THEN NoSource
                  ELSE [s EXCEPT !.calls = calls]
  <1>0. turn \in TurnRecord /\ s \in SourceRecord
    BY TurnFields DEF Inv, Types
  <1>1. u \in TurnRecord /\ u.effects = Drop(turn.effects, {e}) /\ u.source = s /\ Ends(turn, u)
    BY <1>0, LessFields
  <1>2. /\ Business(turn) /\ e \in Active(turn) /\ turn.effects[e].kind = "model"
        /\ UNCHANGED <<accepted, models, steps, uses>>
        /\ turn' = [u EXCEPT !.source = v]
    <2>1. turn' = [u EXCEPT !.source = IF DOMAIN calls = {} \/ u.source = NoSource
                                       THEN NoSource ELSE [u.source EXCEPT !.calls = calls]]
      BY DEF ModelAttemptSettled, Publish
    <2> QED
      BY <1>1, <2>1 DEF ModelAttemptSettled, Publish
  <1>3. calls \in CallMaps
    <2>1. PICK D \in SUBSET CallIds : calls \in [D -> Calls]
      BY DEF Responses
    <2>2. Calls \subseteq CallRecord
      BY FactsAssumption DEF Calls, CallRecord
    <2>3. calls \in [D -> CallRecord]
      BY <2>1, <2>2
    <2> QED
      BY <2>1, <2>3, MapMake DEF CallMaps
  <1>4. /\ v \in SourceRecord
        /\ \/ v.effect = s.effect /\ s.effect # NoEffect
           \/ v = NoSource
    <2>1. CASE DOMAIN calls = {} \/ s = NoSource
      BY <2>1, NoSourceIsEmpty DEF NoSourceFacts
    <2>2. CASE ~(DOMAIN calls = {} \/ s = NoSource)
      <3>1. v = [s EXCEPT !.calls = calls]
        BY <2>2
      <3>2. v \in SourceRecord /\ v.effect = s.effect
        BY <1>0, <1>3, <3>1 DEF SourceRecord
      <3> QED
        BY <2>2, <3>2 DEF Inv, SourceIsSettled
    <2> QED
      BY <2>1, <2>2
  <1> HIDE DEF u, v
  <1>5. /\ turn' \in TurnRecord /\ turn'.effects = u.effects /\ turn'.source = v
        /\ Ends(u, turn')
    BY <1>1, <1>2, <1>4, SetSource
  <1>6. Ends(turn, turn')
    BY <1>1, <1>5 DEF Ends
  <1> QED
    BY <1>1, <1>2, <1>4, <1>5, <1>6, SettledFact

LEMMA TerminalFields ==
    ASSUME NEW t \in TurnRecord, NEW o \in {"completed", "failed", "cancelled", "interrupted"},
           NEW b \in BOOLEAN
    PROVE  LET u == AfterTerminal(t, o, b) IN
           /\ u \in TurnRecord /\ u.effects = <<>> /\ u.source = t.source
           /\ u.conclusion = t.conclusion /\ u.terminal = o /\ u.result = b
  <1>1. <<>> \in EffectMaps
    BY EmptyMap DEF EffectMaps
  <1> HIDE DEF EffectMaps
  <1> QED
    BY <1>1 DEF AfterTerminal, TurnRecord

LEMMA RepairFields ==
    ASSUME NEW t \in TurnRecord, NEW read
    PROVE  LET u == Repaired(t, read) IN
           /\ u \in TurnRecord /\ u.source = t.source /\ Ends(t, u) /\ u.step = FALSE
  <1> DEFINE f == Drop(t.effects, read)
             v == [t EXCEPT !.effects = f]
  <1>1. f \in EffectMaps
    BY TurnFields, EffectDrop
  <1>2. Repaired(t, read) = AfterStepEnd(v)
    BY DEF Repaired, AfterStepEnd, Drop, Active, TurnRecord
  <1> HIDE DEF f
  <1>3. v \in TurnRecord /\ v.source = t.source /\ Ends(t, v)
    BY <1>1, SetEffects
  <1> HIDE DEF v
  <1>4. LET u == AfterStepEnd(v) IN
        /\ u \in TurnRecord /\ u.source = v.source /\ Ends(v, u) /\ u.step = FALSE
    BY <1>3, StepEndFields
  <1> QED
    BY <1>2, <1>3, <1>4 DEF Ends

LEMMA OutcomeTypes ==
    ASSUME NEW t, NEW proposed \in {"completed", "failed"}
    PROVE  /\ Outcome(t, proposed) \in {"completed", "failed", "cancelled"}
           /\ RepairOutcome(t) \in {"cancelled", "interrupted"}
           /\ \A o : Result(t, o) \in BOOLEAN
  <1>1. Outcome(t, proposed) \in {"completed", "failed", "cancelled"}
    BY DEF Outcome
  <1>2. RepairOutcome(t) \in {"cancelled", "interrupted"}
    BY DEF RepairOutcome
  <1>3. \A o : Result(t, o) \in BOOLEAN
    BY DEF Result
  <1> QED
    BY <1>1, <1>2, <1>3

LEMMA FinishTurnKeeps ==
    ASSUME Inv, NEW proposed \in {"completed", "failed"}, FinishTurn(proposed)
    PROVE  Inv'
  <1> DEFINE t == AfterStepEnd(turn)
             o == Outcome(turn, proposed)
             b == Result(turn, o)
  <1>1. /\ TerminalAccepted(t, o, b) /\ turn' = AfterTerminal(t, o, b)
        /\ UNCHANGED <<accepted, models, steps, uses>>
    BY DEF FinishTurn
  <1>2. t \in TurnRecord /\ t.source = turn.source /\ Ends(turn, t)
    BY StepEndFields DEF Inv, Types
  <1>3. o \in {"completed", "failed", "cancelled", "interrupted"} /\ b \in BOOLEAN
    BY OutcomeTypes
  <1> HIDE DEF t, o, b
  <1>4. o = "completed" /\ contract => b
    BY <1>1 DEF TerminalAccepted
  <1> DEFINE u == AfterTerminal(t, o, b)
  <1>5. /\ u \in TurnRecord /\ u.effects = <<>> /\ u.source = t.source
        /\ u.conclusion = t.conclusion /\ u.terminal = o /\ (b => u.result)
    <2>1. CASE b = TRUE
      BY <1>2, <1>3, <2>1, TerminalFields, ZenonT(60)
    <2>2. CASE b = FALSE
      BY <1>2, <1>3, <2>2, TerminalFields, ZenonT(60)
    <2> QED
      BY <1>3, <2>1, <2>2
  <1>a. turn' = u
    BY <1>1
  <1> HIDE DEF u
  <1>6. turn'.conclusion = turn.conclusion /\ turn'.source = turn.source
    BY <1>2, <1>5, <1>a DEF Ends
  <1>7. turn'.terminal = "completed" /\ contract => turn'.result
    BY <1>4, <1>5, <1>a
  <1> QED
    BY <1>1, <1>5, <1>6, <1>7, <1>a, EndFact

LEMMA CrashKeeps ==
    ASSUME Inv, CrashAndRecover
    PROVE  Inv'
  <1> PICK read \in SUBSET Receipts(turn) :
           turn' = AfterTerminal(Repaired(turn, read), RepairOutcome(turn), FALSE)
    BY DEF CrashAndRecover
  <1> DEFINE t == Repaired(turn, read)
             o == RepairOutcome(turn)
  <1>1. turn' = AfterTerminal(t, o, FALSE) /\ UNCHANGED <<accepted, models, steps, uses>>
    BY DEF CrashAndRecover
  <1>2. t \in TurnRecord /\ t.source = turn.source /\ Ends(turn, t)
    BY RepairFields DEF Inv, Types
  <1>3. o \in {"cancelled", "interrupted"}
    BY DEF RepairOutcome
  <1> HIDE DEF t, o
  <1> DEFINE u == AfterTerminal(t, o, FALSE)
  <1>4. /\ u \in TurnRecord /\ u.effects = <<>> /\ u.source = t.source
        /\ u.conclusion = t.conclusion /\ u.terminal = o
    <2>1. FALSE \in BOOLEAN /\ o \in {"completed", "failed", "cancelled", "interrupted"}
      BY <1>3
    <2> QED
      BY <1>2, <2>1, TerminalFields, ZenonT(60)
  <1>a. turn' = u
    BY <1>1
  <1> HIDE DEF u
  <1>5. turn'.conclusion = turn.conclusion /\ turn'.source = turn.source
    BY <1>2, <1>4, <1>a DEF Ends
  <1> QED
    BY <1>1, <1>3, <1>4, <1>5, <1>a, EndFact

LEMMA MessageEntryKeeps ==
    ASSUME Inv, MessageEntry
    PROVE  Inv'
  <1> DEFINE a == Supersede(turn)
             b == AfterStepEnd(a)
             c == AfterStepStart(b)
  <1>0. turn \in TurnRecord /\ steps \in Nat
    BY DEF Inv, Types
  <1>1. /\ turn' = [c EXCEPT !.inputs = TRUE] /\ steps' \in Nat
        /\ UNCHANGED <<accepted, models, uses>>
    BY <1>0 DEF MessageEntry
  <1>2. a \in TurnRecord /\ a.effects = turn.effects /\ Ends(turn, a)
    BY <1>0, SupersedeFields
  <1> HIDE DEF a
  <1>3. b \in TurnRecord /\ b.effects = a.effects /\ Ends(a, b)
    BY <1>2, StepEndFields
  <1> HIDE DEF b
  <1>4. c \in TurnRecord /\ c.effects = b.effects /\ c.source = NoSource /\ Ends(b, c)
    BY <1>3, StepStartFields
  <1> HIDE DEF c
  <1>5. /\ turn' \in TurnRecord /\ turn'.effects = c.effects /\ turn'.source = NoSource
        /\ Ends(c, turn')
    BY <1>1, <1>4 DEF TurnRecord, Ends
  <1>6. turn'.effects = turn.effects /\ Ends(turn, turn')
    BY <1>2, <1>3, <1>4, <1>5 DEF Ends
  <1> QED
    BY <1>1, <1>5, <1>6, QuietFact

LEMMA CancelRequestedKeeps ==
    ASSUME Inv, CancelRequested
    PROVE  Inv'
  <1>0. turn \in TurnRecord /\ steps \in Nat
    BY DEF Inv, Types
  <1>1. turn' = [turn EXCEPT !.cancel = TRUE] /\ UNCHANGED <<accepted, models, steps, uses>>
    BY DEF CancelRequested, Publish
  <1>2. /\ turn' \in TurnRecord /\ turn'.effects = turn.effects
        /\ turn'.source = turn.source /\ Ends(turn, turn')
    BY <1>0, <1>1 DEF TurnRecord, Ends
  <1> QED
    BY <1>0, <1>1, <1>2, QuietFact

LEMMA InitInv == Init => Inv
  <1> SUFFICES ASSUME Init PROVE Inv
    OBVIOUS
  <1> PICK direct \in BOOLEAN : turn = [Accepted EXCEPT !.inputs = direct]
    BY DEF Init
  <1>1. Accepted \in TurnRecord
    <2>1. <<>> \in EffectMaps
      BY EmptyMap DEF EffectMaps
    <2> HIDE DEF EffectMaps
    <2> QED
      BY <2>1, NoSourceIsEmpty DEF Accepted, TurnRecord, NoSourceFacts
  <1>2. /\ Accepted.effects = <<>> /\ Accepted.source = NoSource
        /\ Accepted.conclusion = "none" /\ Accepted.terminal = "none"
    BY DEF Accepted
  <1>3. /\ turn \in TurnRecord /\ turn.effects = <<>> /\ turn.source = NoSource
        /\ turn.conclusion = "none" /\ turn.terminal = "none"
    BY <1>1, <1>2 DEF TurnRecord
  <1>4. DOMAIN turn.effects = {}
    BY <1>3, EmptyMap
  <1>5. DOMAIN uses = {}
    BY EmptyMap DEF Init
  <1>6. Types
    BY <1>3 DEF Types, Init
  <1>7. EffectsAgree(turn.effects) /\ KeysAgree(turn.effects, DOMAIN uses)
    BY <1>4 DEF EffectsAgree, KeysAgree
  <1>8. SourceIsSettled
    BY <1>3, <1>4, NoSourceIsEmpty DEF SourceIsSettled, Active, NoSourceFacts
  <1>9. UsesAgree
    BY <1>5, <1>7 DEF UsesAgree, CallsAreUsedOnce, UsesAreConsumed
  <1>10. EndsAgree
    BY <1>3 DEF EndsAgree, Open
  <1> QED
    BY <1>6, <1>7, <1>8, <1>9, <1>10 DEF Inv

LEMMA NextInv == Inv /\ [Next]_vars => Inv'
  <1> SUFFICES ASSUME Inv, [Next]_vars PROVE Inv'
    OBVIOUS
  <1>1. CASE StepFacts
    BY <1>1, StepFactsKeep
  <1>2. CASE ModelFacts
    BY <1>2, ModelIntentKeeps, ImageIntentKeeps, StartedKeeps, ImageOutputKeeps,
       ModelAttemptSettledKeeps DEF ModelFacts
  <1>3. CASE ToolFacts
    BY <1>3, ToolIntentFact, ToolRejectedFact, ProgramToolIntentFact,
       ProgramToolRejectedFact, ToolResultFact DEF ToolFacts
  <1>4. CASE KernelFacts
    BY <1>4, CancelRequestedKeeps, MessageEntryKeeps, CrashKeeps, FinishTurnKeeps
    DEF KernelFacts
  <1>5. CASE UNCHANGED vars
    <2>1. turn' = turn /\ UNCHANGED <<accepted, models, steps, uses>>
      BY <1>5 DEF vars
    <2>2. turn \in TurnRecord /\ steps \in Nat
      BY DEF Inv, Types
    <2> QED
      BY <2>1, <2>2, QuietFact DEF Ends
  <1> QED
    BY <1>1, <1>2, <1>3, <1>4, <1>5 DEF Next

-----------------------------------------------------------------------------
(* The invariant of TurnControl: whatever executors propose and the Kernel   *)
(* accepts, the effects of the Turn, its source, the used calls and its      *)
(* ends agree.                                                               *)
THEOREM FactsInvariant == Spec => []Inv
  BY InitInv, NextInv, PTL DEF Spec

LEMMA InvTypes == Inv => TypeOK
  <1> SUFFICES ASSUME Inv PROVE TypeOK
    OBVIOUS
  <1>1. /\ turn \in TurnRecord /\ turn.effects \in EffectMaps
        /\ turn.source \in SourceRecord
    BY TurnFields DEF Inv, Types
  <1>2. Active(turn) \subseteq EffectIds /\ \A e \in Active(turn) : turn.effects[e] \in EffectRecord
    BY <1>1, EffectMembers DEF Active
  <1>3. ASSUME NEW e \in Active(turn)
        PROVE  /\ turn.effects[e].kind \in {"model", "image", "tool"}
               /\ IsTool(turn, e) => turn.effects[e].name \in ToolNames
               /\ turn.effects[e].next \in 1..(MaxOrdinal + 1)
    <2>1. turn.effects[e] \in EffectRecord
      BY <1>2, <1>3
    <2>2. /\ turn.effects[e].kind \in {"model", "image", "tool"}
          /\ turn.effects[e].next \in 1..(MaxOrdinal + 1)
      BY <2>1 DEF EffectRecord
    <2>3. IsTool(turn, e) => turn.effects[e].name \in ToolNames
      BY DEF Inv, EffectsAgree, IsTool, Active
    <2> QED
      BY <2>2, <2>3
  <1>4. {turn.step, turn.inputs, turn.rejected, turn.app, turn.cancel, turn.result}
          \subseteq BOOLEAN
    BY <1>1 DEF TurnRecord
  <1>5. turn.source.effect \in models \cup {NoEffect}
    BY DEF Inv, SourceIsSettled
  <1>6. DOMAIN turn.source.calls \subseteq CallIds
    BY <1>1, MapMembers DEF SourceRecord, CallMaps
  <1>7. turn.conclusion \in {"none", "plain", "structured"}
    BY <1>1 DEF TurnRecord
  <1>8. ~Open(turn) => NoActiveEffect(turn)
    BY DEF Inv, EndsAgree
  <1> QED
    BY <1>2, <1>3, <1>4, <1>5, <1>6, <1>7, <1>8 DEF TypeOK

(* The TurnControl keeps its types; its source is one of its own model       *)
(* effects, and no effect stays registered after the terminal Fact.          *)
THEOREM FactsAreTyped == Spec => []TypeOK
  BY FactsInvariant, InvTypes, PTL

LEMMA InvOverlap == Inv => OverlapIsDeclared
  <1> SUFFICES ASSUME Inv PROVE OverlapIsDeclared
    OBVIOUS
  <1> DEFINE f == turn.effects
  <1>1. EffectsAgree(f) /\ Active(turn) = DOMAIN f
    BY DEF Inv, Active
  <1>2. \A x \in DOMAIN f : FromModel(turn, x) \/ StartedTool(turn, f[x].parent)
    BY <1>1 DEF EffectsAgree, Nested, FromModel, StartedTool, IsTool
  <1>3. \A x, y \in DOMAIN f : x # y =>
          \/ Safe(turn, x) /\ Safe(turn, y) /\ f[x].parent = f[y].parent
          \/ f[x].parent = y
          \/ f[y].parent = x
    BY <1>1 DEF EffectsAgree, MayOverlap, SafeIn, Safe, IsTool
  <1> QED
    BY <1>1, <1>2, <1>3 DEF OverlapIsDeclared

(* Effects of a Turn overlap only where the catalog and the program rules    *)
(* declared it, and a nested call never outlives its coordinator.            *)
THEOREM EffectsOverlapAsDeclared == Spec => []OverlapIsDeclared
  BY FactsInvariant, InvOverlap, PTL

(* No call of a model response and no ordinal of a program is admitted or    *)
(* rejected twice.                                                           *)
THEOREM CallsUsedOnce == Spec => []CallsAreUsedOnce
  <1>1. Inv => CallsAreUsedOnce
    BY DEF Inv, UsesAgree
  <1> QED
    BY FactsInvariant, <1>1, PTL

(* An accepted conclusion leaves nothing running, and a Turn that completes  *)
(* under an output contract names its structured result.                     *)
THEOREM ConclusionEndsWork == Spec => []ConclusionIsLast
  <1>1. Inv => ConclusionIsLast
    BY DEF Inv, EndsAgree, ConclusionIsLast
  <1> QED
    BY FactsInvariant, <1>1, PTL

(* An exclusive Tool of a model response that is no coordinator runs alone.  *)
LEMMA ReceiptIsAlone ==
    ASSUME Inv, NEW e \in Receipts(turn)
    PROVE  Active(turn) = {e} /\ CanSettle(turn, e) /\ (Business(turn) \/ ~Open(turn))
  <1> DEFINE f == turn.effects
  <1>1. /\ e \in DOMAIN f /\ f[e].kind = "tool" /\ f[e].parent = NoEffect
        /\ f[e].name \in ApplicationTools /\ StartedTool(turn, e)
    BY DEF Receipts, StartedTool, IsTool, FromModel, Active
  <1>2. EffectsAgree(f) /\ f \in EffectMaps
    BY TurnFields DEF Inv, Types
  <1>3. DOMAIN f \subseteq EffectIds
    BY <1>2, EffectMembers
  <1>4. f[e].name \notin ParallelSafe /\ Role[f[e].name] # "coordinator"
    BY <1>1, FactsConstants
  <1>5. \A x \in DOMAIN f : f[x].parent # e
    BY <1>1, <1>2, <1>3, <1>4, FactsConstants DEF EffectsAgree, Nested
  <1>6. \A x \in DOMAIN f : x = e
    BY <1>1, <1>2, <1>3, <1>4, <1>5, FactsConstants DEF EffectsAgree, MayOverlap, SafeIn
  <1>7. CanSettle(turn, e)
    BY <1>1, <1>5 DEF CanSettle, Active
  <1>8. turn.conclusion = "none"
    BY <1>1 DEF Inv, EndsAgree, NoActiveEffect, Active
  <1> QED
    BY <1>1, <1>6, <1>7, <1>8 DEF Active, Business

LEMMA InvCloses == Inv => EveryTurnCanClose
  <1> SUFFICES ASSUME Inv, Open(turn) PROVE EveryTurnCanClose
    BY DEF EveryTurnCanClose
  <1>0. turn \in TurnRecord /\ turn.conclusion \in {"none", "plain", "structured"}
    BY DEF Inv, Types, TurnRecord
  <1>1. ASSUME NEW proposed \in {"completed", "failed"}
        PROVE  LET outcome == Outcome(turn, proposed) IN
               TerminalAccepted(AfterStepEnd(turn), outcome, Result(turn, outcome))
    <2> DEFINE t == AfterStepEnd(turn)
               o == Outcome(turn, proposed)
    <2>1. t.step = FALSE /\ t.conclusion = turn.conclusion /\ t.terminal = turn.terminal
      BY <1>0, StepEndFields DEF Ends
    <2>2. o = "completed" /\ contract => turn.conclusion = "structured"
      BY <1>0 DEF Outcome, Inv, EndsAgree
    <2> HIDE DEF t, o
    <2>3. TerminalAccepted(t, o, Result(turn, o))
      BY <2>1, <2>2 DEF TerminalAccepted, Open, Result
    <2> QED
      BY <2>3 DEF t, o
  <1>2. ASSUME NEW read \in SUBSET Receipts(turn)
        PROVE  RepairAccepted(turn, read)
    <2>1. \A e \in read : Active(turn) = {e} /\ CanSettle(turn, e) /\ Business(turn)
      BY ReceiptIsAlone
    <2>2. Cardinality(read) <= 1
      <3>1. CASE read = {}
        <4>1. Cardinality(read) = 0
          BY <3>1, FS_EmptySet
        <4> QED
          BY <4>1
      <3>2. CASE read # {}
        <4>1. PICK e \in read : TRUE
          BY <3>2
        <4>2. \A x \in read : x = e
          BY <2>1, <4>1
        <4>3. read = {e}
          BY <4>1, <4>2
        <4>4. Cardinality(read) = 1
          BY <4>3, FS_Singleton
        <4> QED
          BY <4>4
      <3> QED
        BY <3>1, <3>2
    <2> DEFINE t == Repaired(turn, read)
               o == RepairOutcome(turn)
    <2>3. t.step = FALSE /\ t.terminal = turn.terminal
      BY <1>0, RepairFields DEF Ends
    <2>4. o # "completed"
      BY DEF RepairOutcome
    <2> HIDE DEF t, o
    <2>5. TerminalAccepted(t, o, FALSE)
      BY <2>3, <2>4 DEF TerminalAccepted, Open
    <2> QED
      BY <2>1, <2>2, <2>5 DEF RepairAccepted, t, o
  <1> QED
    BY <1>1, <1>2 DEF EveryTurnCanClose

(* The Kernel can always end the Turn with either outcome, and the repair of *)
(* recovery is accepted for every durable prefix and every receipt found.    *)
THEOREM TurnsCanClose == Spec => []EveryTurnCanClose
  BY FactsInvariant, InvCloses, PTL
=============================================================================
