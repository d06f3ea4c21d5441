-------------------------- MODULE JobManagerProofs --------------------------
(***************************************************************************)
(* What the Jobs provider guarantees for every number of submissions and   *)
(* generations and for all capacities: its counters and its eviction index *)
(* are exact, nothing outlives its generation, and finalizers report what  *)
(* nobody has been told and every doubt.                                   *)
(***************************************************************************)
EXTENDS JobManager, FiniteSetTheorems, TLAPS

-----------------------------------------------------------------------------
(* The inductive invariant.                                                 *)

PCs == {"new", "starting", "reaping", "reaped", "refused", "evicted"} \cup Retained
Readers == {"none", "waiting", "sampled", "final", "compacted", "leaving"}

JobRecord ==
    [pc : PCs, scope : 0..MaxScopes, producer : 0..MaxProducers, seq : Nat,
     needs : BOOLEAN, reported : BOOLEAN, doubt : BOOLEAN, reader : Readers,
     delivered : BOOLEAN]

ReportRecord ==
    [pc : {"none", "reporting", "done"}, todo : SUBSET Jobs, at : SUBSET Jobs,
     unreported : SUBSET Jobs, unknown : BOOLEAN]

WaitStates == {"none", "dropped", "begin", "armed", "asleep", "quiet"}

Types ==
    /\ accepting \in BOOLEAN
    /\ scope \in [current : 0..MaxScopes, last : 0..MaxScopes]
    /\ scope.current \in {0, scope.last}
    /\ producer \in [current : 0..MaxProducers, last : 0..MaxProducers]
    /\ producer.current \in {0, producer.last}
    /\ job \in [Jobs -> JobRecord]
    /\ sequence \in Nat
    /\ active \in [Generations -> Nat]
    /\ activeOf \in [ProducerGenerations -> Nat]
    /\ reserved \in [Generations -> Nat]
    /\ evictable \subseteq Jobs
    /\ unknown \subseteq Generations
    /\ waiter \in [Waiters -> WaitStates]
    /\ report \in [Generations -> ReportRecord]

Published == Retained \cup {"evicted"}
Unsettled == {"new", "starting", "reaping"} \cup Live

(* What the place of a submission in its life says about its record.         *)
Shape(r) ==
    /\ r.pc \in Retained \cup {"starting", "reaping", "reaped", "evicted"} =>
         r.scope \in Generations /\ r.producer \in ProducerGenerations
    /\ r.seq # 0 <=> r.pc \in Published
    /\ r.pc \in Unsettled => ~r.doubt
    /\ r.reader \in {"final", "compacted"} => r.pc \in Terminals
    /\ r.reader \in {"sampled", "leaving"} => r.pc \in Retained
    /\ r.delivered => r.reported
    /\ r.reported => r.pc \in Terminals \cup {"evicted"}
    /\ r.pc = "evicted" => r.reported

Shapes == \A j \in Jobs : Shape(job[j])

IndexIsExact == evictable = {j \in Jobs : Eligible(job[j])}

ChargedTo(g) == {j \in Jobs : job[j].scope = g /\ Charged(j)}
ReservedIn(g) == {j \in Jobs : job[j].scope = g /\ job[j].pc = "starting"}
ChargedBy(p) == {j \in Jobs : job[j].producer = p /\ Charged(j)}

IsCount(n, S) == IsFiniteSet(S) /\ n = Cardinality(S)

CountsAreExact ==
    /\ \A g \in Generations : IsCount(active[g], ChargedTo(g))
    /\ \A g \in Generations : IsCount(reserved[g], ReservedIn(g))
    /\ \A p \in ProducerGenerations : IsCount(activeOf[p], ChargedBy(p))

(* A finalized generation is never current again, and quiet means quiet.     *)
FinalizedIsOver ==
    \A g \in Generations :
        LET w == waiter[<<"scope", g>>] IN
        /\ w # "none" => g <= scope.last /\ scope.current # g
        /\ w = "quiet" => ChargedTo(g) = {}

(* The finalizer's list holds everything that is still to be told.           *)
Untold(j) == job[j].pc \in Published /\ job[j].needs /\ ~job[j].reported

ReportIsComplete(g) ==
    LET listed == report[g].todo \cup report[g].at IN
    /\ report[g].pc # "none" => waiter[<<"scope", g>>] = "quiet"
    /\ report[g].pc = "none" => listed = {}
    /\ \A j \in listed : job[j].scope = g /\ job[j].pc \in Published
    /\ \A i, j \in report[g].at : i = j
    /\ report[g].pc # "none" =>
         \A j \in Jobs : job[j].scope = g /\ Untold(j) =>
             report[g].pc = "reporting" /\ j \in listed

ReportsAreComplete == \A g \in Generations : ReportIsComplete(g)

ReportedIsKnown ==
    \A j \in Jobs : job[j].pc \in Published /\ job[j].needs /\ job[j].reported =>
        job[j].delivered \/ j \in report[job[j].scope].unreported

DoubtIsMarked ==
    \A g \in Generations :
        /\ g \in unknown <=> \E j \in Jobs : job[j].scope = g /\ job[j].doubt
        /\ report[g].pc = "done" => (report[g].unknown <=> g \in unknown)

(* The records kept and the reservations for more of them.                   *)
RecordsFit ==
    /\ IsFiniteSet(Records) /\ IsFiniteSet(Units(reserved))
    /\ Cardinality(Records) + Total(reserved) <= MaxRetained

Inv ==
    /\ Types
    /\ Shapes
    /\ IndexIsExact
    /\ CountsAreExact
    /\ RecordsFit
    /\ NothingOutlivesItsGeneration
    /\ FinalizedIsOver
    /\ ReportsAreComplete
    /\ ReportedIsKnown
    /\ DoubtIsMarked

-----------------------------------------------------------------------------
(* The steps of the provider, and the state they work on: everything but     *)
(* what becomes of a caller of finalize_scope, which nothing depends on.     *)
registry == <<accepting, scope, producer, job, sequence, active, activeOf, reserved,
              evictable, unknown, waiter, report>>

ProviderNext ==
    \/ RegisterProducer \/ AcquireScope
    \/ \E j \in Jobs, needs \in BOOLEAN : Submit(j, needs)
    \/ \E j \in Jobs : Admission(j) \/ Reap(j)
    \/ \E j \in Consumers : Read(j)
    \/ \E j \in Jobs, end \in Terminals : Settle(j, end)
    \/ \E w \in Waiters : Aggregate(w)
    \/ \E g \in Generations : Finalize(g)
    \/ FinalizeScope \/ WithdrawProducer \/ StopAccepting \/ WithdrawAll

LEMMA CallersChangeNothing ==
    ASSUME [Next]_vars
    PROVE  [ProviderNext]_registry
  <1>1. ASSUME NEW g, CallerIsTold(g) \/ CallerTimesOut(g)
        PROVE  UNCHANGED registry
    BY <1>1 DEF CallerIsTold, CallerTimesOut, registry
  <1>2. CASE UNCHANGED vars
    BY <1>2 DEF vars, registry
  <1>3. CASE Next
    BY <1>1, <1>3, Zenon DEF Next, ProviderNext
  <1> QED
    BY <1>2, <1>3

-----------------------------------------------------------------------------
LEMMA JobsConstants ==
    /\ MaxScopes \in Nat \ {0} /\ MaxProducers \in Nat \ {0}
    /\ MaxActive \in Nat /\ MaxActiveScope \in Nat
    /\ MaxRetained \in Nat /\ MaxRetainedScope \in Nat
    /\ Consumers \subseteq Jobs
  BY JobsAssumption

LEMMA NewJobIsRecord == NewJob \in JobRecord
  BY JobsConstants DEF NewJob, JobRecord, PCs, Readers

LEMMA InitTypes == Init => Types
  BY JobsConstants, NewJobIsRecord
  DEF Init, Types, WaitStates, ReportRecord, Generations, ProducerGenerations

LEMMA StoppingType ==
    ASSUME Types, NEW S
    PROVE  Stopping(S) \in [Jobs -> JobRecord]
  BY DEF Types, Stopping, JobRecord, PCs, Retained, Live

LEMMA NotifiedType ==
    ASSUME Types
    PROVE  Notified \in [Waiters -> WaitStates]
  BY DEF Types, Notified, WaitStates

LEMMA CompactedType ==
    ASSUME Types, NEW out
    PROVE  Compacted(out) \in [Jobs -> JobRecord]
  BY DEF Types, Compacted, JobRecord, PCs

LEMMA RefusedType ==
    ASSUME Types, NEW j \in Jobs, NEW doubt \in BOOLEAN
    PROVE  Refused(j, doubt) \in JobRecord
  <1>1. "refused" \in PCs /\ job[j].scope \in 0..MaxScopes
    BY DEF Types, JobRecord, PCs
  <1> QED
    BY <1>1, NewJobIsRecord DEF Refused, JobRecord

LEMMA SubmitTypes ==
    ASSUME Types, Shapes, NEW j \in Jobs, NEW needs \in BOOLEAN, Submit(j, needs)
    PROVE  Types'
  <1> DEFINE g == scope.current
             p == producer.current
             out == FirstOut(g) \cup SecondOut(g)
             fresh == [NewJob EXCEPT !.pc = "starting", !.scope = g,
                                     !.producer = p, !.needs = needs]
  <1>1. g \in Generations /\ p \in ProducerGenerations
    BY JobsConstants DEF Types, Submit, ScopeIsCurrent, Generations, ProducerGenerations
  <1>2. fresh \in JobRecord
    <2>1. /\ "starting" \in PCs
          /\ g \in 0..MaxScopes /\ p \in 0..MaxProducers
      BY <1>1, JobsConstants DEF PCs, Generations, ProducerGenerations
    <2> QED
      BY <2>1, NewJobIsRecord DEF JobRecord
  <1>3. job' \in [Jobs -> JobRecord]
    <2>1. job' = Compacted(out) \/ job' = [Compacted(out) EXCEPT ![j] = fresh]
      BY DEF Submit
    <2> QED
      BY <1>2, <2>1, CompactedType
  <1>4. evictable' \subseteq Jobs
    BY DEF Submit, Types
  <1>5. /\ active' \in [Generations -> Nat]
        /\ activeOf' \in [ProducerGenerations -> Nat]
        /\ reserved' \in [Generations -> Nat]
    BY <1>1 DEF Submit, Types
  <1>6. UNCHANGED <<accepting, scope, producer, sequence, unknown, waiter, report>>
    BY DEF Submit
  <1> QED
    BY <1>3, <1>4, <1>5, <1>6 DEF Types

(* A charge that is released was there: the counts say so.                   *)
LEMMA ReleaseType ==
    ASSUME Types, Shapes, CountsAreExact, NEW j \in Jobs, Charged(j), Release(j)
    PROVE  /\ active' \in [Generations -> Nat]
           /\ activeOf' \in [ProducerGenerations -> Nat]
           /\ waiter' \in [Waiters -> WaitStates]
  <1> DEFINE g == job[j].scope
             p == job[j].producer
  <1>1. g \in Generations /\ p \in ProducerGenerations
    BY DEF Shapes, Shape, Charged, Retained
  <1>2. j \in ChargedTo(g) /\ j \in ChargedBy(p)
    BY DEF ChargedTo, ChargedBy
  <1>3. active[g] \in Nat \ {0}
    BY <1>1, <1>2, FS_EmptySet, FS_CardinalityType DEF CountsAreExact, IsCount
  <1>4. activeOf[p] \in Nat \ {0}
    BY <1>1, <1>2, FS_EmptySet, FS_CardinalityType DEF CountsAreExact, IsCount
  <1> QED
    BY <1>1, <1>3, <1>4, NotifiedType DEF Release, Types

LEMMA UnreserveType ==
    ASSUME Types, Shapes, CountsAreExact, NEW j \in Jobs, job[j].pc = "starting"
    PROVE  [reserved EXCEPT ![job[j].scope] = @ - 1] \in [Generations -> Nat]
  <1> DEFINE g == job[j].scope
  <1>1. g \in Generations /\ j \in ReservedIn(g)
    BY DEF Shapes, Shape, ReservedIn
  <1>2. reserved[g] \in Nat \ {0}
    BY <1>1, FS_EmptySet, FS_CardinalityType DEF CountsAreExact, IsCount
  <1> QED
    BY <1>1, <1>2 DEF Types

(* Records with some of their fields replaced are records.                   *)
LEMMA RecordFields ==
    ASSUME NEW r \in JobRecord, NEW pc \in PCs, NEW n \in Nat, NEW d \in BOOLEAN,
           NEW b \in BOOLEAN, NEW c \in BOOLEAN, NEW x \in Readers
    PROVE  /\ [r EXCEPT !.pc = pc] \in JobRecord
           /\ [r EXCEPT !.pc = pc, !.seq = n] \in JobRecord
           /\ [r EXCEPT !.pc = pc, !.doubt = d] \in JobRecord
           /\ [r EXCEPT !.pc = pc, !.doubt = d, !.reported = b] \in JobRecord
           /\ [r EXCEPT !.reader = x] \in JobRecord
           /\ [r EXCEPT !.reader = x, !.reported = b, !.delivered = c] \in JobRecord
           /\ [r EXCEPT !.reported = b] \in JobRecord
  BY DEF JobRecord

LEMMA UpdateEffect ==
    ASSUME Types, NEW j \in Jobs, NEW r, r \in JobRecord, Update(j, r)
    PROVE  /\ job' \in [Jobs -> JobRecord]
           /\ job'[j] = r
           /\ \A i \in Jobs \ {j} : job'[i] = job[i]
  BY DEF Types, Update

-----------------------------------------------------------------------------
(* What a step may do to the record of a submission.                        *)

(* The fields that are fixed at submission, and those a move leaves alone.   *)
Origin(r, s) ==
    s.scope = r.scope /\ s.producer = r.producer /\ s.needs = r.needs
Report(r, s) == s.reported = r.reported /\ s.delivered = r.delivered

Submits(r, s) ==
    /\ r.pc = "new" /\ s.pc = "starting"
    /\ scope.current # 0 /\ s.scope = scope.current
    /\ producer.current # 0 /\ s.producer = producer.current
    /\ s.seq = 0 /\ ~s.reported /\ ~s.doubt /\ ~s.delivered /\ s.reader = "none"

Refuses(r, s) ==
    /\ r.pc \in {"starting", "reaped"} /\ s.pc = "refused"
    /\ s.scope = r.scope
    /\ r.pc = "reaped" => s.doubt = r.doubt
    /\ s.seq = 0 /\ ~s.needs /\ ~s.reported /\ ~s.delivered /\ s.reader = "none"

Publishes(r, s) ==
    /\ r.pc = "starting" /\ s.pc = "running"
    /\ scope.current = r.scope /\ producer.current = r.producer
    /\ Origin(r, s) /\ Report(r, s)
    /\ s.seq # 0 /\ s.doubt = r.doubt /\ s.reader = r.reader

Reaps(r, s) ==
    /\ \/ r.pc = "starting" /\ s.pc = "reaping" /\ s.doubt = r.doubt
       \/ r.pc = "reaping" /\ s.pc = "reaped"
    /\ Origin(r, s) /\ Report(r, s) /\ s.seq = r.seq /\ s.reader = r.reader

Settles(r, s) ==
    /\ r.pc \in Live /\ s.pc \in Terminals
    /\ s.doubt <=> s.pc = "unknown"
    /\ s.reported = ~r.needs /\ s.delivered = r.delivered
    /\ Origin(r, s) /\ s.seq = r.seq /\ s.reader = r.reader

Stops(r, s) ==
    /\ s.pc = r.pc \/ (r.pc \in Live /\ s.pc = "stopping")
    /\ \/ s.reader = r.reader
       \/ s.reader \in {"none", "waiting"}
       \/ s.reader \in {"sampled", "leaving"} /\ s.pc \in Retained
       \/ s.reader \in {"final", "compacted"} /\ s.pc \in Terminals
    /\ Origin(r, s) /\ Report(r, s) /\ s.seq = r.seq /\ s.doubt = r.doubt

Tells(r, s) ==
    /\ r.pc \in Terminals /\ s.pc = r.pc
    /\ s.reported /\ s.delivered /\ s.reader = "leaving"
    /\ Origin(r, s) /\ s.seq = r.seq /\ s.doubt = r.doubt

Finishes(r, s) ==
    /\ r.pc \in Terminals /\ s.pc = r.pc
    /\ ~r.reported /\ s.reported /\ s.delivered = r.delivered
    /\ Origin(r, s) /\ s.seq = r.seq /\ s.doubt = r.doubt /\ s.reader = r.reader

Evicts(r, s) ==
    /\ Eligible(r) /\ s.pc = "evicted"
    /\ Origin(r, s) /\ Report(r, s)
    /\ s.seq = r.seq /\ s.doubt = r.doubt /\ s.reader = r.reader

LEMMA StoppingMoves ==
    ASSUME Types, Shapes, NEW S, job' = Stopping(S)
    PROVE  /\ job' \in [Jobs -> JobRecord]
           /\ \A i \in Jobs : Stops(job[i], job'[i])
           /\ \A i \in Jobs \cap S : job[i].pc \in Live => job'[i].pc = "stopping"
  <1>1. job' \in [Jobs -> JobRecord]
    BY StoppingType
  <1>2. ASSUME NEW i \in Jobs
        PROVE  /\ Stops(job[i], job'[i])
               /\ i \in S /\ job[i].pc \in Live => job'[i].pc = "stopping"
    <2>1. CASE i \in S /\ job[i].pc \in Live
      <3>1. job'[i] = [job[i] EXCEPT !.pc = "stopping"] /\ job[i] \in JobRecord
        BY <2>1 DEF Stopping, Types
      <3> QED
        BY <2>1, <3>1 DEF Stops, Origin, Report, JobRecord
    <2>2. CASE ~(i \in S /\ job[i].pc \in Live)
      <3>1. job'[i] = job[i]
        BY <2>2 DEF Stopping
      <3> QED
        BY <2>2, <3>1 DEF Stops, Origin, Report
    <2> QED
      BY <2>1, <2>2
  <1> QED
    BY <1>1, <1>2

LEMMA SubmitMoves ==
    ASSUME Types, Shapes, IndexIsExact,
           NEW j \in Jobs, NEW needs \in BOOLEAN, Submit(j, needs)
    PROVE  LET g == scope.current
               p == producer.current IN
           /\ g \in Generations /\ p \in ProducerGenerations
           /\ \A i \in Jobs \ {j} : job'[i] = job[i] \/ Evicts(job[i], job'[i])
           /\ evictable' = {i \in evictable : job'[i].pc # "evicted"}
           /\ \/ job'[j] = job[j] /\ UNCHANGED <<active, activeOf, reserved>>
              \/ /\ Submits(job[j], job'[j])
                 /\ active' = [active EXCEPT ![g] = @ + 1]
                 /\ activeOf' = [activeOf EXCEPT ![p] = @ + 1]
                 /\ reserved' = [reserved EXCEPT ![g] = @ + 1]
  <1> DEFINE g == scope.current
             p == producer.current
             out == FirstOut(g) \cup SecondOut(g)
             fresh == [NewJob EXCEPT !.pc = "starting", !.scope = g,
                                     !.producer = p, !.needs = needs]
             admitted == /\ Compacts(g)
                         /\ Total(active) < MaxActive /\ active[g] < MaxActiveScope
  <1>1. g \in Generations /\ p \in ProducerGenerations
    BY JobsConstants DEF Types, Submit, ScopeIsCurrent, Generations, ProducerGenerations
  <1>2. out \subseteq evictable
    BY DEF FirstOut, SecondOut, Oldest
  <1>3. \A i \in Jobs : Compacted(out)[i] = job[i] \/ Evicts(job[i], Compacted(out)[i])
    <2> TAKE i \in Jobs
    <2>1. CASE i \in out
      <3>1. Eligible(job[i])
        BY <2>1, <1>2 DEF IndexIsExact
      <3>2. Compacted(out)[i] = [job[i] EXCEPT !.pc = "evicted"] /\ job[i] \in JobRecord
        BY <2>1 DEF Compacted, Types
      <3> QED
        BY <3>1, <3>2 DEF Evicts, Origin, Report, JobRecord
    <2>2. CASE i \notin out
      BY <2>2 DEF Compacted
    <2> QED
      BY <2>1, <2>2
  <1>4. Compacted(out)[j] = job[j]
    BY <1>3 DEF Submit, Evicts, Eligible, Terminals
  <1>a. j \notin evictable /\ evictable' = evictable \ out
    BY DEF Submit, IndexIsExact, Eligible, Terminals
  <1>b. \A i \in evictable : i \in out <=> Compacted(out)[i].pc = "evicted"
    <2> SUFFICES ASSUME NEW i \in evictable
                 PROVE  i \in out <=> Compacted(out)[i].pc = "evicted"
      OBVIOUS
    <2>1. job[i] \in JobRecord /\ i \in Jobs /\ job[i].pc # "evicted"
      BY DEF IndexIsExact, Types, Eligible, Terminals
    <2>2. CASE i \in out
      BY <2>1, <2>2 DEF Compacted, JobRecord
    <2>3. CASE i \notin out
      BY <2>1, <2>3 DEF Compacted
    <2> QED
      BY <2>2, <2>3
  <1>5. CASE ~admitted
    <2>1. job' = Compacted(out)
      BY <1>5 DEF Submit
    <2>2. UNCHANGED <<active, activeOf, reserved>>
      BY <1>5, <1>1 DEF Submit, Types
    <2> QED
      BY <1>1, <1>3, <1>4, <1>a, <1>b, <2>1, <2>2
  <1>6. CASE admitted
    <2>1. job' = [Compacted(out) EXCEPT ![j] = fresh]
      BY <1>6 DEF Submit
    <2>2. job'[j] = fresh /\ \A i \in Jobs \ {j} : job'[i] = Compacted(out)[i]
      BY <2>1, CompactedType
    <2>3. g # 0 /\ p # 0 /\ job[j].pc = "new"
      BY DEF Submit, ScopeIsCurrent
    <2>4. /\ fresh.pc = "starting" /\ fresh.scope = g /\ fresh.producer = p
          /\ fresh.seq = 0 /\ ~fresh.reported /\ ~fresh.doubt /\ ~fresh.delivered
          /\ fresh.reader = "none"
      BY DEF NewJob
    <2>5. Submits(job[j], job'[j])
      BY <2>2, <2>3, <2>4 DEF Submits
    <2>6. /\ active' = [active EXCEPT ![g] = @ + 1]
          /\ activeOf' = [activeOf EXCEPT ![p] = @ + 1]
          /\ reserved' = [reserved EXCEPT ![g] = @ + 1]
      BY <1>6 DEF Submit
    <2>7. evictable' = {i \in evictable : job'[i].pc # "evicted"}
      BY <1>a, <1>b, <2>2, SMTT(60) DEF Types
    <2> QED
      BY <1>1, <1>3, <2>2, <2>5, <2>6, <2>7
  <1> QED
    BY <1>5, <1>6

LEMMA RefusedMove ==
    ASSUME Types, NEW j \in Jobs, NEW doubt \in BOOLEAN, Update(j, Refused(j, doubt)),
           job[j].pc \in {"starting", "reaped"},
           job[j].pc = "reaped" => doubt = job[j].doubt
    PROVE  /\ job' \in [Jobs -> JobRecord]
           /\ \A i \in Jobs \ {j} : job'[i] = job[i]
           /\ Refuses(job[j], job'[j])
           /\ job'[j].doubt = doubt
  <1> DEFINE r == Refused(j, doubt)
  <1>1. r \in JobRecord
    BY RefusedType
  <1>2. /\ job' \in [Jobs -> JobRecord]
        /\ job'[j] = r
        /\ \A i \in Jobs \ {j} : job'[i] = job[i]
    BY <1>1, UpdateEffect
  <1>3. /\ r.pc = "refused" /\ r.scope = job[j].scope /\ r.doubt = doubt
        /\ r.seq = 0 /\ ~r.needs /\ ~r.reported /\ ~r.delivered /\ r.reader = "none"
    BY DEF Refused, NewJob
  <1> QED
    BY <1>2, <1>3 DEF Refuses

LEMMA PublishMove ==
    ASSUME Types, NEW j \in Jobs, Publish(j)
    PROVE  /\ job' \in [Jobs -> JobRecord]
           /\ \A i \in Jobs \ {j} : job'[i] = job[i]
           /\ Publishes(job[j], job'[j]) \/ Reaps(job[j], job'[j])
           /\ job[j].pc = "starting" /\ job'[j].pc # "starting"
           /\ sequence' \in Nat
  <1> DEFINE r == job[j]
             s == [r EXCEPT !.pc = "running", !.seq = sequence + 1]
             t == [r EXCEPT !.pc = "reaping"]
             valid == ScopeIsCurrent(r.scope) /\ producer.current = r.producer
  <1>1. r \in JobRecord /\ r.pc = "starting" /\ sequence + 1 \in Nat \ {0}
    BY DEF Types, Publish
  <1>2. s \in JobRecord /\ t \in JobRecord
    <2>1. {"running", "reaping"} \subseteq PCs /\ FALSE \in BOOLEAN /\ "none" \in Readers
      BY DEF PCs, Retained, Live, Readers
    <2> QED
      BY <1>1, <2>1, RecordFields
  <1>3. CASE valid
    <2>1. Update(j, s) /\ sequence' \in Nat
      BY <1>1, <1>3 DEF Publish
    <2>2. /\ job' \in [Jobs -> JobRecord] /\ job'[j] = s
          /\ \A i \in Jobs \ {j} : job'[i] = job[i]
      BY <1>2, <2>1, UpdateEffect
    <2>3. Publishes(r, s) /\ s.pc # "starting"
      BY <1>1, <1>3 DEF Publishes, Origin, Report, JobRecord, ScopeIsCurrent
    <2> QED
      BY <1>1, <2>1, <2>2, <2>3
  <1>4. CASE ~valid
    <2>1. Update(j, t) /\ sequence' \in Nat
      BY <1>1, <1>4 DEF Publish, Types
    <2>2. /\ job' \in [Jobs -> JobRecord] /\ job'[j] = t
          /\ \A i \in Jobs \ {j} : job'[i] = job[i]
      BY <1>2, <2>1, UpdateEffect
    <2>3. Reaps(r, t) /\ t.pc # "starting"
      BY <1>1 DEF Reaps, Origin, Report, JobRecord
    <2> QED
      BY <1>1, <2>1, <2>2, <2>3
  <1> QED
    BY <1>3, <1>4

LEMMA ReaperMarksMove ==
    ASSUME Types, NEW j \in Jobs, NEW doubt \in BOOLEAN, ReaperMarks(j, doubt)
    PROVE  /\ job' \in [Jobs -> JobRecord]
           /\ \A i \in Jobs \ {j} : job'[i] = job[i]
           /\ Reaps(job[j], job'[j]) /\ job[j].pc = "reaping"
           /\ job'[j].doubt = doubt
  <1> DEFINE r == job[j]
             s == [r EXCEPT !.pc = "reaped", !.doubt = doubt]
  <1>1. r \in JobRecord /\ r.pc = "reaping" /\ Update(j, s)
    BY DEF Types, ReaperMarks
  <1>2. s \in JobRecord
    <2>1. "reaped" \in PCs
      BY DEF PCs
    <2> QED
      BY <1>1, <2>1 DEF JobRecord
  <1>3. Reaps(r, s) /\ s.doubt = doubt
    BY <1>1 DEF Reaps, Origin, Report, JobRecord
  <1> QED
    BY <1>1, <1>2, <1>3, UpdateEffect

LEMMA SettleMove ==
    ASSUME Types, NEW j \in Jobs, NEW end \in Terminals, Settle(j, end)
    PROVE  /\ job' \in [Jobs -> JobRecord]
           /\ \A i \in Jobs \ {j} : job'[i] = job[i]
           /\ Settles(job[j], job'[j]) /\ job'[j].pc = end
           /\ evictable' = Refreshed(j, job'[j])
  <1> DEFINE r == job[j]
             s == [r EXCEPT !.pc = end, !.doubt = (end = "unknown"),
                            !.reported = ~r.needs]
  <1>1. r \in JobRecord /\ r.pc \in Live /\ Update(j, s) /\ evictable' = Refreshed(j, s)
    BY DEF Types, Settle
  <1>2. /\ end \in PCs /\ (end = "unknown") \in BOOLEAN /\ (~r.needs) \in BOOLEAN
    BY <1>1 DEF PCs, Retained, JobRecord
  <1>3. s \in JobRecord
    BY <1>1, <1>2 DEF JobRecord
  <1>4. Settles(r, s) /\ s.pc = end
    BY <1>1, <1>2 DEF Settles, Origin, JobRecord
  <1> QED
    BY <1>1, <1>3, <1>4, UpdateEffect, ZenonT(60)

LEMMA WaitMove ==
    ASSUME Types, NEW j \in Jobs, NEW kill \in BOOLEAN, Wait(j, kill)
    PROVE  /\ job' \in [Jobs -> JobRecord]
           /\ \A i \in Jobs \ {j} : job'[i] = job[i]
           /\ Stops(job[j], job'[j]) /\ job[j].pc \in Live /\ job'[j].pc \in Live
           /\ job'[j].reader = "waiting"
  <1> DEFINE r == (IF kill THEN Stopping({j}) ELSE job)[j]
             s == [r EXCEPT !.reader = "waiting"]
  <1>1. job[j] \in JobRecord /\ job[j].pc \in Live /\ Update(j, s)
    BY DEF Types, Wait
  <1>2. r = job[j] \/ r = [job[j] EXCEPT !.pc = "stopping"]
    BY DEF Stopping
  <1>3. r \in JobRecord
    BY StoppingType DEF Types
  <1>4. s \in JobRecord
    BY <1>3 DEF JobRecord, Readers
  <1>5. /\ r.pc = job[j].pc \/ r.pc = "stopping"
        /\ Origin(job[j], r) /\ Report(job[j], r)
        /\ r.seq = job[j].seq /\ r.doubt = job[j].doubt
    BY <1>1, <1>2 DEF Origin, Report, JobRecord
  <1>6. /\ s.pc = r.pc /\ Origin(r, s) /\ Report(r, s)
        /\ s.seq = r.seq /\ s.doubt = r.doubt /\ s.reader = "waiting"
    BY <1>3 DEF Origin, Report, JobRecord
  <1>7. Stops(job[j], s) /\ s.pc \in Live
    BY <1>1, <1>5, <1>6 DEF Stops, Origin, Report, Live
  <1> QED
    BY <1>1, <1>4, <1>6, <1>7, UpdateEffect, ZenonT(60)

(* The steps of a read; a reader that leaves a record leaves it in place.    *)
LEMMA ReadMove ==
    ASSUME Types, Shapes, NEW j \in Jobs,
           ReadBegin(j) \/ ReadDecide(j) \/ ReadReport(j) \/ ReadFails(j) \/ ReadEnd(j)
    PROVE  /\ job' \in [Jobs -> JobRecord]
           /\ \A i \in Jobs \ {j} : job'[i] = job[i]
           /\ Stops(job[j], job'[j]) \/ Tells(job[j], job'[j])
           /\ job'[j].pc = job[j].pc
           /\ \/ evictable' = Refreshed(j, job'[j])
              \/ evictable' = evictable /\ (Eligible(job'[j]) <=> Eligible(job[j]))
  <1> DEFINE r == job[j]
  <1>1. r \in JobRecord /\ Shape(r)
    BY DEF Types, Shapes
  <1>2. CASE ReadReport(j)
    <2> DEFINE s == [r EXCEPT !.reader = "leaving", !.reported = TRUE,
                              !.delivered = TRUE]
    <2>1. /\ Update(j, s) /\ evictable' = Refreshed(j, s)
          /\ r.reader \in {"final", "compacted"}
      BY <1>2 DEF ReadReport
    <2>2. s \in JobRecord
      BY <1>1 DEF JobRecord, Readers
    <2>3. Tells(r, s) /\ s.pc = r.pc
      BY <1>1, <2>1 DEF Tells, Origin, Shape, JobRecord
    <2> QED
      BY <2>1, <2>2, <2>3, UpdateEffect
  <1>3. ASSUME NEW x \in Readers, Update(j, [r EXCEPT !.reader = x]),
               \/ x = "none"
               \/ x \in {"sampled", "leaving"} /\ r.pc \in Retained
               \/ x \in {"final", "compacted"} /\ r.pc \in Terminals,
               \/ evictable' = Refreshed(j, [r EXCEPT !.reader = x])
               \/ evictable' = evictable
                    /\ (Reading([r EXCEPT !.reader = x]) <=> Reading(r))
        PROVE  /\ job' \in [Jobs -> JobRecord]
               /\ \A i \in Jobs \ {j} : job'[i] = job[i]
               /\ Stops(job[j], job'[j])
               /\ job'[j].pc = job[j].pc
               /\ \/ evictable' = Refreshed(j, job'[j])
                  \/ evictable' = evictable
                       /\ (Eligible(job'[j]) <=> Eligible(job[j]))
    <2> DEFINE s == [r EXCEPT !.reader = x]
    <2>1. s \in JobRecord
      BY <1>1, <1>3 DEF JobRecord
    <2>2. s.reader = x /\ s.pc = r.pc /\ s.reported = r.reported
      BY <1>1 DEF JobRecord
    <2>3. Stops(r, s)
      BY <1>1, <1>3, <2>2 DEF Stops, Origin, Report, JobRecord
    <2>4. job'[j] = s
      BY <1>3, <2>1, UpdateEffect
    <2> QED
      BY <1>3, <2>1, <2>2, <2>3, <2>4, UpdateEffect DEF Eligible
  <1>4. CASE ReadBegin(j)
    <2> DEFINE allowed == ScopeIsCurrent(r.scope) /\ r.pc \in Retained
               x == IF ~allowed THEN "none"
                    ELSE IF ~HasControl(j) THEN "compacted"
                    ELSE IF IsTerminal(j) THEN "final" ELSE "sampled"
    <2>1. Update(j, [r EXCEPT !.reader = x])
      BY <1>4 DEF ReadBegin
    <2>2. /\ x \in Readers
          /\ \/ x = "none"
             \/ x \in {"sampled", "leaving"} /\ r.pc \in Retained
             \/ x \in {"final", "compacted"} /\ r.pc \in Terminals
      BY DEF HasControl, IsTerminal, Retained, Readers
    <2>3. CASE allowed
      <3>1. evictable' = Refreshed(j, [r EXCEPT !.reader = x])
        BY <1>4, <2>3 DEF ReadBegin
      <3> QED
        BY <1>3, <2>1, <2>2, <3>1
    <2>4. CASE ~allowed
      <3>1. evictable' = evictable /\ r.reader = "waiting" /\ x = "none"
        BY <1>4, <2>4 DEF ReadBegin
      <3>2. [r EXCEPT !.reader = x].reader = "none"
        BY <1>1, <3>1 DEF JobRecord
      <3>3. Reading([r EXCEPT !.reader = x]) <=> Reading(r)
        BY <3>1, <3>2 DEF Reading
      <3> QED
        BY <1>3, <2>1, <2>2, <3>1, <3>3
    <2> QED
      BY <2>3, <2>4
  <1>5. CASE ReadDecide(j)
    <2> DEFINE x == IF IsTerminal(j) THEN "final" ELSE "leaving"
    <2>1. Update(j, [r EXCEPT !.reader = x]) /\ evictable' = evictable
            /\ r.reader = "sampled"
      BY <1>5 DEF ReadDecide
    <2>2. /\ x \in Readers
          /\ \/ x = "leaving" /\ r.pc \in Retained
             \/ x = "final" /\ r.pc \in Terminals
      BY <1>1, <2>1 DEF IsTerminal, Readers, Shape
    <2>3. [r EXCEPT !.reader = x].reader = x
      BY <1>1 DEF JobRecord
    <2>4. Reading([r EXCEPT !.reader = x]) <=> Reading(r)
      BY <2>1, <2>2, <2>3 DEF Reading
    <2> QED
      BY <1>3, <2>1, <2>2, <2>4
  <1>6. CASE ReadFails(j)
    <2>1. Update(j, [r EXCEPT !.reader = "leaving"]) /\ evictable' = evictable
            /\ r.reader \in {"sampled", "final"}
      BY <1>6 DEF ReadFails
    <2>2. r.pc \in Retained /\ "leaving" \in Readers
      BY <1>1, <2>1 DEF Shape, Retained, Readers
    <2>3. [r EXCEPT !.reader = "leaving"].reader = "leaving"
      BY <1>1 DEF JobRecord
    <2>4. Reading([r EXCEPT !.reader = "leaving"]) <=> Reading(r)
      BY <2>1, <2>3 DEF Reading
    <2> QED
      BY <1>3, <2>1, <2>2, <2>4
  <1>7. CASE ReadEnd(j)
    <2>1. Update(j, [r EXCEPT !.reader = "none"])
            /\ evictable' = Refreshed(j, [r EXCEPT !.reader = "none"])
      BY <1>7 DEF ReadEnd
    <2>2. "none" \in Readers
      BY DEF Readers
    <2> QED
      BY <1>3, <2>1, <2>2
  <1> QED
    BY <1>2, <1>4, <1>5, <1>6, <1>7

LEMMA FinalizeReportMove ==
    ASSUME Types, Shapes, FinalizedIsOver, ReportsAreComplete,
           NEW g \in Generations, NEW j \in Jobs, FinalizeReport(g, j)
    PROVE  /\ job' \in [Jobs -> JobRecord]
           /\ \A i \in Jobs \ {j} : job'[i] = job[i]
           /\ \/ job'[j] = job[j]
                   /\ ~(job[j].pc \in Retained /\ ~job[j].reported)
              \/ /\ Finishes(job[j], job'[j]) /\ ~job[j].reported
                 /\ job'[j].delivered = job[j].delivered
                 /\ j \in report'[g].unreported
           /\ job'[j].pc = job[j].pc
           /\ evictable' = Refreshed(j, job'[j])
  <1> DEFINE r == job[j]
             s == [r EXCEPT !.reported = TRUE]
             fresh == r.pc \in Retained /\ ~r.reported
  <1>1. r \in JobRecord /\ Shape(r) /\ j \in report[g].at
    BY DEF Types, Shapes, FinalizeReport
  <1>2. s \in JobRecord
    BY <1>1 DEF JobRecord
  <1>3. CASE fresh
    <2>1. /\ Update(j, s) /\ evictable' = Refreshed(j, s)
          /\ report' = [report EXCEPT ![g].at = {},
                          ![g].unreported = @ \cup {j}]
      BY <1>3 DEF FinalizeReport
    <2>2. r.scope = g /\ ChargedTo(g) = {}
      BY <1>1 DEF ReportsAreComplete, ReportIsComplete, FinalizedIsOver
    <2>3. r.pc \in Terminals
      BY <1>3, <2>2 DEF ChargedTo, Charged, Retained
    <2>4. Finishes(r, s) /\ s.delivered = r.delivered /\ s.pc = r.pc
      BY <1>1, <1>3, <2>3 DEF Finishes, Origin, JobRecord
    <2>5. j \in report'[g].unreported
      BY <2>1 DEF Types, ReportRecord
    <2> QED
      BY <1>2, <1>3, <2>1, <2>4, <2>5, UpdateEffect
  <1>4. CASE ~fresh
    <2>1. Update(j, r) /\ evictable' = Refreshed(j, r)
      BY <1>4 DEF FinalizeReport
    <2> QED
      BY <1>1, <1>4, <2>1, UpdateEffect
  <1> QED
    BY <1>3, <1>4

-----------------------------------------------------------------------------
(* Types.                                                                   *)

LEMMA FinalizeTypes ==
    ASSUME Types, Shapes, FinalizedIsOver, ReportsAreComplete,
           NEW g \in Generations, Finalize(g)
    PROVE  Types'
  <1>1. UNCHANGED <<accepting, scope, producer, sequence, active, activeOf,
                    reserved, unknown, waiter>>
    BY DEF Finalize, FinalizeSnapshot, FinalizeDone, FinalizeLook, FinalizeReport
  <1>2. report[g] \in ReportRecord
    BY DEF Types
  <1>3. CASE FinalizeSnapshot(g)
    <2> DEFINE todo == {j \in Members(g) : job[j].needs /\ ~job[j].reported}
    <2>1. [report[g] EXCEPT !.pc = "reporting", !.todo = todo] \in ReportRecord
      BY <1>2 DEF Members, ReportRecord
    <2>2. report' \in [Generations -> ReportRecord]
      BY <2>1, <1>3 DEF FinalizeSnapshot, Types
    <2> QED
      BY <1>1, <1>3, <2>2 DEF FinalizeSnapshot, Types
  <1>4. CASE FinalizeDone(g)
    <2>1. [report[g] EXCEPT !.pc = "done", !.unknown = g \in unknown] \in ReportRecord
      <3>1. ASSUME NEW r \in ReportRecord, NEW b \in BOOLEAN
            PROVE  [r EXCEPT !.pc = "done", !.unknown = b] \in ReportRecord
        BY <3>1 DEF ReportRecord
      <3>2. (g \in unknown) \in BOOLEAN
        OBVIOUS
      <3> QED
        BY <1>2, <3>1, <3>2, Zenon
    <2>2. report' \in [Generations -> ReportRecord]
      BY <2>1, <1>4 DEF FinalizeDone, Types
    <2> QED
      BY <1>1, <1>4, <2>2 DEF FinalizeDone, Types
  <1>5. ASSUME NEW j \in Jobs, FinalizeLook(g, j)
        PROVE  Types'
    <2>1. report' \in [Generations -> ReportRecord]
      BY <1>2, <1>5 DEF FinalizeLook, Types, ReportRecord
    <2> QED
      BY <1>1, <1>5, <2>1 DEF FinalizeLook, Types
  <1>6. ASSUME NEW j \in Jobs, FinalizeReport(g, j)
        PROVE  Types'
    <2>1. report' \in [Generations -> ReportRecord]
      BY <1>2, <1>6 DEF FinalizeReport, Types, ReportRecord
    <2>2. job' \in [Jobs -> JobRecord] /\ evictable' \subseteq Jobs
      BY <1>6, FinalizeReportMove DEF Refreshed, Types
    <2> QED
      BY <1>1, <2>1, <2>2 DEF Types
  <1> QED
    BY <1>3, <1>4, <1>5, <1>6 DEF Finalize

LEMMA NextTypes ==
    ASSUME Inv, [ProviderNext]_registry
    PROVE  Types'
  <1> USE JobsConstants DEF Inv
  <1>1. CASE RegisterProducer
    BY <1>1 DEF RegisterProducer, Types
  <1>2. CASE AcquireScope
    BY <1>2 DEF AcquireScope, Types
  <1>3. ASSUME NEW j \in Jobs, NEW needs \in BOOLEAN, Submit(j, needs)
        PROVE  Types'
    BY <1>3, SubmitTypes
  <1>4. ASSUME NEW j \in Jobs, NEW doubt \in BOOLEAN, StartFails(j, doubt)
        PROVE  Types'
    <2>1. Charged(j) /\ job[j].pc = "starting"
      BY <1>4 DEF StartFails, Charged
    <2>2. job' \in [Jobs -> JobRecord]
      BY <1>4, <2>1, RefusedMove DEF StartFails
    <2>3. unknown' \subseteq Generations
      BY <1>4 DEF StartFails, Marked, Types, Shapes, Shape
    <2> QED
      BY <1>4, <2>1, <2>2, <2>3, ReleaseType, UnreserveType DEF StartFails, Types
  <1>5. ASSUME NEW j \in Jobs, Publish(j)
        PROVE  Types'
    <2>1. reserved' \in [Generations -> Nat] /\ waiter' \in [Waiters -> WaitStates]
      BY <1>5, UnreserveType, NotifiedType DEF Publish
    <2> QED
      BY <1>5, <2>1, PublishMove DEF Publish, Types
  <1>6. ASSUME NEW j \in Jobs, NEW doubt \in BOOLEAN, ReaperMarks(j, doubt)
        PROVE  Types'
    <2>1. unknown' \subseteq Generations
      BY <1>6 DEF ReaperMarks, Marked, Types, Shapes, Shape
    <2> QED
      BY <1>6, <2>1, ReaperMarksMove DEF ReaperMarks, Types
  <1>7. ASSUME NEW j \in Jobs, ReaperReleases(j)
        PROVE  Types'
    <2>1. Charged(j) /\ job[j].doubt \in BOOLEAN /\ job[j].pc = "reaped"
      BY <1>7 DEF ReaperReleases, Charged, Types, JobRecord
    <2>2. job' \in [Jobs -> JobRecord]
      BY <1>7, <2>1, RefusedMove DEF ReaperReleases
    <2> QED
      BY <1>7, <2>1, <2>2, ReleaseType DEF ReaperReleases, Types
  <1>8. ASSUME NEW j \in Jobs, NEW kill \in BOOLEAN, Wait(j, kill)
        PROVE  Types'
    BY <1>8, WaitMove DEF Wait, Types
  <1>9. ASSUME NEW j \in Jobs,
               ReadBegin(j) \/ ReadDecide(j) \/ ReadReport(j) \/ ReadFails(j)
                 \/ ReadEnd(j)
        PROVE  Types'
    <2>1. UNCHANGED <<accepting, scope, producer, sequence, active, activeOf,
                      reserved, unknown, waiter, report>>
      BY <1>9 DEF ReadBegin, ReadDecide, ReadReport, ReadFails, ReadEnd
    <2> QED
      BY <1>9, <2>1, ReadMove DEF Types, Refreshed
  <1>10. ASSUME NEW j \in Jobs, NEW end \in Terminals, Settle(j, end)
         PROVE  Types'
    <2>1. Charged(j)
      BY <1>10 DEF Settle, Charged
    <2>2. unknown' \subseteq Generations
      BY <1>10 DEF Settle, Marked, Types, Shapes, Shape, Retained
    <2>3. evictable' \subseteq Jobs
      BY <1>10 DEF Settle, Refreshed, Types
    <2> QED
      BY <1>10, <2>1, <2>2, <2>3, ReleaseType, SettleMove DEF Settle, Types
  <1>11. ASSUME NEW w \in Waiters, Aggregate(w)
         PROVE  Types'
    BY <1>11 DEF Aggregate, WaitArm, WaitCheck, Types, WaitStates
  <1>12. ASSUME NEW g \in Generations, Finalize(g)
         PROVE  Types'
    BY <1>12, FinalizeTypes
  <1>13. CASE FinalizeScope
    <2>1. job' \in [Jobs -> JobRecord]
      BY <1>13, StoppingType DEF FinalizeScope
    <2>2. waiter' \in [Waiters -> WaitStates]
      BY <1>13, NotifiedType DEF FinalizeScope, WaitStates
    <2>3. scope' \in [current : 0..MaxScopes, last : 0..MaxScopes] /\ scope'.current = 0
      BY <1>13 DEF FinalizeScope, Types
    <2> QED
      BY <1>13, <2>1, <2>2, <2>3 DEF FinalizeScope, Types
  <1>14. CASE WithdrawProducer
    <2>1. job' \in [Jobs -> JobRecord]
      BY <1>14, StoppingType DEF WithdrawProducer
    <2>2. waiter' \in [Waiters -> WaitStates]
      BY <1>14, NotifiedType DEF WithdrawProducer, Begun, WaitStates
    <2>3. /\ producer' \in [current : 0..MaxProducers, last : 0..MaxProducers]
          /\ producer'.current = 0
      BY <1>14 DEF WithdrawProducer, Types
    <2> QED
      BY <1>14, <2>1, <2>2, <2>3 DEF WithdrawProducer, Types
  <1>15. CASE StopAccepting
    BY <1>15 DEF StopAccepting, Types
  <1>16. CASE WithdrawAll
    <2>1. job' \in [Jobs -> JobRecord]
      BY <1>16, StoppingType DEF WithdrawAll
    <2>2. waiter' \in [Waiters -> WaitStates]
      BY <1>16, NotifiedType DEF WithdrawAll, Begun, WaitStates
    <2>3. /\ scope' \in [current : 0..MaxScopes, last : 0..MaxScopes]
          /\ scope'.current = 0
          /\ producer' \in [current : 0..MaxProducers, last : 0..MaxProducers]
          /\ producer'.current = 0
      BY <1>16 DEF WithdrawAll, Types
    <2> QED
      BY <1>16, <2>1, <2>2, <2>3 DEF WithdrawAll, Types
  <1>17. CASE UNCHANGED registry
    BY <1>17 DEF registry, Types
  <1> QED
    BY <1>1, <1>2, <1>3, <1>4, <1>5, <1>6, <1>7, <1>8, <1>9, <1>10, <1>11, <1>12,
       <1>13, <1>14, <1>15, <1>16, <1>17
    DEF ProviderNext, Admission, Reap, Read

-----------------------------------------------------------------------------
(* Records keep their shape.                                                *)

Moves(r, s) ==
    \/ s = r
    \/ Submits(r, s) \/ Refuses(r, s) \/ Publishes(r, s) \/ Reaps(r, s)
    \/ Settles(r, s) \/ Stops(r, s) \/ Tells(r, s) \/ Evicts(r, s)

LEMMA FinalizeMoves ==
    ASSUME Inv, NEW g \in Generations, Finalize(g), NEW i \in Jobs
    PROVE  job'[i] = job[i] \/ Finishes(job[i], job'[i])
  BY FinalizeReportMove
  DEF Inv, Finalize, FinalizeSnapshot, FinalizeDone, FinalizeLook

LEMMA StepMoves ==
    ASSUME Inv, [ProviderNext]_registry, NEW i \in Jobs
    PROVE  \/ Moves(job[i], job'[i])
           \/ /\ Finishes(job[i], job'[i])
              /\ \E g \in Generations : Finalize(g)
  <1> USE DEF Inv
  <1>1. ASSUME NEW j \in Jobs, NEW needs \in BOOLEAN, Submit(j, needs)
        PROVE  Moves(job[i], job'[i])
    BY <1>1, SubmitMoves DEF Moves
  <1>2. ASSUME NEW j \in Jobs, Admission(j) \/ Reap(j)
        PROVE  Moves(job[i], job'[i])
    <2>1. ASSUME NEW doubt \in BOOLEAN, StartFails(j, doubt)
          PROVE  Moves(job[i], job'[i])
      BY <2>1, RefusedMove DEF StartFails, Moves
    <2>2. CASE Publish(j)
      BY <2>2, PublishMove DEF Moves
    <2>3. ASSUME NEW doubt \in BOOLEAN, ReaperMarks(j, doubt)
          PROVE  Moves(job[i], job'[i])
      BY <2>3, ReaperMarksMove DEF Moves
    <2>4. CASE ReaperReleases(j)
      <3>1. job[j].doubt \in BOOLEAN
        BY DEF Types, JobRecord
      <3> QED
        BY <2>4, <3>1, RefusedMove DEF ReaperReleases, Moves
    <2> QED
      BY <1>2, <2>1, <2>2, <2>3, <2>4 DEF Admission, Reap
  <1>3. ASSUME NEW j \in Jobs, Read(j)
        PROVE  Moves(job[i], job'[i])
    BY <1>3, WaitMove, ReadMove DEF Read, Moves
  <1>4. ASSUME NEW j \in Jobs, NEW end \in Terminals, Settle(j, end)
        PROVE  Moves(job[i], job'[i])
    BY <1>4, SettleMove DEF Moves
  <1>5. ASSUME NEW g \in Generations, Finalize(g)
        PROVE  Moves(job[i], job'[i]) \/ Finishes(job[i], job'[i])
    BY <1>5, FinalizeMoves DEF Moves
  <1>6. CASE FinalizeScope \/ WithdrawProducer \/ WithdrawAll
    BY <1>6, StoppingMoves DEF FinalizeScope, WithdrawProducer, WithdrawAll, Moves
  <1>7. CASE \/ RegisterProducer \/ AcquireScope \/ StopAccepting \/ UNCHANGED registry
            \/ \E w \in Waiters : Aggregate(w)
    BY <1>7 DEF RegisterProducer, AcquireScope, StopAccepting, registry, Aggregate,
                WaitArm, WaitCheck, Moves
  <1> QED
    BY <1>1, <1>2, <1>3, <1>4, <1>5, <1>6, <1>7, JobsConstants DEF ProviderNext

LEMMA MovesKeepShape ==
    ASSUME Types, NEW r \in JobRecord, NEW s \in JobRecord, Shape(r),
           Moves(r, s) \/ Finishes(r, s)
    PROVE  Shape(s)
  <1> USE DEF Shape, Origin, Report, Retained, Terminals, Live, Published, Unsettled
  <1>1. CASE s = r
    BY <1>1
  <1>2. CASE Submits(r, s)
    BY <1>2, JobsConstants, SMTT(60) DEF Submits, Types, Generations, ProducerGenerations
  <1>3. CASE Refuses(r, s)
    BY <1>3 DEF Refuses
  <1>4. CASE Publishes(r, s)
    BY <1>4 DEF Publishes
  <1>5. CASE Reaps(r, s)
    BY <1>5 DEF Reaps
  <1>6. CASE Settles(r, s)
    BY <1>6 DEF Settles, JobRecord
  <1>7. CASE Stops(r, s)
    BY <1>7 DEF Stops, JobRecord
  <1>8. CASE Tells(r, s)
    BY <1>8 DEF Tells
  <1>9. CASE Finishes(r, s)
    BY <1>9 DEF Finishes
  <1>10. CASE Evicts(r, s)
    BY <1>10 DEF Evicts, Eligible, Reading, JobRecord
  <1> QED
    BY <1>1, <1>2, <1>3, <1>4, <1>5, <1>6, <1>7, <1>8, <1>9, <1>10 DEF Moves

LEMMA NextShapes ==
    ASSUME Inv, [ProviderNext]_registry
    PROVE  Shapes'
  <1> SUFFICES ASSUME NEW i \in Jobs
               PROVE  Shape(job'[i])
    BY DEF Shapes
  <1>1. job[i] \in JobRecord /\ job'[i] \in JobRecord /\ Shape(job[i]) /\ Types
    BY NextTypes DEF Inv, Types, Shapes
  <1> QED
    BY <1>1, StepMoves, MovesKeepShape

-----------------------------------------------------------------------------
(* The eviction index.                                                      *)

LEMMA RefreshedIsExact ==
    ASSUME IndexIsExact, NEW j \in Jobs, \A i \in Jobs \ {j} : job'[i] = job[i],
           evictable' = Refreshed(j, job'[j])
    PROVE  IndexIsExact'
  BY DEF IndexIsExact, Refreshed

LEMMA SameIsExact ==
    ASSUME IndexIsExact, evictable' = evictable,
           \A i \in Jobs : Eligible(job'[i]) <=> Eligible(job[i])
    PROVE  IndexIsExact'
  BY DEF IndexIsExact

LEMMA NextIndex ==
    ASSUME Inv, [ProviderNext]_registry
    PROVE  IndexIsExact'
  <1> USE DEF Inv
  <1>1. ASSUME NEW j \in Jobs, NEW needs \in BOOLEAN, Submit(j, needs)
        PROVE  IndexIsExact'
    <2>1. /\ \A i \in Jobs \ {j} : job'[i] = job[i] \/ Evicts(job[i], job'[i])
          /\ evictable' = {i \in evictable : job'[i].pc # "evicted"}
          /\ job'[j] = job[j] \/ Submits(job[j], job'[j])
      BY <1>1, SubmitMoves
    <2>2. job[j].pc = "new"
      BY <1>1 DEF Submit
    <2> QED
      BY <2>1, <2>2 DEF IndexIsExact, Eligible, Evicts, Submits, Terminals
  <1>2. ASSUME NEW j \in Jobs, Admission(j) \/ Reap(j)
        PROVE  IndexIsExact'
    <2>1. evictable' = evictable
      BY <1>2 DEF Admission, Reap, StartFails, Publish, ReaperMarks, ReaperReleases
    <2>2. /\ \A i \in Jobs \ {j} : job'[i] = job[i]
          /\ job[j].pc \in {"starting", "reaping", "reaped"}
      BY <1>2 DEF Admission, Reap, StartFails, Publish, ReaperMarks, ReaperReleases,
                  Update, Types
    <2>3. Refuses(job[j], job'[j]) \/ Publishes(job[j], job'[j]) \/ Reaps(job[j], job'[j])
      <3>1. job[j].doubt \in BOOLEAN
        BY DEF Types, JobRecord
      <3> QED
        BY <1>2, <3>1, RefusedMove, PublishMove, ReaperMarksMove
        DEF Admission, Reap, StartFails, ReaperReleases
    <2>4. ~Eligible(job[j]) /\ ~Eligible(job'[j])
      BY <2>2, <2>3 DEF Eligible, Terminals, Refuses, Publishes, Reaps
    <2> QED
      BY <2>1, <2>2, <2>4, SameIsExact
  <1>3. ASSUME NEW j \in Jobs, NEW kill \in BOOLEAN, Wait(j, kill)
        PROVE  IndexIsExact'
    <2>1. /\ \A i \in Jobs \ {j} : job'[i] = job[i]
          /\ job[j].pc \in Live /\ job'[j].pc \in Live
      BY <1>3, WaitMove
    <2>2. evictable' = evictable
      BY <1>3 DEF Wait
    <2> QED
      BY <2>1, <2>2, SameIsExact DEF Eligible, Terminals, Live
  <1>4. ASSUME NEW j \in Jobs,
               ReadBegin(j) \/ ReadDecide(j) \/ ReadReport(j) \/ ReadFails(j)
                 \/ ReadEnd(j)
        PROVE  IndexIsExact'
    BY <1>4, ReadMove, RefreshedIsExact, SameIsExact
  <1>5. ASSUME NEW j \in Jobs, NEW end \in Terminals, Settle(j, end)
        PROVE  IndexIsExact'
    BY <1>5, SettleMove, RefreshedIsExact
  <1>6. ASSUME NEW g \in Generations, Finalize(g)
        PROVE  IndexIsExact'
    <2>1. CASE FinalizeSnapshot(g) \/ FinalizeDone(g)
                 \/ \E j \in Jobs : FinalizeLook(g, j)
      BY <2>1 DEF FinalizeSnapshot, FinalizeDone, FinalizeLook, IndexIsExact
    <2>2. ASSUME NEW j \in Jobs, FinalizeReport(g, j)
          PROVE  IndexIsExact'
      BY <2>2, FinalizeReportMove, RefreshedIsExact
    <2> QED
      BY <1>6, <2>1, <2>2 DEF Finalize
  <1>7. CASE FinalizeScope \/ WithdrawProducer \/ WithdrawAll
    <2>1. evictable' = evictable
      BY <1>7 DEF FinalizeScope, WithdrawProducer, WithdrawAll
    <2>2. \A i \in Jobs : Stops(job[i], job'[i]) /\ job'[i].reader = job[i].reader
      <3>1. \A i \in Jobs : Stops(job[i], job'[i])
        BY <1>7, StoppingMoves DEF FinalizeScope, WithdrawProducer, WithdrawAll
      <3>2. ASSUME NEW S, job' = Stopping(S), NEW i \in Jobs
            PROVE  job'[i].reader = job[i].reader
        <4>1. job[i] \in JobRecord
          BY DEF Types
        <4> QED
          BY <3>2, <4>1 DEF Stopping, JobRecord
      <3> QED
        BY <1>7, <3>1, <3>2 DEF FinalizeScope, WithdrawProducer, WithdrawAll
    <2> QED
      BY <2>1, <2>2, SameIsExact
      DEF Stops, Report, Eligible, Reading, Terminals, Live
  <1>8. CASE \/ RegisterProducer \/ AcquireScope \/ StopAccepting \/ UNCHANGED registry
            \/ \E w \in Waiters : Aggregate(w)
    BY <1>8 DEF RegisterProducer, AcquireScope, StopAccepting, registry, Aggregate,
                WaitArm, WaitCheck, IndexIsExact
  <1> QED
    BY <1>1, <1>2, <1>3, <1>4, <1>5, <1>6, <1>7, <1>8, JobsConstants DEF ProviderNext, Read

-----------------------------------------------------------------------------
(* The counters.                                                            *)

LEMMA CountAdd ==
    ASSUME NEW n, NEW S, NEW x, IsCount(n, S), x \notin S
    PROVE  IsCount(n + 1, S \cup {x})
  BY FS_AddElement DEF IsCount

LEMMA CountRemove ==
    ASSUME NEW n, NEW S, NEW x, IsCount(n, S), x \in S
    PROVE  IsCount(n - 1, S \ {x})
  BY FS_RemoveElement DEF IsCount

Charging == Live \cup {"starting", "reaping", "reaped"}

(* A record that is charged in neither state, or in both to the same pair.   *)
ChargeStays(r, s) ==
    \/ r.pc \notin Charging /\ s.pc \notin Charging
    \/ /\ r.pc \in Charging /\ s.pc \in Charging
       /\ s.scope = r.scope /\ s.producer = r.producer

LEMMA ChargesStay ==
    ASSUME NEW j, \A i \in Jobs \ {j} : ChargeStays(job[i], job'[i])
    PROVE  /\ \A g : ChargedTo(g)' \ {j} = ChargedTo(g) \ {j}
           /\ \A p : ChargedBy(p)' \ {j} = ChargedBy(p) \ {j}
  BY DEF ChargedTo, ChargedBy, Charged, ChargeStays, Charging

LEMMA ChargesRemain ==
    ASSUME Types, CountsAreExact, UNCHANGED <<active, activeOf>>,
           \A i \in Jobs : ChargeStays(job[i], job'[i])
    PROVE  /\ \A g \in Generations : IsCount(active'[g], ChargedTo(g)')
           /\ \A p \in ProducerGenerations : IsCount(activeOf'[p], ChargedBy(p)')
  <1>1. /\ \A g : ChargedTo(g)' = ChargedTo(g)
        /\ \A p : ChargedBy(p)' = ChargedBy(p)
    BY DEF ChargedTo, ChargedBy, Charged, ChargeStays, Charging
  <1> QED
    BY <1>1 DEF CountsAreExact

LEMMA ReservationsRemain ==
    ASSUME Types, CountsAreExact, reserved' = reserved,
           \A i \in Jobs :
               \/ job[i].pc # "starting" /\ job'[i].pc # "starting"
               \/ job'[i].pc = job[i].pc /\ job'[i].scope = job[i].scope
    PROVE  \A g \in Generations : IsCount(reserved'[g], ReservedIn(g)')
  <1>1. \A g : ReservedIn(g)' = ReservedIn(g)
    BY DEF ReservedIn
  <1> QED
    BY <1>1 DEF CountsAreExact

LEMMA ReleaseCounts ==
    ASSUME Types, Shapes, CountsAreExact, NEW j \in Jobs, Release(j),
           \A i \in Jobs \ {j} : ChargeStays(job[i], job'[i]),
           job[j].pc \in Charging, job'[j].pc \notin Charging
    PROVE  /\ \A g \in Generations : IsCount(active'[g], ChargedTo(g)')
           /\ \A p \in ProducerGenerations : IsCount(activeOf'[p], ChargedBy(p)')
  <1> DEFINE h == job[j].scope
             q == job[j].producer
  <1>1. h \in Generations /\ q \in ProducerGenerations
    BY DEF Shapes, Shape, Charging, Retained
  <1>2. /\ \A g : ChargedTo(g)' = ChargedTo(g) \ {j}
        /\ \A p : ChargedBy(p)' = ChargedBy(p) \ {j}
    <2>1. Charged(j)' = FALSE
      BY DEF Charged, Charging
    <2> QED
      BY <2>1, ChargesStay, SMTT(60) DEF ChargedTo, ChargedBy
  <1>3. /\ \A g : j \in ChargedTo(g) <=> g = h
        /\ \A p : j \in ChargedBy(p) <=> p = q
    BY DEF ChargedTo, ChargedBy, Charged, Charging
  <1>4. ASSUME NEW g \in Generations
        PROVE  IsCount(active'[g], ChargedTo(g)')
    <2>1. active'[g] = IF g = h THEN active[g] - 1 ELSE active[g]
      BY <1>1 DEF Release, Types
    <2>2. CASE g = h
      BY <1>2, <1>3, <2>1, <2>2, CountRemove DEF CountsAreExact
    <2>3. CASE g # h
      <3>1. ChargedTo(g)' = ChargedTo(g)
        BY <1>2, <1>3, <2>3
      <3> QED
        BY <2>1, <2>3, <3>1 DEF CountsAreExact
    <2> QED
      BY <2>2, <2>3
  <1>5. ASSUME NEW p \in ProducerGenerations
        PROVE  IsCount(activeOf'[p], ChargedBy(p)')
    <2>1. activeOf'[p] = IF p = q THEN activeOf[p] - 1 ELSE activeOf[p]
      BY <1>1 DEF Release, Types
    <2>2. CASE p = q
      BY <1>2, <1>3, <2>1, <2>2, CountRemove DEF CountsAreExact
    <2>3. CASE p # q
      <3>1. ChargedBy(p)' = ChargedBy(p)
        BY <1>2, <1>3, <2>3
      <3> QED
        BY <2>1, <2>3, <3>1 DEF CountsAreExact
    <2> QED
      BY <2>2, <2>3
  <1> QED
    BY <1>4, <1>5

LEMMA UnreserveCounts ==
    ASSUME Types, Shapes, CountsAreExact, NEW j \in Jobs,
           \A i \in Jobs \ {j} : job'[i] = job[i],
           job[j].pc = "starting", job'[j].pc # "starting",
           reserved' = [reserved EXCEPT ![job[j].scope] = @ - 1]
    PROVE  \A g \in Generations : IsCount(reserved'[g], ReservedIn(g)')
  <1> DEFINE h == job[j].scope
  <1>1. h \in Generations
    BY DEF Shapes, Shape
  <1>2. \A g : ReservedIn(g)' = ReservedIn(g) \ {j}
    BY DEF ReservedIn
  <1>3. \A g : j \in ReservedIn(g) <=> g = h
    BY DEF ReservedIn
  <1> TAKE g \in Generations
  <1>4. reserved'[g] = IF g = h THEN reserved[g] - 1 ELSE reserved[g]
    BY <1>1 DEF Types
  <1>5. CASE g = h
    BY <1>2, <1>3, <1>4, <1>5, CountRemove DEF CountsAreExact
  <1>6. CASE g # h
    <2>1. ReservedIn(g)' = ReservedIn(g)
      BY <1>2, <1>3, <1>6
    <2> QED
      BY <1>4, <1>6, <2>1 DEF CountsAreExact
  <1> QED
    BY <1>5, <1>6

LEMMA SubmitCounts ==
    ASSUME Types, Shapes, IndexIsExact, CountsAreExact,
           NEW j \in Jobs, NEW needs \in BOOLEAN, Submit(j, needs)
    PROVE  CountsAreExact'
  <1> DEFINE h == scope.current
             q == producer.current
  <1>1. /\ h \in Generations /\ q \in ProducerGenerations
        /\ \A i \in Jobs \ {j} : job'[i] = job[i] \/ Evicts(job[i], job'[i])
    BY SubmitMoves
  <1>2. \A i \in Jobs \ {j} : ChargeStays(job[i], job'[i])
    BY <1>1 DEF ChargeStays, Charging, Evicts, Eligible, Terminals, Live
  <1>3. \A i \in Jobs \ {j} : \/ job'[i] = job[i]
                              \/ job[i].pc # "starting" /\ job'[i].pc # "starting"
    BY <1>1 DEF Evicts, Eligible, Terminals
  <1>4. job[j].pc = "new"
    BY DEF Submit
  <1>5. CASE job'[j] = job[j] /\ UNCHANGED <<active, activeOf, reserved>>
    <2>1. \A i \in Jobs : ChargeStays(job[i], job'[i])
      BY <1>2, <1>4, <1>5 DEF ChargeStays, Charging, Live
    <2> QED
      BY <1>3, <1>5, <2>1, ChargesRemain, ReservationsRemain DEF CountsAreExact
  <1>6. CASE /\ Submits(job[j], job'[j])
             /\ active' = [active EXCEPT ![h] = @ + 1]
             /\ activeOf' = [activeOf EXCEPT ![q] = @ + 1]
             /\ reserved' = [reserved EXCEPT ![h] = @ + 1]
    <2>1. /\ \A g : j \notin ChargedTo(g) /\ j \notin ReservedIn(g)
          /\ \A p : j \notin ChargedBy(p)
      BY <1>4 DEF ChargedTo, ChargedBy, ReservedIn, Charged, Live
    <2>2. /\ \A g : j \in ChargedTo(g)' <=> g = h
          /\ \A g : j \in ReservedIn(g)' <=> g = h
          /\ \A p : j \in ChargedBy(p)' <=> p = q
      BY <1>6 DEF ChargedTo, ChargedBy, ReservedIn, Charged, Submits
    <2>3. \A g : ReservedIn(g)' \ {j} = ReservedIn(g) \ {j}
      BY <1>3 DEF ReservedIn
    <2>4. /\ \A g : ChargedTo(g)' \ {j} = ChargedTo(g) \ {j}
          /\ \A p : ChargedBy(p)' \ {j} = ChargedBy(p) \ {j}
      BY <1>2, ChargesStay
    <2>5. ASSUME NEW g \in Generations
          PROVE  IsCount(active'[g], ChargedTo(g)') /\ IsCount(reserved'[g], ReservedIn(g)')
      <3>1. CASE g = h
        <4>1. ChargedTo(g)' = ChargedTo(g) \cup {j} /\ ReservedIn(g)' = ReservedIn(g) \cup {j}
          BY <2>1, <2>2, <2>3, <2>4, <3>1
        <4>2. active'[g] = active[g] + 1 /\ reserved'[g] = reserved[g] + 1
          BY <1>1, <1>6, <3>1 DEF Types
        <4> QED
          BY <2>1, <4>1, <4>2, CountAdd DEF CountsAreExact
      <3>2. CASE g # h
        <4>1. ChargedTo(g)' = ChargedTo(g)
          <5>1. j \notin ChargedTo(g)' /\ j \notin ChargedTo(g)
            BY <2>1, <2>2, <3>2
          <5> QED
            BY <5>1, <2>4
        <4>3. ReservedIn(g)' = ReservedIn(g)
          <5>1. j \notin ReservedIn(g)' /\ j \notin ReservedIn(g)
            BY <2>1, <2>2, <3>2
          <5> QED
            BY <5>1, <2>3
        <4>2. active'[g] = active[g] /\ reserved'[g] = reserved[g]
          BY <1>1, <1>6, <3>2 DEF Types
        <4> QED
          BY <4>1, <4>2, <4>3 DEF CountsAreExact
      <3> QED
        BY <3>1, <3>2
    <2>6. ASSUME NEW p \in ProducerGenerations
          PROVE  IsCount(activeOf'[p], ChargedBy(p)')
      <3>1. CASE p = q
        <4>1. ChargedBy(p)' = ChargedBy(p) \cup {j}
          BY <2>1, <2>2, <2>4, <3>1
        <4>2. activeOf'[p] = activeOf[p] + 1
          BY <1>1, <1>6, <3>1 DEF Types
        <4> QED
          BY <2>1, <4>1, <4>2, CountAdd DEF CountsAreExact
      <3>2. CASE p # q
        <4>1. ChargedBy(p)' = ChargedBy(p)
          BY <2>1, <2>2, <2>4, <3>2
        <4>2. activeOf'[p] = activeOf[p]
          BY <1>1, <1>6, <3>2 DEF Types
        <4> QED
          BY <4>1, <4>2 DEF CountsAreExact
      <3> QED
        BY <3>1, <3>2
    <2> QED
      BY <2>5, <2>6 DEF CountsAreExact
  <1> QED
    BY <1>5, <1>6, SubmitMoves

LEMMA NextCounts ==
    ASSUME Inv, [ProviderNext]_registry
    PROVE  CountsAreExact'
  <1> USE DEF Inv
  <1>1. ASSUME NEW j \in Jobs, NEW needs \in BOOLEAN, Submit(j, needs)
        PROVE  CountsAreExact'
    BY <1>1, SubmitCounts
  <1>2. ASSUME NEW j \in Jobs, NEW doubt \in BOOLEAN, StartFails(j, doubt)
        PROVE  CountsAreExact'
    <2>1. /\ \A i \in Jobs \ {j} : job'[i] = job[i]
          /\ Refuses(job[j], job'[j]) /\ job[j].pc = "starting"
      BY <1>2, RefusedMove DEF StartFails
    <2>2. \A i \in Jobs \ {j} : ChargeStays(job[i], job'[i])
      BY <2>1 DEF ChargeStays
    <2>3. job[j].pc \in Charging /\ job'[j].pc \notin Charging /\ job'[j].pc # "starting"
      BY <2>1 DEF Refuses, Charging, Live
    <2>4. Release(j) /\ reserved' = [reserved EXCEPT ![job[j].scope] = @ - 1]
      BY <1>2 DEF StartFails
    <2> QED
      BY <2>1, <2>2, <2>3, <2>4, ReleaseCounts, UnreserveCounts DEF CountsAreExact
  <1>3. ASSUME NEW j \in Jobs, Publish(j)
        PROVE  CountsAreExact'
    <2>1. /\ \A i \in Jobs \ {j} : job'[i] = job[i]
          /\ Publishes(job[j], job'[j]) \/ Reaps(job[j], job'[j])
          /\ job[j].pc = "starting" /\ job'[j].pc # "starting"
      BY <1>3, PublishMove
    <2>2. ChargeStays(job[j], job'[j])
      BY <2>1 DEF ChargeStays, Charging, Live, Publishes, Reaps, Origin
    <2>3. \A i \in Jobs : ChargeStays(job[i], job'[i])
      BY <2>1, <2>2 DEF ChargeStays
    <2>4. /\ UNCHANGED <<active, activeOf>>
          /\ reserved' = [reserved EXCEPT ![job[j].scope] = @ - 1]
      BY <1>3 DEF Publish
    <2> QED
      BY <2>1, <2>3, <2>4, ChargesRemain, UnreserveCounts DEF CountsAreExact
  <1>4. ASSUME NEW j \in Jobs, NEW doubt \in BOOLEAN, ReaperMarks(j, doubt)
        PROVE  CountsAreExact'
    <2>1. /\ \A i \in Jobs \ {j} : job'[i] = job[i]
          /\ Reaps(job[j], job'[j]) /\ job[j].pc = "reaping"
      BY <1>4, ReaperMarksMove
    <2>2. ChargeStays(job[j], job'[j]) /\ job'[j].pc # "starting"
      BY <2>1 DEF ChargeStays, Charging, Live, Reaps, Origin
    <2>3. \A i \in Jobs : ChargeStays(job[i], job'[i])
      BY <2>1, <2>2 DEF ChargeStays
    <2>4. UNCHANGED <<active, activeOf, reserved>>
      BY <1>4 DEF ReaperMarks
    <2> QED
      BY <2>1, <2>2, <2>3, <2>4, ChargesRemain, ReservationsRemain DEF CountsAreExact
  <1>5. ASSUME NEW j \in Jobs, ReaperReleases(j)
        PROVE  CountsAreExact'
    <2>1. /\ \A i \in Jobs \ {j} : job'[i] = job[i]
          /\ Refuses(job[j], job'[j]) /\ job[j].pc = "reaped"
      <3>1. job[j].doubt \in BOOLEAN
        BY DEF Types, JobRecord
      <3> QED
        BY <1>5, <3>1, RefusedMove DEF ReaperReleases
    <2>2. \A i \in Jobs \ {j} : ChargeStays(job[i], job'[i])
      BY <2>1 DEF ChargeStays
    <2>3. job[j].pc \in Charging /\ job'[j].pc \notin Charging /\ job'[j].pc # "starting"
      BY <2>1 DEF Refuses, Charging, Live
    <2>4. Release(j) /\ reserved' = reserved
      BY <1>5 DEF ReaperReleases
    <2> QED
      BY <2>1, <2>2, <2>3, <2>4, ReleaseCounts, ReservationsRemain DEF CountsAreExact
  <1>6. ASSUME NEW j \in Jobs, NEW end \in Terminals, Settle(j, end)
        PROVE  CountsAreExact'
    <2>1. /\ \A i \in Jobs \ {j} : job'[i] = job[i]
          /\ Settles(job[j], job'[j])
      BY <1>6, SettleMove
    <2>2. \A i \in Jobs \ {j} : ChargeStays(job[i], job'[i])
      BY <2>1 DEF ChargeStays
    <2>3. job[j].pc \in Charging /\ job'[j].pc \notin Charging
            /\ job[j].pc # "starting" /\ job'[j].pc # "starting"
      BY <2>1 DEF Settles, Charging, Live, Terminals
    <2>4. Release(j) /\ reserved' = reserved
      BY <1>6 DEF Settle
    <2> QED
      BY <2>1, <2>2, <2>3, <2>4, ReleaseCounts, ReservationsRemain DEF CountsAreExact
  <1>7. ASSUME UNCHANGED <<active, activeOf, reserved>>,
               \A i \in Jobs : \/ job'[i] = job[i]
                              \/ Stops(job[i], job'[i]) \/ Tells(job[i], job'[i])
                              \/ Finishes(job[i], job'[i])
        PROVE  CountsAreExact'
    <2>1. \A i \in Jobs : ChargeStays(job[i], job'[i])
      BY <1>7 DEF ChargeStays, Charging, Live, Terminals, Stops, Tells,
                  Finishes, Origin
    <2>2. \A i \in Jobs :
             \/ job[i].pc # "starting" /\ job'[i].pc # "starting"
             \/ job'[i].pc = job[i].pc /\ job'[i].scope = job[i].scope
      BY <1>7 DEF Live, Terminals, Stops, Tells,
                  Finishes, Origin
    <2> QED
      BY <1>7, <2>1, <2>2, ChargesRemain, ReservationsRemain DEF CountsAreExact
  <1>8. ASSUME NEW j \in Jobs, Read(j)
        PROVE  CountsAreExact'
    <2>1. UNCHANGED <<active, activeOf, reserved>>
      BY <1>8 DEF Read, Wait, ReadBegin, ReadDecide, ReadReport, ReadFails, ReadEnd
    <2>2. \A i \in Jobs : \/ job'[i] = job[i]
                         \/ Stops(job[i], job'[i]) \/ Tells(job[i], job'[i])
      BY <1>8, WaitMove, ReadMove DEF Read
    <2> QED
      BY <1>7, <2>1, <2>2
  <1>9. ASSUME NEW g \in Generations, Finalize(g)
        PROVE  CountsAreExact'
    <2>1. UNCHANGED <<active, activeOf, reserved>>
      BY <1>9 DEF Finalize, FinalizeSnapshot, FinalizeDone, FinalizeLook, FinalizeReport
    <2>2. \A i \in Jobs : job'[i] = job[i] \/ Finishes(job[i], job'[i])
      BY <1>9, FinalizeMoves
    <2> QED
      BY <1>7, <2>1, <2>2
  <1>10. CASE FinalizeScope \/ WithdrawProducer \/ WithdrawAll
    <2>1. UNCHANGED <<active, activeOf, reserved>>
      BY <1>10 DEF FinalizeScope, WithdrawProducer, WithdrawAll
    <2>2. \A i \in Jobs : Stops(job[i], job'[i])
      BY <1>10, StoppingMoves DEF FinalizeScope, WithdrawProducer, WithdrawAll
    <2> QED
      BY <1>7, <2>1, <2>2
  <1>11. CASE \/ RegisterProducer \/ AcquireScope \/ StopAccepting \/ UNCHANGED registry
             \/ \E w \in Waiters : Aggregate(w)
    <2>1. UNCHANGED <<active, activeOf, reserved, job>>
      BY <1>11 DEF RegisterProducer, AcquireScope, StopAccepting, registry, Aggregate,
                   WaitArm, WaitCheck
    <2> QED
      BY <1>7, <2>1
  <1> QED
    BY <1>1, <1>2, <1>3, <1>4, <1>5, <1>6, <1>8, <1>9, <1>10, <1>11, JobsConstants
    DEF ProviderNext, Admission, Reap
-----------------------------------------------------------------------------
(* Capacity.                                                                *)

LEMMA UnitsMembers ==
    ASSUME NEW count \in [Generations -> Nat], NEW u
    PROVE  u \in Units(count) <=>
             \E g \in Generations : \E n \in 1..count[g] : u = <<g, n>>
  BY DEF Units

LEMMA UnitsAdd ==
    ASSUME NEW count \in [Generations -> Nat], NEW more \in [Generations -> Nat],
           NEW h \in Generations, more[h] = count[h] + 1,
           \A g \in Generations \ {h} : more[g] = count[g]
    PROVE  LET u == <<h, more[h]>> IN
           /\ u \notin Units(count)
           /\ Units(more) = Units(count) \cup {u}
  <1> DEFINE u == <<h, more[h]>>
  <1>1. u \notin Units(count)
    <2> SUFFICES ASSUME u \in Units(count)
                 PROVE  FALSE
      OBVIOUS
    <2>1. PICK g \in Generations : \E n \in 1..count[g] : u = <<g, n>>
      BY UnitsMembers
    <2> QED
      BY <2>1
  <1>2. ASSUME NEW v \in Units(count)
        PROVE  v \in Units(more)
    <2>1. PICK g \in Generations : \E n \in 1..count[g] : v = <<g, n>>
      BY UnitsMembers
    <2>2. \A n \in 1..count[g] : n \in 1..more[g]
      OBVIOUS
    <2> QED
      BY <2>1, <2>2, UnitsMembers
  <1>3. u \in Units(more)
    <2>1. more[h] \in 1..more[h]
      OBVIOUS
    <2> QED
      BY <2>1, UnitsMembers
  <1>4. ASSUME NEW v \in Units(more)
        PROVE  v \in Units(count) \cup {u}
    <2>1. PICK g \in Generations : \E n \in 1..more[g] : v = <<g, n>>
      BY UnitsMembers
    <2>2. PICK n \in 1..more[g] : v = <<g, n>>
      BY <2>1
    <2>3. CASE n \in 1..count[g]
      BY <2>2, <2>3, UnitsMembers
    <2>4. CASE n \notin 1..count[g]
      BY <2>2, <2>4
    <2> QED
      BY <2>3, <2>4
  <1> QED
    BY <1>1, <1>2, <1>3, <1>4

LEMMA TotalAdd ==
    ASSUME NEW count \in [Generations -> Nat], NEW more \in [Generations -> Nat],
           NEW h \in Generations, more[h] = count[h] + 1,
           \A g \in Generations \ {h} : more[g] = count[g],
           IsFiniteSet(Units(count)) \/ IsFiniteSet(Units(more))
    PROVE  /\ IsFiniteSet(Units(more)) /\ IsFiniteSet(Units(count))
           /\ Total(count) \in Nat /\ Total(more) = Total(count) + 1
  <1> DEFINE u == <<h, more[h]>>
  <1>1. u \notin Units(count) /\ Units(more) = Units(count) \cup {u}
    BY UnitsAdd
  <1> HIDE DEF u
  <1>2. IsFiniteSet(Units(count))
    <2>1. Units(count) \subseteq Units(more)
      BY <1>1
    <2> QED
      BY <2>1, FS_Subset
  <1> QED
    BY <1>1, <1>2, FS_AddElement, FS_CardinalityType DEF Total

(* A step that leaves the records and the reservations leaves room.          *)
LEMMA FitStays ==
    ASSUME RecordsFit, MaxRetained \in Nat, reserved' = reserved,
           Records' \subseteq Records
    PROVE  RecordsFit'
  <1>1. /\ IsFiniteSet(Records') /\ Cardinality(Records') <= Cardinality(Records)
        /\ Cardinality(Records) \in Nat /\ Cardinality(Records') \in Nat
        /\ Total(reserved) \in Nat
    BY FS_Subset, FS_CardinalityType DEF RecordsFit, Total
  <1>2. IsFiniteSet(Units(reserved)') /\ Total(reserved)' = Total(reserved)
    BY DEF RecordsFit, Total, Units
  <1> QED
    BY <1>1, <1>2 DEF RecordsFit

LEMMA FitUnreserved ==
    ASSUME Types, Types', Shapes, CountsAreExact, RecordsFit, NEW j \in Jobs,
           job[j].pc = "starting",
           reserved' = [reserved EXCEPT ![job[j].scope] = @ - 1],
           Records' \subseteq Records \cup {j}
    PROVE  RecordsFit'
  <1> DEFINE g == job[j].scope
  <1>1. g \in Generations /\ j \in ReservedIn(g)
    BY DEF Shapes, Shape, ReservedIn
  <1>2. reserved[g] \in Nat \ {0}
    BY <1>1, FS_EmptySet, FS_CardinalityType DEF CountsAreExact, IsCount
  <1>3. /\ reserved \in [Generations -> Nat] /\ reserved' \in [Generations -> Nat]
        /\ reserved[g] = reserved'[g] + 1
        /\ \A h \in Generations \ {g} : reserved[h] = reserved'[h]
    BY <1>1, <1>2 DEF Types
  <1>4. /\ IsFiniteSet(Units(reserved'))
        /\ Total(reserved') \in Nat /\ Total(reserved) = Total(reserved') + 1
    BY <1>1, <1>3, TotalAdd DEF RecordsFit
  <1>5. /\ IsFiniteSet(Records \cup {j})
        /\ Cardinality(Records \cup {j}) <= Cardinality(Records) + 1
        /\ Cardinality(Records) \in Nat /\ Cardinality(Records \cup {j}) \in Nat
    <2>1. j \notin Records
      BY DEF Records, Retained, Live, Terminals
    <2>2. /\ IsFiniteSet(Records \cup {j})
          /\ Cardinality(Records \cup {j}) = Cardinality(Records) + 1
      BY <2>1, FS_AddElement DEF RecordsFit
    <2>3. Cardinality(Records) \in Nat
      BY FS_CardinalityType DEF RecordsFit
    <2> QED
      BY <2>2, <2>3
  <1>6. /\ IsFiniteSet(Records') /\ Cardinality(Records') \in Nat
        /\ Cardinality(Records') <= Cardinality(Records \cup {j})
    BY <1>5, FS_Subset, FS_CardinalityType
  <1>7. Units(reserved)' = Units(reserved') /\ Total(reserved)' = Total(reserved')
    BY DEF Total, Units
  <1> QED
    BY <1>4, <1>5, <1>6, <1>7, JobsConstants DEF RecordsFit

LEMMA SubmitFits ==
    ASSUME Inv, Types', NEW j \in Jobs, NEW needs \in BOOLEAN, Submit(j, needs)
    PROVE  RecordsFit'
  <1> USE DEF Inv
  <1> DEFINE g == scope.current
             p == producer.current
             first == FirstOut(g)
             second == SecondOut(g)
             out == first \cup second
             admitted == /\ Compacts(g)
                         /\ Total(active) < MaxActive /\ active[g] < MaxActiveScope
             fresh == [NewJob EXCEPT !.pc = "starting", !.scope = g,
                                     !.producer = p, !.needs = needs]
             left == Records \ first
  <1>1. g \in Generations
    BY SubmitMoves
  <1>2. first \subseteq Records /\ second \subseteq left
    <2>1. evictable \subseteq Records
      BY DEF IndexIsExact, Eligible, Records, Retained
    <2>2. first \subseteq evictable
      BY DEF FirstOut, Oldest
    <2>3. second \subseteq evictable \ first
      BY DEF SecondOut, Oldest
    <2> QED
      BY <2>1, <2>2, <2>3
  <1>3. \A i \in Jobs : i \in out => Compacted(out)[i].pc = "evicted"
    BY DEF Compacted, Types, JobRecord
  <1>4. \A i \in Jobs : i \notin out => Compacted(out)[i] = job[i]
    BY DEF Compacted
  <1>5. CASE ~admitted
    <2>1. job' = Compacted(out) /\ reserved' = reserved
      BY <1>1, <1>5 DEF Submit, Types
    <2>2. Records' \subseteq Records
      BY <1>3, <1>4, <2>1 DEF Records, Retained, Live, Terminals
    <2> QED
      BY <2>1, <2>2, FitStays, JobsConstants
  <1>6. CASE admitted
    <2>1. /\ job' = [Compacted(out) EXCEPT ![j] = fresh]
          /\ reserved' = [reserved EXCEPT ![g] = @ + 1]
      BY <1>6 DEF Submit
    <2>2. job'[j].pc = "starting" /\ \A i \in Jobs \ {j} : job'[i] = Compacted(out)[i]
      BY <2>1, CompactedType DEF NewJob
    <2>3. Records' \subseteq left \ second
      BY <1>3, <1>4, <2>2 DEF Records, Retained, Live, Terminals
    <2>4. /\ Cardinality(second) = TotalExcess(g)
          /\ TotalExcess(g) = Excess(Cardinality(left) + Total(reserved), MaxRetained)
      BY <1>6 DEF Compacts, TotalExcess
    <2>5. /\ IsFiniteSet(left) /\ IsFiniteSet(left \ second) /\ IsFiniteSet(Records')
          /\ Cardinality(left \ second) = Cardinality(left) - Cardinality(second)
      <3>1. IsFiniteSet(left) /\ left \cap second = second
        BY <1>2, FS_Subset DEF RecordsFit
      <3>2. IsFiniteSet(left \ second)
        BY <3>1, FS_Subset
      <3> HIDE DEF left, second
      <3> QED
        BY <2>3, <3>1, <3>2, FS_Difference, FS_Subset
    <2>6. /\ Cardinality(left) \in Nat /\ Cardinality(left \ second) \in Nat
          /\ Cardinality(Records') \in Nat /\ Total(reserved) \in Nat
          /\ Cardinality(Records') <= Cardinality(left \ second)
      BY <2>3, <2>5, FS_Subset, FS_CardinalityType DEF RecordsFit, Total
    <2>7. IsFiniteSet(Units(reserved')) /\ Total(reserved') = Total(reserved) + 1
      <3>1. /\ reserved \in [Generations -> Nat] /\ reserved' \in [Generations -> Nat]
            /\ reserved'[g] = reserved[g] + 1
            /\ \A h \in Generations \ {g} : reserved'[h] = reserved[h]
        BY <1>1, <2>1 DEF Types
      <3> QED
        BY <1>1, <3>1, TotalAdd DEF RecordsFit
    <2>8. Units(reserved)' = Units(reserved') /\ Total(reserved)' = Total(reserved')
      BY DEF Total, Units
    <2>9. Cardinality(Records') + Total(reserved') <= MaxRetained
      <3> HIDE DEF left, second
      <3> QED
        BY <2>4, <2>5, <2>6, <2>7, JobsConstants DEF Excess
    <2> QED
      BY <2>5, <2>7, <2>8, <2>9 DEF RecordsFit
  <1> QED
    BY <1>5, <1>6

LEMMA NextRecordsFit ==
    ASSUME Inv, [ProviderNext]_registry
    PROVE  RecordsFit'
  <1> USE DEF Inv
  <1>1. Types'
    BY NextTypes
  <1>2. ASSUME NEW j \in Jobs, NEW needs \in BOOLEAN, Submit(j, needs)
        PROVE  RecordsFit'
    BY <1>1, <1>2, SubmitFits
  <1>3. ASSUME NEW j \in Jobs, Admission(j)
        PROVE  RecordsFit'
    <2>1. /\ job[j].pc = "starting"
          /\ reserved' = [reserved EXCEPT ![job[j].scope] = @ - 1]
          /\ \A i \in Jobs \ {j} : job'[i] = job[i]
      BY <1>3 DEF Admission, StartFails, Publish, Update, Types
    <2>2. Records' \subseteq Records \cup {j}
      BY <2>1 DEF Records
    <2> QED
      BY <1>1, <2>1, <2>2, FitUnreserved
  <1>4. ASSUME reserved' = reserved,
               \A i \in Jobs :
                   \/ job'[i] = job[i]
                   \/ Refuses(job[i], job'[i]) \/ Reaps(job[i], job'[i])
                   \/ Settles(job[i], job'[i]) \/ Stops(job[i], job'[i])
                   \/ Tells(job[i], job'[i]) \/ Finishes(job[i], job'[i])
        PROVE  RecordsFit'
    <2>1. Records' \subseteq Records
      BY <1>4 DEF Records, Refuses, Reaps, Settles, Stops, Tells, Finishes,
                  Retained, Live, Terminals
    <2> QED
      BY <1>4, <2>1, FitStays, JobsConstants
  <1>5. ASSUME NEW j \in Jobs, Reap(j)
        PROVE  RecordsFit'
    <2>1. job[j].doubt \in BOOLEAN
      BY DEF Types, JobRecord
    <2>2. \A i \in Jobs : \/ job'[i] = job[i]
                         \/ Refuses(job[i], job'[i]) \/ Reaps(job[i], job'[i])
      BY <1>5, <2>1, RefusedMove, ReaperMarksMove DEF Reap, ReaperReleases
    <2>3. reserved' = reserved
      BY <1>5 DEF Reap, ReaperMarks, ReaperReleases
    <2> QED
      BY <1>4, <2>2, <2>3
  <1>6. ASSUME NEW j \in Jobs, Read(j)
        PROVE  RecordsFit'
    <2>1. reserved' = reserved
      BY <1>6 DEF Read, Wait, ReadBegin, ReadDecide, ReadReport, ReadFails, ReadEnd
    <2>2. \A i \in Jobs : \/ job'[i] = job[i]
                         \/ Stops(job[i], job'[i]) \/ Tells(job[i], job'[i])
      BY <1>6, WaitMove, ReadMove DEF Read
    <2> QED
      BY <1>4, <2>1, <2>2
  <1>7. ASSUME NEW j \in Jobs, NEW end \in Terminals, Settle(j, end)
        PROVE  RecordsFit'
    <2>1. reserved' = reserved
      BY <1>7 DEF Settle
    <2> QED
      BY <1>4, <1>7, <2>1, SettleMove
  <1>8. ASSUME NEW g \in Generations, Finalize(g)
        PROVE  RecordsFit'
    <2>1. reserved' = reserved
      BY <1>8 DEF Finalize, FinalizeSnapshot, FinalizeDone, FinalizeLook, FinalizeReport
    <2> QED
      BY <1>4, <1>8, <2>1, FinalizeMoves
  <1>9. CASE FinalizeScope \/ WithdrawProducer \/ WithdrawAll
    <2>1. reserved' = reserved
      BY <1>9 DEF FinalizeScope, WithdrawProducer, WithdrawAll
    <2>2. \A i \in Jobs : Stops(job[i], job'[i])
      BY <1>9, StoppingMoves DEF FinalizeScope, WithdrawProducer, WithdrawAll
    <2> QED
      BY <1>4, <2>1, <2>2
  <1>10. CASE \/ RegisterProducer \/ AcquireScope \/ StopAccepting \/ UNCHANGED registry
             \/ \E w \in Waiters : Aggregate(w)
    <2>1. UNCHANGED <<reserved, job>>
      BY <1>10 DEF RegisterProducer, AcquireScope, StopAccepting, registry, Aggregate,
                   WaitArm, WaitCheck
    <2> QED
      BY <1>4, <2>1
  <1> QED
    BY <1>2, <1>3, <1>5, <1>6, <1>7, <1>8, <1>9, <1>10, JobsConstants DEF ProviderNext

-----------------------------------------------------------------------------
(* Generations.                                                             *)

LEMMA NextNothingOutlives ==
    ASSUME Inv, [ProviderNext]_registry
    PROVE  NothingOutlivesItsGeneration'
  <1> USE DEF Inv
  <1> SUFFICES ASSUME NEW i \in Jobs, job'[i].pc = "running"
               PROVE  /\ scope'.current = job'[i].scope
                      /\ producer'.current = job'[i].producer
    BY DEF NothingOutlivesItsGeneration, Live
  <1> DEFINE r == job[i]
             s == job'[i]
  <1>1. /\ scope.current = s.scope /\ producer.current = s.producer
        /\ s.scope # 0 /\ s.producer # 0
    <2>1. \/ r.pc = "running" /\ s.scope = r.scope /\ s.producer = r.producer
          \/ Publishes(r, s)
      BY StepMoves DEF Moves, Submits, Refuses, Publishes, Reaps, Settles, Stops,
                       Tells, Evicts, Finishes, Terminals, Origin
    <2>2. s.scope # 0 /\ s.producer # 0
      BY NextShapes, JobsConstants
      DEF Shapes, Shape, Retained, Live, Generations, ProducerGenerations
    <2> QED
      BY <2>1, <2>2 DEF NothingOutlivesItsGeneration, Live, Publishes, Origin
  <1>2. CASE UNCHANGED <<scope, producer>>
    BY <1>1, <1>2
  <1>3. CASE RegisterProducer \/ AcquireScope
    BY <1>1, <1>3 DEF RegisterProducer, AcquireScope
  <1>4. ASSUME NEW S, job' = Stopping(S), i \in S
        PROVE  FALSE
    BY <1>4, StoppingMoves DEF Stops, Live
  <1>5. ASSUME NEW S, job' = Stopping(S)
        PROVE  r.pc = "running" /\ s.scope = r.scope /\ s.producer = r.producer
    BY <1>5, StoppingMoves DEF Stops, Origin
  <1>6. CASE FinalizeScope
    <2>1. job' = Stopping(Members(scope.current))
      BY <1>6 DEF FinalizeScope
    <2>2. i \in Members(scope.current)
      BY <1>1, <1>5, <2>1 DEF Members, Retained, Live
    <2> QED
      BY <1>4, <2>1, <2>2
  <1>7. CASE WithdrawProducer
    <2>1. job' = Stopping({j \in Jobs : job[j].producer = producer.current})
      BY <1>7 DEF WithdrawProducer
    <2>2. i \in {j \in Jobs : job[j].producer = producer.current}
      BY <1>1, <1>5, <2>1
    <2> QED
      BY <1>4, <2>1, <2>2
  <1>8. CASE WithdrawAll
    BY <1>4, <1>8 DEF WithdrawAll
  <1>9. \/ UNCHANGED <<scope, producer>> \/ RegisterProducer \/ AcquireScope
        \/ FinalizeScope \/ WithdrawProducer \/ WithdrawAll
    BY ZenonT(60) DEF ProviderNext, registry, Submit, Admission, StartFails, Publish, Reap, ReaperMarks,
       ReaperReleases, Read, Wait, ReadBegin, ReadDecide, ReadReport, ReadFails,
       ReadEnd, Settle, Aggregate, WaitArm, WaitCheck, Finalize, FinalizeSnapshot,
       FinalizeDone, FinalizeLook, FinalizeReport, StopAccepting
  <1> QED
    BY <1>2, <1>3, <1>6, <1>7, <1>8, <1>9

-----------------------------------------------------------------------------
(* Finalized generations.                                                   *)

(* What a step may do to the wait of a scope finalizer.                      *)
LEMMA WaiterSteps ==
    ASSUME Inv, [ProviderNext]_registry, NEW g \in Generations
    PROVE  LET w == <<"scope", g>> IN
           /\ waiter[w] = "none" /\ waiter'[w] # "none" =>
                FinalizeScope /\ g = scope.current /\ waiter'[w] = "begin"
           /\ waiter[w] = "quiet" => waiter'[w] = "quiet"
           /\ waiter[w] # "quiet" /\ waiter'[w] = "quiet" =>
                active[g] = 0 /\ job' = job
  <1> DEFINE w == <<"scope", g>>
  <1> USE DEF Inv
  <1>1. /\ w \in Waiters /\ <<"all", 1>> \in Waiters /\ w # <<"all", 1>>
        /\ \A p \in ProducerGenerations :
             <<"producer", p>> \in Waiters /\ w # <<"producer", p>>
    BY DEF Waiters
  <1>2. /\ waiter[w] \in WaitStates
        /\ Notified[w] = IF waiter[w] \in {"armed", "asleep"} THEN "begin" ELSE waiter[w]
        /\ Notified \in [Waiters -> WaitStates]
    BY <1>1, NotifiedType DEF Types, Notified
  <1>3. CASE waiter' = waiter
    BY <1>3
  <1>4. CASE waiter' = Notified
    BY <1>2, <1>4
  <1>5. ASSUME NEW v \in Waiters, NEW x, v # w, waiter' = [Notified EXCEPT ![v] = x]
        PROVE  waiter'[w] = Notified[w]
    BY <1>1, <1>2, <1>5
  <1>6. CASE WithdrawAll
    <2>1. waiter'[w] = Notified[w]
      BY <1>1, <1>5, <1>6 DEF WithdrawAll
    <2> QED
      BY <1>2, <2>1
  <1>7. CASE WithdrawProducer
    <2>1. producer.current \in ProducerGenerations
      BY <1>7, JobsConstants DEF WithdrawProducer, Types, ProducerGenerations
    <2>2. waiter'[w] = Notified[w]
      BY <1>1, <1>5, <1>7, <2>1 DEF WithdrawProducer
    <2> QED
      BY <1>2, <2>2
  <1>8. CASE FinalizeScope
    <2> DEFINE h == scope.current
    <2>1. h \in Generations /\ waiter' = [Notified EXCEPT ![<<"scope", h>>] = "begin"]
      BY <1>8, JobsConstants DEF FinalizeScope, ScopeIsCurrent, Types, Generations
    <2>2. CASE g = h
      <3>1. waiter'[w] = "begin" /\ waiter[w] # "quiet"
        BY <1>1, <1>2, <2>1, <2>2 DEF FinalizedIsOver
      <3> QED
        BY <1>8, <2>2, <3>1
    <2>3. CASE g # h
      <3>1. <<"scope", h>> \in Waiters /\ <<"scope", h>> # w
        BY <2>1, <2>3 DEF Waiters
      <3>2. waiter'[w] = Notified[w]
        BY <1>5, <2>1, <3>1
      <3> QED
        BY <1>2, <3>2
    <2> QED
      BY <2>2, <2>3
  <1>9. ASSUME NEW v \in Waiters, Aggregate(v)
        PROVE  /\ waiter[w] = "none" => waiter'[w] = "none"
               /\ waiter[w] = "quiet" => waiter'[w] = "quiet"
               /\ waiter[w] # "quiet" /\ waiter'[w] = "quiet" =>
                    active[g] = 0 /\ job' = job
    <2>1. job' = job
      BY <1>9 DEF Aggregate, WaitArm, WaitCheck
    <2>2. CASE v # w
      BY <1>1, <1>9, <2>2 DEF Aggregate, WaitArm, WaitCheck, Types
    <2>3. CASE v = w
      <3>1. Count(w) = active[g]
        BY DEF Count
      <3> QED
        BY <1>1, <1>9, <2>1, <2>3, <3>1 DEF Aggregate, WaitArm, WaitCheck, Types
    <2> QED
      BY <2>2, <2>3
  <1>10. \/ waiter' = waiter \/ waiter' = Notified
         \/ FinalizeScope \/ WithdrawProducer \/ WithdrawAll
         \/ \E v \in Waiters : Aggregate(v)
    BY ZenonT(60) DEF ProviderNext, registry, RegisterProducer, AcquireScope, Submit, Admission, StartFails,
       Publish, Reap, ReaperMarks, ReaperReleases, Release, Read, Wait, ReadBegin,
       ReadDecide, ReadReport, ReadFails, ReadEnd, Settle, Finalize,
       FinalizeSnapshot, FinalizeDone, FinalizeLook, FinalizeReport, StopAccepting
  <1> QED
    BY <1>3, <1>4, <1>6, <1>7, <1>8, <1>9, <1>10

LEMMA ChargesAppear ==
    ASSUME Inv, [ProviderNext]_registry, NEW g \in Generations, NEW i \in ChargedTo(g)'
    PROVE  i \in ChargedTo(g) \/ scope.current = g
  <1>1. i \in Jobs /\ job'[i].scope = g /\ job'[i].pc \in Charging
    BY DEF ChargedTo, Charged, Charging
  <1>2. (job[i].pc \in Charging /\ job[i].scope = g) \/ Submits(job[i], job'[i])
    BY <1>1, StepMoves DEF Moves, Refuses, Publishes, Reaps, Settles, Stops,
       Tells, Evicts, Finishes, Terminals, Origin, Charging, Live
  <1> QED
    BY <1>1, <1>2 DEF Submits, ChargedTo, Charged, Charging

LEMMA ScopeSteps ==
    ASSUME Inv, [ProviderNext]_registry
    PROVE  /\ scope'.last \in Nat /\ scope.last \in Nat
           /\ \/ scope' = scope
              \/ scope'.current = 0 /\ scope'.last = scope.last
              \/ scope'.current = scope.last + 1 /\ scope'.last = scope.last + 1
  <1>1. scope.last \in Nat /\ scope'.last \in Nat
    BY NextTypes, JobsConstants DEF Inv, Types
  <1>2. \/ scope' = scope \/ AcquireScope \/ FinalizeScope \/ WithdrawAll
    BY DEF ProviderNext, registry, RegisterProducer, Submit, Admission, StartFails, Publish,
       Reap, ReaperMarks, ReaperReleases, Read, Wait, ReadBegin, ReadDecide,
       ReadReport, ReadFails, ReadEnd, Settle, Aggregate, WaitArm, WaitCheck,
       Finalize, FinalizeSnapshot, FinalizeDone, FinalizeLook, FinalizeReport,
       StopAccepting, WithdrawProducer
  <1> QED
    BY <1>1, <1>2 DEF AcquireScope, FinalizeScope, WithdrawAll, Inv, Types

LEMMA NextFinalizedIsOver ==
    ASSUME Inv, [ProviderNext]_registry
    PROVE  FinalizedIsOver'
  <1> USE DEF Inv
  <1> SUFFICES ASSUME NEW g \in Generations
               PROVE  LET w == <<"scope", g>> IN
                      /\ waiter'[w] # "none" => g <= scope'.last /\ scope'.current # g
                      /\ waiter'[w] = "quiet" => ChargedTo(g)' = {}
    BY DEF FinalizedIsOver
  <1> DEFINE w == <<"scope", g>>
  <1>0. g \in Nat \ {0} /\ scope.current \in {0, scope.last}
    BY JobsConstants DEF Generations, Types
  <1>1. ASSUME waiter'[w] # "none"
        PROVE  g <= scope'.last /\ scope'.current # g
    <2>1. CASE waiter[w] # "none"
      <3>1. g <= scope.last /\ scope.current # g
        BY <2>1 DEF FinalizedIsOver
      <3> QED
        BY <1>0, <3>1, ScopeSteps
    <2>2. CASE waiter[w] = "none"
      <3>1. FinalizeScope /\ g = scope.current
        BY <1>1, <2>2, WaiterSteps
      <3>2. scope'.current = 0 /\ scope'.last = scope.last
        BY <3>1 DEF FinalizeScope, Types
      <3> QED
        BY <1>0, <3>1, <3>2, ScopeSteps
    <2> QED
      BY <2>1, <2>2
  <1>2. ASSUME waiter'[w] = "quiet"
        PROVE  ChargedTo(g)' = {}
    <2>1. CASE waiter[w] = "quiet"
      <3>1. ChargedTo(g) = {} /\ scope.current # g
        BY <2>1 DEF FinalizedIsOver
      <3> QED
        BY <3>1, ChargesAppear
    <2>2. CASE waiter[w] # "quiet"
      <3>1. active[g] = 0 /\ job' = job
        BY <1>2, <2>2, WaiterSteps
      <3>2. ChargedTo(g)' = ChargedTo(g)
        BY <3>1 DEF ChargedTo, Charged
      <3>3. ChargedTo(g) = {}
        BY <3>1, FS_EmptySet DEF CountsAreExact, IsCount
      <3> QED
        BY <3>2, <3>3
    <2> QED
      BY <2>1, <2>2
  <1> QED
    BY <1>1, <1>2

-----------------------------------------------------------------------------
(* Reports.                                                                 *)

LEMMA PublishedStays ==
    ASSUME Inv, [ProviderNext]_registry, NEW i \in Jobs, job[i].pc \in Published
    PROVE  /\ job'[i].pc \in Published
           /\ job'[i].scope = job[i].scope /\ job'[i].needs = job[i].needs
           /\ job[i].reported => job'[i].reported
           /\ job[i].delivered => job'[i].delivered
  <1>1. Shape(job[i])
    BY DEF Inv, Shapes
  <1> QED
    BY <1>1, StepMoves DEF Moves, Submits, Refuses, Publishes, Reaps, Settles, Stops,
       Tells, Evicts, Finishes, Terminals, Origin, Report, Published, Retained, Live,
       Shape

(* Once a scope is quiet, nothing new is left to be told.                    *)
LEMMA UntoldIsOld ==
    ASSUME Inv, [ProviderNext]_registry, NEW i \in Jobs, NEW g \in Generations,
           waiter[<<"scope", g>>] = "quiet", job'[i].scope = g, Untold(i)'
    PROVE  job[i].scope = g /\ Untold(i)
  <1>1. \/ job[i].scope = g /\ Untold(i)
        \/ job[i].scope = g /\ job[i].pc \in Live \cup {"starting"}
    BY StepMoves DEF Moves, Submits, Refuses, Publishes, Reaps, Settles, Stops,
       Tells, Evicts, Finishes, Terminals, Origin, Report, Published, Retained, Live,
       Untold, Eligible
  <1>2. ChargedTo(g) = {}
    BY DEF Inv, FinalizedIsOver
  <1> QED
    BY <1>1, <1>2 DEF ChargedTo, Charged

LEMMA ReportSteps ==
    ASSUME Inv, [ProviderNext]_registry, NEW g \in Generations
    PROVE  report'[g] = report[g] \/ Finalize(g)
  <1>1. \/ report' = report \/ \E h \in Generations : Finalize(h)
    BY DEF ProviderNext, registry, RegisterProducer, AcquireScope, Submit, Admission, StartFails,
       Publish, Reap, ReaperMarks, ReaperReleases, Read, Wait, ReadBegin, ReadDecide,
       ReadReport, ReadFails, ReadEnd, Settle, Aggregate, WaitArm, WaitCheck,
       FinalizeScope, WithdrawProducer, StopAccepting, WithdrawAll
  <1>2. ASSUME NEW h \in Generations, h # g, Finalize(h)
        PROVE  report'[g] = report[g]
    BY <1>2 DEF Finalize, FinalizeSnapshot, FinalizeDone, FinalizeLook,
                FinalizeReport, Inv, Types
  <1> QED
    BY <1>1, <1>2

(* What each step of the finalizer does to its report.                       *)
LEMMA SnapshotStep ==
    ASSUME Types, NEW g \in Generations, FinalizeSnapshot(g)
    PROVE  LET r == report[g]
               s == report'[g] IN
           /\ s.pc = "reporting" /\ s.at = r.at /\ s.unreported = r.unreported
           /\ s.todo = {j \in Members(g) : job[j].needs /\ ~job[j].reported}
  <1> DEFINE todo == {j \in Members(g) : job[j].needs /\ ~job[j].reported}
  <1>1. report[g] \in ReportRecord
    BY DEF Types
  <1>2. report'[g] = [report[g] EXCEPT !.pc = "reporting", !.todo = todo]
    BY DEF FinalizeSnapshot, Types
  <1> HIDE DEF todo
  <1>3. /\ report'[g].pc = "reporting" /\ report'[g].at = report[g].at
        /\ report'[g].unreported = report[g].unreported /\ report'[g].todo = todo
    BY <1>1, <1>2 DEF ReportRecord
  <1> QED
    BY <1>3 DEF todo

LEMMA LookStep ==
    ASSUME Types, NEW g \in Generations, NEW j \in Jobs, FinalizeLook(g, j)
    PROVE  LET r == report[g]
               s == report'[g] IN
           /\ s.pc = r.pc /\ s.unreported = r.unreported /\ s.unknown = r.unknown
           /\ s.todo = r.todo \ {j}
           /\ s.at = IF job[j].pc \notin Retained \/ job[j].reported THEN {} ELSE {j}
  <1>1. report[g] \in ReportRecord
    BY DEF Types
  <1> DEFINE at == IF job[j].pc \notin Retained \/ job[j].reported THEN {} ELSE {j}
  <1>2. report'[g] = [report[g] EXCEPT !.todo = @ \ {j}, !.at = at]
    BY DEF FinalizeLook, Types
  <1> HIDE DEF at
  <1>3. /\ report'[g].pc = report[g].pc /\ report'[g].at = at
        /\ report'[g].unreported = report[g].unreported
        /\ report'[g].unknown = report[g].unknown
        /\ report'[g].todo = report[g].todo \ {j}
    BY <1>1, <1>2 DEF ReportRecord
  <1> QED
    BY <1>3 DEF at

LEMMA ReportStep ==
    ASSUME Types, NEW g \in Generations, NEW j \in Jobs, FinalizeReport(g, j)
    PROVE  LET r == report[g]
               s == report'[g]
               fresh == job[j].pc \in Retained /\ ~job[j].reported IN
           /\ s.pc = r.pc /\ s.todo = r.todo /\ s.unknown = r.unknown /\ s.at = {}
           /\ s.unreported = IF fresh THEN r.unreported \cup {j} ELSE r.unreported
  <1>1. report[g] \in ReportRecord
    BY DEF Types
  <1> DEFINE fresh == job[j].pc \in Retained /\ ~job[j].reported
             list == IF fresh THEN report[g].unreported \cup {j}
                     ELSE report[g].unreported
  <1>2. report'[g] = [report[g] EXCEPT !.at = {}, !.unreported = list]
    BY <1>1 DEF FinalizeReport, Types, ReportRecord
  <1> HIDE DEF list
  <1>3. /\ report'[g].pc = report[g].pc /\ report'[g].at = {}
        /\ report'[g].todo = report[g].todo
        /\ report'[g].unknown = report[g].unknown
        /\ report'[g].unreported = list
    BY <1>1, <1>2 DEF ReportRecord
  <1> QED
    BY <1>3 DEF list

LEMMA DoneStep ==
    ASSUME Types, NEW g \in Generations, FinalizeDone(g)
    PROVE  LET r == report[g]
               s == report'[g] IN
           /\ s.pc = "done" /\ s.todo = r.todo /\ s.at = r.at
           /\ s.unreported = r.unreported /\ s.unknown = (g \in unknown)
  <1> DEFINE r == report[g]
             s == report'[g]
             b == (g \in unknown)
  <1>1. r \in ReportRecord /\ b \in BOOLEAN
    BY DEF Types
  <1>2. s = [r EXCEPT !.pc = "done", !.unknown = b]
    BY DEF FinalizeDone, Types
  <1> HIDE DEF r, s, b
  <1>3. /\ s.pc = "done" /\ s.todo = r.todo /\ s.at = r.at
        /\ s.unreported = r.unreported /\ s.unknown = b
    BY <1>1, <1>2 DEF ReportRecord
  <1> QED
    BY <1>3, Zenon DEF r, s, b

LEMMA NextReportsAreComplete ==
    ASSUME Inv, [ProviderNext]_registry
    PROVE  ReportsAreComplete'
  <1> USE DEF Inv
  <1> SUFFICES ASSUME NEW g \in Generations
               PROVE  ReportIsComplete(g)'
    BY DEF ReportsAreComplete
  <1>1. ReportIsComplete(g) /\ report[g] \in ReportRecord
    BY DEF ReportsAreComplete, Types
  <1>2. \A j \in Jobs : Shape(job[j])
    BY DEF Shapes
  <1>3. CASE report'[g] = report[g]
    <2> DEFINE listed == report[g].todo \cup report[g].at
    <2>1. report[g].pc # "none" =>
             waiter[<<"scope", g>>] = "quiet" /\ waiter'[<<"scope", g>>] = "quiet"
      BY <1>1, WaiterSteps DEF ReportIsComplete
    <2>2. \A j \in listed : job'[j].scope = g /\ job'[j].pc \in Published
      BY <1>1, PublishedStays DEF ReportIsComplete, ReportRecord
    <2>3. report[g].pc # "none" =>
            \A j \in Jobs : job'[j].scope = g /\ Untold(j)' =>
                report[g].pc = "reporting" /\ j \in listed
      BY <1>1, <2>1, UntoldIsOld DEF ReportIsComplete
    <2> QED
      BY <1>1, <1>3, <2>1, <2>2, <2>3 DEF ReportIsComplete
  <1>4. CASE FinalizeSnapshot(g)
    <2>1. waiter[<<"scope", g>>] = "quiet" /\ report[g].pc = "none"
            /\ UNCHANGED <<job, waiter>>
      BY <1>4 DEF FinalizeSnapshot
    <2>2. /\ report'[g].pc = "reporting" /\ report'[g].at = {}
          /\ report'[g].todo = {j \in Members(g) : job[j].needs /\ ~job[j].reported}
      BY <1>1, <1>4, <2>1, SnapshotStep DEF ReportIsComplete
    <2>3. \A j \in Jobs : j \in report'[g].todo <=> job[j].scope = g /\ Untold(j)
      BY <1>2, <2>2 DEF Members, Untold, Published, Shape
    <2>4. report'[g].todo \subseteq Jobs
      BY <2>2 DEF Members
    <2> QED
      BY <2>1, <2>2, <2>3, <2>4 DEF ReportIsComplete, Untold
  <1>5. ASSUME NEW j \in Jobs, FinalizeLook(g, j)
        PROVE  ReportIsComplete(g)'
    <2>1. j \in report[g].todo /\ report[g].at = {} /\ UNCHANGED <<job, waiter>>
      BY <1>5 DEF FinalizeLook
    <2>2. /\ report'[g].pc = report[g].pc /\ report'[g].todo = report[g].todo \ {j}
          /\ report'[g].at =
               IF job[j].pc \notin Retained \/ job[j].reported THEN {} ELSE {j}
      BY <1>5, LookStep
    <2>3. Untold(j) => report'[g].at = {j}
      BY <1>2, <2>2 DEF Untold, Published, Shape
    <2>4. \A i \in Jobs : Untold(i)' <=> Untold(i)
      BY <2>1 DEF Untold
    <2> QED
      BY <1>1, <2>1, <2>2, <2>3, <2>4 DEF ReportIsComplete
  <1>6. ASSUME NEW j \in Jobs, FinalizeReport(g, j)
        PROVE  ReportIsComplete(g)'
    <2>1. j \in report[g].at /\ waiter' = waiter
      BY <1>6 DEF FinalizeReport
    <2>2. report[g].at = {j}
      BY <1>1, <2>1 DEF ReportIsComplete
    <2>3. /\ report'[g].pc = report[g].pc /\ report'[g].todo = report[g].todo
          /\ report'[g].at = {}
      BY <1>6, ReportStep
    <2>4. report[g].pc # "none" /\ waiter[<<"scope", g>>] = "quiet"
      BY <1>1, <2>1 DEF ReportIsComplete
    <2>5. ~Untold(j)'
      <3>1. \/ job'[j] = job[j] /\ ~(job[j].pc \in Retained /\ ~job[j].reported)
            \/ Finishes(job[j], job'[j])
        BY <1>6, FinalizeReportMove
      <3> QED
        BY <1>2, <3>1 DEF Untold, Finishes, Published, Shape
    <2>6. \A i \in report[g].todo : job'[i].scope = g /\ job'[i].pc \in Published
      BY <1>1, PublishedStays DEF ReportIsComplete, ReportRecord
    <2>7. \A i \in Jobs : job'[i].scope = g /\ Untold(i)' =>
             report[g].pc = "reporting" /\ i \in report[g].todo
      <3> SUFFICES ASSUME NEW i \in Jobs, job'[i].scope = g, Untold(i)'
                   PROVE  report[g].pc = "reporting" /\ i \in report[g].todo
        OBVIOUS
      <3>1. job[i].scope = g /\ Untold(i)
        BY <2>4, UntoldIsOld
      <3>2. i # j
        BY <2>5
      <3> QED
        BY <1>1, <2>2, <2>4, <3>1, <3>2 DEF ReportIsComplete
    <2> QED
      BY <2>1, <2>3, <2>4, <2>6, <2>7 DEF ReportIsComplete
  <1>7. CASE FinalizeDone(g)
    <2>1. /\ report[g].pc = "reporting" /\ report[g].todo \cup report[g].at = {}
          /\ UNCHANGED <<job, waiter>>
      BY <1>7 DEF FinalizeDone
    <2>2. /\ report'[g].pc = "done" /\ report'[g].todo = report[g].todo
          /\ report'[g].at = report[g].at
      BY <1>7, DoneStep
    <2>3. \A i \in Jobs : Untold(i)' <=> Untold(i)
      BY <2>1 DEF Untold
    <2> QED
      BY <1>1, <2>1, <2>2, <2>3 DEF ReportIsComplete
  <1> QED
    BY <1>3, <1>4, <1>5, <1>6, <1>7, ReportSteps DEF Finalize

LEMMA ListedStays ==
    ASSUME Inv, [ProviderNext]_registry, NEW g \in Generations
    PROVE  report[g].unreported \subseteq report'[g].unreported
  <1> USE DEF Inv
  <1>1. CASE report'[g] = report[g]
    BY <1>1
  <1>2. CASE FinalizeSnapshot(g)
    BY <1>2, SnapshotStep
  <1>3. CASE FinalizeDone(g)
    BY <1>3, DoneStep
  <1>4. ASSUME NEW j \in Jobs, FinalizeLook(g, j)
        PROVE  report[g].unreported \subseteq report'[g].unreported
    BY <1>4, LookStep
  <1>5. ASSUME NEW j \in Jobs, FinalizeReport(g, j)
        PROVE  report[g].unreported \subseteq report'[g].unreported
    BY <1>5, ReportStep
  <1> QED
    BY <1>1, <1>2, <1>3, <1>4, <1>5, ReportSteps DEF Finalize

LEMMA FinishedIsListed ==
    ASSUME Inv, NEW g \in Generations, Finalize(g), NEW i \in Jobs,
           Finishes(job[i], job'[i])
    PROVE  i \in report'[job[i].scope].unreported
  <1> USE DEF Inv
  <1>1. PICK j \in Jobs : FinalizeReport(g, j)
    BY DEF Finalize, FinalizeSnapshot, FinalizeDone, FinalizeLook, Finishes
  <1>2. i = j
    BY <1>1, FinalizeReportMove DEF Finishes
  <1>3. job[j].scope = g
    BY <1>1 DEF FinalizeReport, ReportsAreComplete, ReportIsComplete
  <1>4. j \in report'[g].unreported
    BY <1>1, <1>2, FinalizeReportMove DEF Finishes
  <1> QED
    BY <1>2, <1>3, <1>4

LEMMA NextReportedIsKnown ==
    ASSUME Inv, [ProviderNext]_registry
    PROVE  ReportedIsKnown'
  <1> USE DEF Inv
  <1> SUFFICES ASSUME NEW i \in Jobs, job'[i].pc \in Published, job'[i].needs,
                      job'[i].reported, ~job'[i].delivered
               PROVE  i \in report'[job'[i].scope].unreported
    BY DEF ReportedIsKnown
  <1> DEFINE r == job[i]
             s == job'[i]
  <1>1. Shape(r) /\ Shape(s) /\ s.scope \in 0..MaxScopes
    BY NextShapes, NextTypes DEF Shapes, Types, JobRecord
  <1>2. CASE r.pc \in Published /\ r.needs /\ r.reported
    <2>1. s.scope = r.scope /\ ~r.delivered
      BY <1>2, PublishedStays
    <2>2. i \in report[r.scope].unreported
      BY <1>2, <2>1 DEF ReportedIsKnown
    <2>3. r.scope \in Generations
      BY <1>1, <1>2 DEF Shape, Published
    <2> QED
      BY <2>1, <2>2, <2>3, ListedStays
  <1>3. CASE ~(r.pc \in Published /\ r.needs /\ r.reported)
    <2>1. Finishes(r, s) /\ \E g \in Generations : Finalize(g)
      BY <1>1, <1>3, StepMoves DEF Moves, Submits, Refuses, Publishes, Reaps,
         Settles, Stops, Tells, Evicts, Finishes, Terminals, Origin, Report,
         Published, Retained, Live, Shape, Eligible
    <2> QED
      BY <2>1, FinishedIsListed DEF Finishes, Origin
  <1> QED
    BY <1>2, <1>3

-----------------------------------------------------------------------------
(* Doubt.                                                                   *)

Doubtful(g) == \E j \in Jobs : job[j].scope = g /\ job[j].doubt
MarksAreExact == \A g \in Generations : g \in unknown <=> Doubtful(g)

(* The mark and the outcome are written in one critical section.             *)
LEMMA MarkedIsExact ==
    ASSUME MarksAreExact, NEW j \in Jobs, NEW doubt \in BOOLEAN, Marked(j, doubt),
           \A i \in Jobs \ {j} : job'[i] = job[i],
           job'[j].scope = job[j].scope, ~job[j].doubt, job'[j].doubt = doubt
    PROVE  MarksAreExact'
  <1> SUFFICES ASSUME NEW g \in Generations
               PROVE  g \in unknown' <=> Doubtful(g)'
    BY DEF MarksAreExact
  <1>1. g \in unknown <=> Doubtful(g)
    BY DEF MarksAreExact
  <1>2. CASE doubt /\ job[j].scope = g
    BY <1>2 DEF Marked, Doubtful
  <1>3. CASE ~(doubt /\ job[j].scope = g)
    <2>1. g \in unknown' <=> g \in unknown
      BY <1>3 DEF Marked
    <2>2. Doubtful(g)' <=> Doubtful(g)
      BY <1>3 DEF Doubtful
    <2> QED
      BY <1>1, <2>1, <2>2
  <1> QED
    BY <1>2, <1>3

LEMMA DoubtStays ==
    ASSUME MarksAreExact, unknown' = unknown,
           \A i \in Jobs :
               \/ job'[i].doubt = job[i].doubt /\ job'[i].scope = job[i].scope
               \/ ~job'[i].doubt /\ ~job[i].doubt
    PROVE  MarksAreExact'
  <1> SUFFICES ASSUME NEW g \in Generations
               PROVE  Doubtful(g)' <=> Doubtful(g)
    BY DEF MarksAreExact
  <1> QED
    BY DEF Doubtful

LEMMA NextMarks ==
    ASSUME Inv, MarksAreExact, [ProviderNext]_registry
    PROVE  MarksAreExact'
  <1> USE DEF Inv
  <1>0. \A i \in Jobs : Shape(job[i]) /\ job[i].doubt \in BOOLEAN
    BY DEF Shapes, Types, JobRecord
  <1>1. ASSUME NEW j \in Jobs, NEW needs \in BOOLEAN, Submit(j, needs)
        PROVE  MarksAreExact'
    <2>1. unknown' = unknown /\ ~job[j].doubt
      BY <1>0, <1>1 DEF Submit, Shape, Unsettled
    <2>2. /\ \A i \in Jobs \ {j} : job'[i] = job[i] \/ Evicts(job[i], job'[i])
          /\ job'[j] = job[j] \/ Submits(job[j], job'[j])
      BY <1>1, SubmitMoves
    <2> QED
      BY <2>1, <2>2, DoubtStays DEF Evicts, Submits, Origin
  <1>2. ASSUME NEW j \in Jobs, NEW doubt \in BOOLEAN, StartFails(j, doubt)
        PROVE  MarksAreExact'
    <2>1. ~job[j].doubt /\ Marked(j, doubt)
      BY <1>0, <1>2 DEF StartFails, Shape, Unsettled
    <2>2. /\ \A i \in Jobs \ {j} : job'[i] = job[i]
          /\ job'[j].scope = job[j].scope /\ job'[j].doubt = doubt
      BY <1>2, RefusedMove DEF StartFails, Refuses
    <2> QED
      BY <2>1, <2>2, MarkedIsExact
  <1>3. ASSUME NEW j \in Jobs, Publish(j)
        PROVE  MarksAreExact'
    <2>1. unknown' = unknown
      BY <1>3 DEF Publish
    <2>2. /\ \A i \in Jobs \ {j} : job'[i] = job[i]
          /\ job'[j].doubt = job[j].doubt /\ job'[j].scope = job[j].scope
      BY <1>3, PublishMove DEF Publishes, Reaps, Origin
    <2> QED
      BY <2>1, <2>2, DoubtStays
  <1>4. ASSUME NEW j \in Jobs, NEW doubt \in BOOLEAN, ReaperMarks(j, doubt)
        PROVE  MarksAreExact'
    <2>1. ~job[j].doubt /\ Marked(j, doubt)
      BY <1>0, <1>4 DEF ReaperMarks, Shape, Unsettled
    <2>2. /\ \A i \in Jobs \ {j} : job'[i] = job[i]
          /\ job'[j].scope = job[j].scope /\ job'[j].doubt = doubt
      BY <1>4, ReaperMarksMove DEF Reaps, Origin
    <2> QED
      BY <2>1, <2>2, MarkedIsExact
  <1>5. ASSUME NEW j \in Jobs, ReaperReleases(j)
        PROVE  MarksAreExact'
    <2>1. unknown' = unknown
      BY <1>5 DEF ReaperReleases
    <2>2. /\ \A i \in Jobs \ {j} : job'[i] = job[i]
          /\ job'[j].doubt = job[j].doubt /\ job'[j].scope = job[j].scope
      BY <1>0, <1>5, RefusedMove DEF ReaperReleases, Refuses
    <2> QED
      BY <2>1, <2>2, DoubtStays
  <1>6. ASSUME NEW j \in Jobs, NEW end \in Terminals, Settle(j, end)
        PROVE  MarksAreExact'
    <2> DEFINE doubt == (end = "unknown")
    <2>1. ~job[j].doubt /\ Marked(j, doubt) /\ doubt \in BOOLEAN
      BY <1>0, <1>6 DEF Settle, Shape, Unsettled
    <2>2. /\ \A i \in Jobs \ {j} : job'[i] = job[i]
          /\ job'[j].scope = job[j].scope /\ (job'[j].doubt <=> doubt)
          /\ job'[j].doubt \in BOOLEAN
      BY <1>6, SettleMove, NextTypes DEF Settles, Origin, Types, JobRecord
    <2> HIDE DEF doubt
    <2>3. job'[j].doubt = doubt
      BY <2>1, <2>2
    <2> QED
      BY <2>1, <2>2, <2>3, MarkedIsExact
  <1>7. ASSUME unknown' = unknown,
               \A i \in Jobs : \/ job'[i] = job[i]
                               \/ Stops(job[i], job'[i]) \/ Tells(job[i], job'[i])
                               \/ Finishes(job[i], job'[i])
        PROVE  MarksAreExact'
    BY <1>7, DoubtStays DEF Stops, Tells, Finishes, Origin
  <1>8. ASSUME NEW j \in Jobs, Read(j)
        PROVE  MarksAreExact'
    <2>1. unknown' = unknown
      BY <1>8 DEF Read, Wait, ReadBegin, ReadDecide, ReadReport, ReadFails, ReadEnd
    <2>2. \A i \in Jobs : \/ job'[i] = job[i]
                         \/ Stops(job[i], job'[i]) \/ Tells(job[i], job'[i])
      BY <1>8, WaitMove, ReadMove DEF Read
    <2> QED
      BY <1>7, <2>1, <2>2
  <1>9. ASSUME NEW g \in Generations, Finalize(g)
        PROVE  MarksAreExact'
    <2>1. unknown' = unknown
      BY <1>9 DEF Finalize, FinalizeSnapshot, FinalizeDone, FinalizeLook, FinalizeReport
    <2> QED
      BY <1>7, <1>9, <2>1, FinalizeMoves
  <1>10. CASE FinalizeScope \/ WithdrawProducer \/ WithdrawAll
    <2>1. unknown' = unknown
      BY <1>10 DEF FinalizeScope, WithdrawProducer, WithdrawAll
    <2>2. \A i \in Jobs : Stops(job[i], job'[i])
      BY <1>10, StoppingMoves DEF FinalizeScope, WithdrawProducer, WithdrawAll
    <2> QED
      BY <1>7, <2>1, <2>2
  <1>11. CASE \/ RegisterProducer \/ AcquireScope \/ StopAccepting \/ UNCHANGED registry
             \/ \E w \in Waiters : Aggregate(w)
    <2>1. UNCHANGED <<unknown, job>>
      BY <1>11 DEF RegisterProducer, AcquireScope, StopAccepting, registry, Aggregate,
                   WaitArm, WaitCheck
    <2> QED
      BY <1>7, <2>1
  <1> QED
    BY <1>1, <1>2, <1>3, <1>4, <1>5, <1>6, <1>8, <1>9, <1>10, <1>11, JobsConstants
    DEF ProviderNext, Admission, Reap

(* A quiet scope is marked no more.                                          *)
LEMMA QuietIsUnmarked ==
    ASSUME Inv, [ProviderNext]_registry, NEW g \in Generations, waiter[<<"scope", g>>] = "quiet"
    PROVE  g \in unknown' <=> g \in unknown
  <1>1. ChargedTo(g) = {}
    BY DEF Inv, FinalizedIsOver
  <1>2. ASSUME NEW j \in Jobs, NEW doubt, Marked(j, doubt), Charged(j)
        PROVE  g \in unknown' <=> g \in unknown
    BY <1>1, <1>2 DEF Marked, ChargedTo
  <1>3. \/ unknown' = unknown
        \/ \E j \in Jobs, doubt \in BOOLEAN : Marked(j, doubt) /\ Charged(j)
    <2>1. ASSUME NEW j \in Jobs, NEW end \in Terminals, Settle(j, end)
          PROVE  \E doubt \in BOOLEAN : Marked(j, doubt) /\ Charged(j)
      <3>1. Marked(j, end = "unknown") /\ Charged(j) /\ (end = "unknown") \in BOOLEAN
        BY <2>1 DEF Settle, Charged
      <3> QED
        BY <3>1, Zenon
    <2> QED
      BY <2>1, ZenonT(60) DEF ProviderNext, registry, RegisterProducer, AcquireScope, Submit, Admission,
         StartFails, Publish, Reap, ReaperMarks, ReaperReleases, Read, Wait,
         ReadBegin, ReadDecide, ReadReport, ReadFails, ReadEnd, Aggregate, WaitArm,
         WaitCheck, Finalize, FinalizeSnapshot, FinalizeDone, FinalizeLook,
         FinalizeReport, FinalizeScope, WithdrawProducer, StopAccepting, WithdrawAll,
         Charged
  <1> QED
    BY <1>2, <1>3

LEMMA NextDoubtIsMarked ==
    ASSUME Inv, [ProviderNext]_registry
    PROVE  DoubtIsMarked'
  <1> USE DEF Inv
  <1>1. MarksAreExact'
    BY NextMarks DEF DoubtIsMarked, MarksAreExact, Doubtful
  <1>2. ASSUME NEW g \in Generations, report'[g].pc = "done"
        PROVE  report'[g].unknown <=> g \in unknown'
    <2>1. CASE report[g].pc = "done"
      <3>1. waiter[<<"scope", g>>] = "quiet"
        BY <2>1 DEF ReportsAreComplete, ReportIsComplete
      <3>2. report[g].unknown <=> g \in unknown
        BY <2>1 DEF DoubtIsMarked
      <3>3. report'[g].unknown = report[g].unknown
        <4>1. CASE report'[g] = report[g]
          BY <4>1
        <4>2. ASSUME NEW j \in Jobs, FinalizeLook(g, j) \/ FinalizeReport(g, j)
              PROVE  report'[g].unknown = report[g].unknown
          BY <4>2, LookStep, ReportStep
        <4> QED
          BY <2>1, <4>1, <4>2, ReportSteps DEF Finalize, FinalizeSnapshot, FinalizeDone
      <3> QED
        BY <3>1, <3>2, <3>3, QuietIsUnmarked
    <2>2. CASE report[g].pc # "done"
      <3>1. FinalizeDone(g)
        <4>1. ASSUME NEW j \in Jobs, FinalizeLook(g, j) \/ FinalizeReport(g, j)
              PROVE  FALSE
          BY <1>2, <2>2, <4>1, LookStep, ReportStep
        <4>2. ~FinalizeSnapshot(g)
          BY <1>2, SnapshotStep
        <4> QED
          BY <1>2, <2>2, <4>1, <4>2, ReportSteps DEF Finalize
      <3>2. report'[g].unknown = (g \in unknown) /\ unknown' = unknown
        BY <3>1, DoneStep DEF FinalizeDone
      <3> QED
        BY <3>2
    <2> QED
      BY <2>1, <2>2
  <1> QED
    BY <1>1, <1>2 DEF DoubtIsMarked, MarksAreExact, Doubtful

-----------------------------------------------------------------------------
LEMMA InitInv == Init => Inv
  <1> SUFFICES ASSUME Init
               PROVE  Inv
    OBVIOUS
  <1>1. Types
    BY InitTypes
  <1>2. \A j \in Jobs : /\ job[j].pc = "new" /\ job[j].seq = 0 /\ ~job[j].needs
                        /\ ~job[j].reported /\ ~job[j].doubt /\ ~job[j].delivered
                        /\ job[j].reader = "none"
    BY DEF Init, NewJob
  <1>3. Shapes
    BY <1>2 DEF Shapes, Shape, Published, Retained, Live, Terminals
  <1>4. IndexIsExact
    BY <1>2 DEF Init, IndexIsExact, Eligible, Terminals
  <1>5. CountsAreExact
    <2>1. /\ \A g \in Generations : ChargedTo(g) = {} /\ ReservedIn(g) = {}
          /\ \A p \in ProducerGenerations : ChargedBy(p) = {}
      BY <1>2 DEF ChargedTo, ReservedIn, ChargedBy, Charged, Live
    <2>2. IsCount(0, {})
      BY FS_EmptySet DEF IsCount
    <2> QED
      BY <2>1, <2>2 DEF Init, CountsAreExact
  <1>6. RecordsFit
    <2>1. Records = {}
      BY <1>2 DEF Records, Retained, Live, Terminals
    <2>2. Units(reserved) = {}
      BY DEF Init, Units
    <2> QED
      BY <2>1, <2>2, FS_EmptySet, JobsConstants DEF RecordsFit, Total
  <1>7. NothingOutlivesItsGeneration /\ ReportedIsKnown
    BY <1>2 DEF NothingOutlivesItsGeneration, ReportedIsKnown, Published, Retained,
                Live, Terminals
  <1>8. FinalizedIsOver
    BY DEF Init, FinalizedIsOver, Waiters
  <1>9. ReportsAreComplete /\ DoubtIsMarked
    <2>1. \A g \in Generations : /\ report[g].pc = "none" /\ report[g].todo = {}
                                 /\ report[g].at = {}
      BY DEF Init
    <2> QED
      BY <1>2, <2>1 DEF Init, ReportsAreComplete, ReportIsComplete, DoubtIsMarked
  <1> QED
    BY <1>1, <1>3, <1>4, <1>5, <1>6, <1>7, <1>8, <1>9 DEF Inv

LEMMA NextInv == Inv /\ [Next]_vars => Inv'
  BY NextTypes, NextShapes, NextIndex, NextCounts, NextRecordsFit,
     NextNothingOutlives, NextFinalizedIsOver, NextReportsAreComplete,
     NextReportedIsKnown, NextDoubtIsMarked, CallersChangeNothing DEF Inv

(* The registry stays consistent through every interleaving of submissions,  *)
(* settlements, reads, finalizers, withdrawals and the unpublished reaper.   *)
THEOREM JobsInvariant == Spec => []Inv
  BY InitInv, NextInv, PTL DEF Spec

(* Every charge is released exactly once, whichever of settle, the failed    *)
(* start or the unpublished reaper does it; the eviction index is exact; and *)
(* records and reservations never exceed maximum_retained_jobs.              *)
THEOREM JobsAreAccounted == Spec => []TypeOK
  <1>1. Inv => TypeOK
    BY DEF Inv, TypeOK, Types, CountsAreExact, IsCount, ChargedTo, ReservedIn,
           ChargedBy, IndexIsExact, RecordsFit
  <1> QED
    BY <1>1, JobsInvariant, PTL

(* No interleaving of a start with finalize_scope, withdraw_producer or      *)
(* withdraw_all leaves a job running under a generation that is gone.        *)
THEOREM JobsEndWithTheirGeneration == Spec => []NothingOutlivesItsGeneration
  <1>1. Inv => NothingOutlivesItsGeneration
    BY DEF Inv
  <1> QED
    BY <1>1, JobsInvariant, PTL

(* compact_for_admission and finalize_generation never lose a job whose      *)
(* producer asked for a report, unless the caller of finalize_scope leaves.  *)
THEOREM JobsAreReported == Spec => []ReportedUnlessAbandoned
  <1>1. Inv => ReportedUnlessAbandoned
    <2> SUFFICES ASSUME Inv, NEW j \in Jobs, job[j].needs, job[j].seq # 0,
                        job[j].pc = "evicted" \/ report[job[j].scope].pc = "done"
                 PROVE  job[j].delivered \/ j \in report[job[j].scope].unreported
      BY DEF ReportedUnlessAbandoned
    <2>1. Shape(job[j]) /\ job[j].pc \in Published /\ job[j].scope \in Generations
      BY DEF Inv, Shapes, Shape, Published
    <2>2. job[j].pc = "evicted" => job[j].reported
      BY <2>1 DEF Shape
    <2>3. report[job[j].scope].pc = "done" => job[j].reported
      BY <2>1 DEF Inv, ReportsAreComplete, ReportIsComplete, Untold
    <2> QED
      BY <2>1, <2>2, <2>3 DEF Inv, ReportedIsKnown
  <1> QED
    BY <1>1, JobsInvariant, PTL

(* finalize_generation returns outcome_unknown exactly when a submission of  *)
(* its scope ended in doubt, published or reaped.                            *)
THEOREM JobsDoubtIsReported == Spec => []UncertaintyIsReported
  <1>1. Inv => UncertaintyIsReported
    BY DEF Inv, DoubtIsMarked, UncertaintyIsReported
  <1> QED
    BY <1>1, JobsInvariant, PTL

(* The finalizer, which samples a job outside the lock, never reports what   *)
(* a concurrent read has delivered.                                          *)
THEOREM JobsAreReportedOnce == Spec => FinalReportIsNew
  <1>1. Inv /\ [Next]_vars =>
          [\A g \in Generations, j \in Jobs :
             j \in report'[g].unreported \ report[g].unreported
               => ~job[j].delivered]_vars
    <2> SUFFICES ASSUME Inv, [Next]_vars, NEW g \in Generations, NEW j \in Jobs,
                        j \in report'[g].unreported \ report[g].unreported
                 PROVE  ~job[j].delivered
      OBVIOUS
    <2>1. ~(report'[g] = report[g])
      OBVIOUS
    <2>2. PICK i \in Jobs : FinalizeReport(g, i)
      BY <2>1, ReportSteps, SnapshotStep, LookStep, DoneStep, CallersChangeNothing
      DEF Finalize, Inv
    <2>3. i = j /\ job[j].pc \in Retained /\ ~job[j].reported
      BY <2>2, ReportStep DEF Inv
    <2> QED
      BY <2>3 DEF Inv, Shapes, Shape
  <1> QED
    BY <1>1, JobsInvariant, PTL DEF Spec, FinalReportIsNew
=============================================================================
