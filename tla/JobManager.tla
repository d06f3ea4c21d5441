----------------------------- MODULE JobManager -----------------------------
(***************************************************************************)
(* The process-local Jobs provider: scope and producer generations,        *)
(* submissions that reserve capacity, start outside the registry lock and  *)
(* publish (or refuse) their control, settlement, reads that report a      *)
(* terminal job, scope finalization, producer retirement, shutdown and the *)
(* eviction of reported records.                                           *)
(*                                                                         *)
(* One action is one critical section of the registry lock.  Producers are *)
(* called between critical sections; what they do is a choice.  The model  *)
(* has one scope identity and one producer name, each with generations.    *)
(***************************************************************************)
EXTENDS Naturals, FiniteSets

CONSTANTS
    Jobs,             \* submissions of a behaviour
    Consumers,        \* bound: the jobs somebody reads, waits for or kills
    MaxScopes,        \* bound: generations of the scope
    MaxProducers,     \* bound: generations of the producer
    Impatient,        \* bound: the scope generations whose finalize_scope caller
                      \* may give up before it has its answer
    Waits,            \* who waits for quiet besides the finalizers: "producer"
                      \* (a lease that is settled, not just dropped), "all"
                      \* (a shutdown whose future is not dropped)
    MaxActive,        \* maximum_active_jobs
    MaxActiveScope,   \* maximum_active_jobs_per_scope
    MaxRetained,      \* maximum_retained_jobs
    MaxRetainedScope  \* maximum_retained_jobs_per_scope

ASSUME JobsAssumption ==
    /\ {MaxScopes, MaxProducers, MaxActive, MaxActiveScope, MaxRetained,
        MaxRetainedScope} \subseteq Nat \ {0}
    /\ Waits \subseteq {"producer", "all"} /\ Consumers \subseteq Jobs
    /\ Impatient \subseteq 1..MaxScopes
    /\ MaxActiveScope <= MaxActive /\ MaxRetainedScope <= MaxRetained
    /\ MaxActive <= MaxRetained /\ MaxActiveScope <= MaxRetainedScope

Generations == 1..MaxScopes
ProducerGenerations == 1..MaxProducers

VARIABLES
    accepting,   \* the provider admits work
    scope,       \* [current, last]: active scope generation or 0, and the newest
    producer,    \* [current, last]: registered producer generation or 0
    job,         \* each submission with its record and control
    sequence,    \* next_id
    active,      \* active_by_scope
    activeOf,    \* active_by_producer
    reserved,    \* reservations_by_scope
    evictable,   \* the eviction index
    unknown,     \* scope generations marked outcome_unknown
    waiter,      \* aggregate waits: scope finalizers, producer leases, shutdown
    report,      \* reports of scope finalizers
    caller       \* the callers of finalize_scope

vars == <<accepting, scope, producer, job, sequence, active, activeOf, reserved,
          evictable, unknown, waiter, report, caller>>

Terminals == {"done", "unknown"}
Live == {"running", "stopping"}
Retained == Live \cup Terminals
Waiters ==
    ({"scope"} \X Generations) \cup ({"producer"} \X ProducerGenerations)
      \cup {<<"all", 1>>}

NewJob == [pc |-> "new", scope |-> 0, producer |-> 0, seq |-> 0, needs |-> FALSE,
           reported |-> FALSE, doubt |-> FALSE, reader |-> "none",
           delivered |-> FALSE]

Init ==
    /\ accepting = TRUE
    /\ scope = [current |-> 0, last |-> 0]
    /\ producer = [current |-> 0, last |-> 0]
    /\ job = [j \in Jobs |-> NewJob]
    /\ sequence = 0
    /\ active = [g \in Generations |-> 0]
    /\ activeOf = [p \in ProducerGenerations |-> 0]
    /\ reserved = [g \in Generations |-> 0]
    /\ evictable = {}
    /\ unknown = {}
    /\ waiter = [w \in Waiters |-> "none"]
    /\ report = [g \in Generations |->
                   [pc |-> "none", todo |-> {}, at |-> {}, unreported |-> {},
                    unknown |-> FALSE]]
    /\ caller = [g \in Generations |-> "none"]

-----------------------------------------------------------------------------
(* The sum of a counter, as the number of units it counts.                   *)
Units(count) == UNION {{g} \X (1..count[g]) : g \in Generations}
Total(count) == Cardinality(Units(count))
Members(g) == {j \in Jobs : job[j].pc \in Retained /\ job[j].scope = g}
Records == {j \in Jobs : job[j].pc \in Retained}
IsTerminal(j) == job[j].pc \in Terminals
HasControl(j) == job[j].pc \in Live \/ (IsTerminal(j) /\ ~job[j].reported)
ScopeIsCurrent(g) == accepting /\ g # 0 /\ scope.current = g

(* refresh_eligibility, on the record as r leaves it.                        *)
Reading(r) == r.reader \in {"sampled", "final", "compacted", "leaving"}
\* faulty: a settled record counts as disposable before it is reported
EligibleUnreported(r) == r.pc \in Terminals /\ ~Reading(r)

Eligible(r) == r.pc \in Terminals /\ r.reported /\ ~Reading(r)
Refreshed(j, r) == IF Eligible(r) THEN evictable \cup {j} ELSE evictable \ {j}

Update(j, r) == job' = [job EXCEPT ![j] = r]

(* changed.notify_waiters reaches every wait that has subscribed.            *)
Notified ==
    [w \in Waiters |-> IF waiter[w] \in {"armed", "asleep"} THEN "begin"
                       ELSE waiter[w]]

-----------------------------------------------------------------------------
(* Generations.                                                             *)

RegisterProducer ==
    /\ accepting /\ producer.current = 0 /\ producer.last < MaxProducers
    /\ producer' = [current |-> producer.last + 1, last |-> producer.last + 1]
    /\ UNCHANGED <<accepting, scope, job, sequence, active, activeOf, reserved,
                   evictable, unknown, waiter, report, caller>>

AcquireScope ==
    /\ accepting /\ scope.current = 0 /\ scope.last < MaxScopes
    /\ scope' = [current |-> scope.last + 1, last |-> scope.last + 1]
    /\ UNCHANGED <<accepting, producer, job, sequence, active, activeOf,
                   reserved, evictable, unknown, waiter, report, caller>>

-----------------------------------------------------------------------------
(* Submission.                                                              *)

(* compact_for_admission removes the oldest eligible records, first of the   *)
(* scope and then of the provider, until the new one fits.                   *)
Oldest(S, n) ==
    {j \in S : Cardinality({i \in S : job[i].seq < job[j].seq}) < n}

Excess(count, limit) == IF count >= limit THEN count + 1 - limit ELSE 0

(* The records the compaction removes; it may give up after removing some.   *)
ScopeExcess(g) ==
    Excess(Cardinality(Members(g)) + reserved[g], MaxRetainedScope)
FirstOut(g) == Oldest(evictable \cap Members(g), ScopeExcess(g))
TotalExcess(g) ==
    Excess(Cardinality(Records \ FirstOut(g)) + Total(reserved), MaxRetained)
SecondOut(g) ==
    IF Cardinality(FirstOut(g)) < ScopeExcess(g) THEN {}
    ELSE Oldest(evictable \ FirstOut(g), TotalExcess(g))

Compacts(g) ==
    /\ Cardinality(FirstOut(g)) = ScopeExcess(g)
    /\ Cardinality(SecondOut(g)) = TotalExcess(g)

Compacted(out) ==
    [i \in Jobs |-> IF i \in out THEN [job[i] EXCEPT !.pc = "evicted"] ELSE job[i]]

(* submit: the preflight, the compaction and the reservation.  A submission  *)
(* the capacity refuses may already have evicted records.                    *)
Submit(j, needs) ==
    LET g == scope.current
        p == producer.current
        out == FirstOut(g) \cup SecondOut(g)
        admitted == /\ Compacts(g)
                    /\ Total(active) < MaxActive /\ active[g] < MaxActiveScope IN
    /\ job[j].pc = "new"
    /\ ScopeIsCurrent(g) /\ p # 0
    /\ job' = IF ~admitted THEN Compacted(out)
              ELSE [Compacted(out) EXCEPT
                      ![j] = [NewJob EXCEPT !.pc = "starting", !.scope = g,
                                            !.producer = p, !.needs = needs]]
    /\ evictable' = evictable \ out
    /\ active' = [active EXCEPT ![g] = IF admitted THEN @ + 1 ELSE @]
    /\ activeOf' = [activeOf EXCEPT ![p] = IF admitted THEN @ + 1 ELSE @]
    /\ reserved' = [reserved EXCEPT ![g] = IF admitted THEN @ + 1 ELSE @]
    /\ UNCHANGED <<accepting, scope, producer, sequence, unknown, waiter, report,
                   caller>>

\* faulty: the charge is dropped without a notification
ReleaseSilently(j) ==
    /\ active' = [active EXCEPT ![job[j].scope] = @ - 1]
    /\ activeOf' = [activeOf EXCEPT ![job[j].producer] = @ - 1]
    /\ waiter' = waiter

Release(j) ==
    /\ active' = [active EXCEPT ![job[j].scope] = @ - 1]
    /\ activeOf' = [activeOf EXCEPT ![job[j].producer] = @ - 1]
    /\ waiter' = Notified

Marked(j, doubt) ==
    unknown' = IF doubt THEN unknown \cup {job[j].scope} ELSE unknown

(* What is left of a submission that published nothing.                      *)
Refused(j, doubt) ==
    [NewJob EXCEPT !.pc = "refused", !.scope = job[j].scope, !.doubt = doubt]

(* The producer fails to start; an uncertain start marks the scope.          *)
StartFails(j, doubt) ==
    /\ job[j].pc = "starting"
    /\ Update(j, Refused(j, doubt))
    /\ Marked(j, doubt)
    /\ reserved' = [reserved EXCEPT ![job[j].scope] = @ - 1]
    /\ Release(j)
    /\ UNCHANGED <<accepting, scope, producer, sequence, evictable, report,
                   caller>>

\* faulty: the generations checked at submission are trusted
PublishUnchecked(j) ==
    /\ job[j].pc = "starting"
    /\ reserved' = [reserved EXCEPT ![job[j].scope] = @ - 1]
    /\ waiter' = Notified
    /\ Update(j, [job[j] EXCEPT !.pc = "running", !.seq = sequence + 1])
    /\ sequence' = sequence + 1
    /\ UNCHANGED <<accepting, scope, producer, active, activeOf, evictable,
                   unknown, report, caller>>

(* The control is published under its generations, or, when one of them has  *)
(* gone, cancelled and left to the unpublished reaper.                       *)
Publish(j) ==
    LET valid == ScopeIsCurrent(job[j].scope)
                   /\ producer.current = job[j].producer IN
    /\ job[j].pc = "starting"
    /\ reserved' = [reserved EXCEPT ![job[j].scope] = @ - 1]
    /\ waiter' = Notified
    /\ Update(j, IF valid THEN [job[j] EXCEPT !.pc = "running", !.seq = sequence + 1]
                 ELSE [job[j] EXCEPT !.pc = "reaping"])
    /\ sequence' = IF valid THEN sequence + 1 ELSE sequence
    /\ UNCHANGED <<accepting, scope, producer, active, activeOf, evictable,
                   unknown, report, caller>>

-----------------------------------------------------------------------------
(* Settlement.                                                              *)

(* settle: a job nobody has to report is released at once.                   *)
Settle(j, end) ==
    LET r == [job[j] EXCEPT !.pc = end, !.doubt = (end = "unknown"),
                            !.reported = ~job[j].needs] IN
    /\ job[j].pc \in Live
    /\ Update(j, r)
    /\ evictable' = Refreshed(j, r)
    /\ Marked(j, end = "unknown")
    /\ Release(j)
    /\ UNCHANGED <<accepting, scope, producer, sequence, reserved, report,
                   caller>>

\* faulty: the outcome of an unpublished control is dropped
ReaperMarksNothing(j, doubt) ==
    /\ job[j].pc = "reaping"
    /\ Update(j, [job[j] EXCEPT !.pc = "reaped", !.doubt = doubt])
    /\ UNCHANGED <<accepting, scope, producer, sequence, active, activeOf,
                   reserved, evictable, unknown, waiter, report, caller>>

(* The unpublished reaper: the mark comes before the release.                *)
ReaperMarks(j, doubt) ==
    /\ job[j].pc = "reaping"
    /\ Update(j, [job[j] EXCEPT !.pc = "reaped", !.doubt = doubt])
    /\ Marked(j, doubt)
    /\ UNCHANGED <<accepting, scope, producer, sequence, active, activeOf,
                   reserved, evictable, waiter, report, caller>>

ReaperReleases(j) ==
    /\ job[j].pc = "reaped"
    /\ Update(j, Refused(j, job[j].doubt))
    /\ Release(j)
    /\ UNCHANGED <<accepting, scope, producer, sequence, reserved, evictable,
                   unknown, report, caller>>

(* The controls that are told to cancel once the lock is released.           *)
Stopping(S) ==
    [j \in Jobs |-> IF j \in S /\ job[j].pc \in Live
                    THEN [job[j] EXCEPT !.pc = "stopping"]
                    ELSE job[j]]

-----------------------------------------------------------------------------
(* Reads and waits of one consumer per job.                                 *)

(* wait, kill: subscribes to the settlement under the lock.                  *)
Wait(j, kill) ==
    /\ ScopeIsCurrent(job[j].scope)
    /\ job[j].pc \in Live /\ job[j].reader = "none"
    /\ Update(j, [(IF kill THEN Stopping({j}) ELSE job)[j]
                    EXCEPT !.reader = "waiting"])
    /\ UNCHANGED <<accepting, scope, producer, sequence, active, activeOf,
                   reserved, evictable, unknown, waiter, report, caller>>

(* A woken wait, or a plain read: the lease and the first samples, which are *)
(* final if the job has settled; a job whose control is gone has none.  A    *)
(* scope that has been finalized or a record that has gone refuses it.       *)
ReadBegin(j) ==
    LET allowed == ScopeIsCurrent(job[j].scope) /\ job[j].pc \in Retained
        r == [job[j] EXCEPT !.reader = IF ~allowed THEN "none"
                                       ELSE IF ~HasControl(j) THEN "compacted"
                                       ELSE IF IsTerminal(j) THEN "final"
                                       ELSE "sampled"] IN
    /\ \/ job[j].reader = "none" /\ allowed
       \/ job[j].reader = "waiting" /\ job[j].pc \notin Live
    /\ Update(j, r)
    /\ evictable' = IF allowed THEN Refreshed(j, r) ELSE evictable
    /\ UNCHANGED <<accepting, scope, producer, sequence, active, activeOf,
                   reserved, unknown, waiter, report, caller>>

(* An active job is summarised; one that has settled meanwhile is sampled    *)
(* again.                                                                    *)
ReadDecide(j) ==
    /\ job[j].reader = "sampled"
    /\ Update(j, [job[j] EXCEPT !.reader = IF IsTerminal(j) THEN "final"
                                           ELSE "leaving"])
    /\ UNCHANGED <<accepting, scope, producer, sequence, active, activeOf,
                   reserved, evictable, unknown, waiter, report, caller>>

(* report_job_inner of a read.                                               *)
ReadReport(j) ==
    LET r == [job[j] EXCEPT !.reader = "leaving", !.reported = TRUE,
                            !.delivered = TRUE] IN
    /\ job[j].reader \in {"final", "compacted"}
    /\ Update(j, r)
    /\ evictable' = Refreshed(j, r)
    /\ UNCHANGED <<accepting, scope, producer, sequence, active, activeOf,
                   reserved, unknown, waiter, report, caller>>

(* A sample fails: the read returns the error and reports nothing.           *)
ReadFails(j) ==
    /\ job[j].reader \in {"sampled", "final"}
    /\ Update(j, [job[j] EXCEPT !.reader = "leaving"])
    /\ UNCHANGED <<accepting, scope, producer, sequence, active, activeOf,
                   reserved, evictable, unknown, waiter, report, caller>>

\* faulty: the released lease leaves the index as it was
ReadEndWithoutRefresh(j) ==
    /\ job[j].reader = "leaving"
    /\ Update(j, [job[j] EXCEPT !.reader = "none"])
    /\ UNCHANGED <<accepting, scope, producer, sequence, active, activeOf,
                   reserved, evictable, unknown, waiter, report, caller>>

(* JobReadLease::drop                                                        *)
ReadEnd(j) ==
    LET r == [job[j] EXCEPT !.reader = "none"] IN
    /\ job[j].reader = "leaving"
    /\ Update(j, r)
    /\ evictable' = Refreshed(j, r)
    /\ UNCHANGED <<accepting, scope, producer, sequence, active, activeOf,
                   reserved, unknown, waiter, report, caller>>

-----------------------------------------------------------------------------
(* Finalization, retirement and shutdown.                                   *)

(* What the aggregate wait w waits for, and how it waits: it subscribes,     *)
(* looks at the count and sleeps until a notification.                       *)
Count(w) ==
    CASE w[1] = "scope" -> active[w[2]]
      [] w[1] = "producer" -> activeOf[w[2]]
      [] OTHER -> Total(active)

Begun(kind) == IF kind \in Waits THEN "begin" ELSE "dropped"

WaitArm(w) ==
    /\ waiter[w] = "begin"
    /\ waiter' = [waiter EXCEPT ![w] = "armed"]
    /\ UNCHANGED <<accepting, scope, producer, job, sequence, active, activeOf,
                   reserved, evictable, unknown, report, caller>>

WaitCheck(w) ==
    /\ waiter[w] = "armed"
    /\ waiter' = [waiter EXCEPT ![w] = IF Count(w) = 0 THEN "quiet" ELSE "asleep"]
    /\ UNCHANGED <<accepting, scope, producer, job, sequence, active, activeOf,
                   reserved, evictable, unknown, report, caller>>

(* finalize_scope: revocation, the snapshot of unfinished work and the start *)
(* of the reaper task, for which the caller waits.                           *)
FinalizeScope ==
    LET g == scope.current IN
    /\ ScopeIsCurrent(g)
    /\ scope' = [scope EXCEPT !.current = 0]
    /\ job' = Stopping(Members(g))
    /\ waiter' = [Notified EXCEPT ![<<"scope", g>>] = "begin"]
    /\ caller' = [caller EXCEPT ![g] = "waiting"]
    /\ UNCHANGED <<accepting, producer, sequence, active, activeOf, reserved,
                   evictable, unknown, report>>

(* The caller's deadline passes, or its future is dropped: the reaper goes   *)
(* on, and nobody will read the report it makes.                             *)
CallerTimesOut(g) ==
    /\ caller[g] = "waiting"
    /\ caller' = [caller EXCEPT ![g] = "gone"]
    /\ UNCHANGED <<accepting, scope, producer, job, sequence, active, activeOf,
                   reserved, evictable, unknown, waiter, report>>

(* finalize_generation once the scope is quiet: the unreported records ...   *)
FinalizeSnapshot(g) ==
    /\ waiter[<<"scope", g>>] = "quiet" /\ report[g].pc = "none"
    /\ report' = [report EXCEPT ![g].pc = "reporting",
                    ![g].todo = {j \in Members(g) : job[j].needs
                                                      /\ ~job[j].reported}]
    /\ UNCHANGED <<accepting, scope, producer, job, sequence, active, activeOf,
                   reserved, evictable, unknown, waiter, caller>>

(* ... are reported in turn unless a read has done so: looked at, sampled    *)
(* outside the lock and looked at again.                                     *)
FinalizeLook(g, j) ==
    /\ j \in report[g].todo /\ report[g].at = {}
    /\ report' = [report EXCEPT ![g].todo = @ \ {j},
                    ![g].at = IF job[j].pc \notin Retained \/ job[j].reported
                              THEN {} ELSE {j}]
    /\ UNCHANGED <<accepting, scope, producer, job, sequence, active, activeOf,
                   reserved, evictable, unknown, waiter, caller>>

\* faulty: the record is not looked at again after its tails were sampled
FinalizeReportOnLook(g, j) ==
    LET r == [job[j] EXCEPT !.reported = TRUE] IN
    /\ j \in report[g].at
    /\ report' = [report EXCEPT ![g].at = {}, ![g].unreported = @ \cup {j}]
    /\ Update(j, r)
    /\ evictable' = Refreshed(j, r)
    /\ UNCHANGED <<accepting, scope, producer, sequence, active, activeOf,
                   reserved, unknown, waiter, caller>>

FinalizeReport(g, j) ==
    LET fresh == job[j].pc \in Retained /\ ~job[j].reported
        r == IF fresh THEN [job[j] EXCEPT !.reported = TRUE]
             ELSE job[j] IN
    /\ j \in report[g].at
    /\ report' = [report EXCEPT ![g].at = {},
                    ![g].unreported = IF fresh THEN @ \cup {j} ELSE @]
    /\ Update(j, r)
    /\ evictable' = Refreshed(j, r)
    /\ UNCHANGED <<accepting, scope, producer, sequence, active, activeOf,
                   reserved, unknown, waiter, caller>>

FinalizeDone(g) ==
    /\ report[g].pc = "reporting" /\ report[g].todo \cup report[g].at = {}
    /\ report' = [report EXCEPT ![g].pc = "done", ![g].unknown = g \in unknown]
    /\ UNCHANGED <<accepting, scope, producer, job, sequence, active, activeOf,
                   reserved, evictable, unknown, waiter, caller>>

(* finalize_scope hands the finished report to a caller that still waits.    *)
CallerIsTold(g) ==
    /\ caller[g] = "waiting" /\ report[g].pc = "done"
    /\ caller' = [caller EXCEPT ![g] = "told"]
    /\ UNCHANGED <<accepting, scope, producer, job, sequence, active, activeOf,
                   reserved, evictable, unknown, waiter, report>>

(* withdraw_producer, and the lease's wait for its generation.               *)
WithdrawProducer ==
    LET p == producer.current IN
    /\ p # 0
    /\ producer' = [producer EXCEPT !.current = 0]
    /\ job' = Stopping({j \in Jobs : job[j].producer = p})
    /\ waiter' = [Notified EXCEPT ![<<"producer", p>>] = Begun("producer")]
    /\ UNCHANGED <<accepting, scope, sequence, active, activeOf, reserved,
                   evictable, unknown, report, caller>>

(* withdraw_all closes the gate first and takes the lock afterwards.         *)
StopAccepting ==
    /\ accepting
    /\ accepting' = FALSE
    /\ UNCHANGED <<scope, producer, job, sequence, active, activeOf, reserved,
                   evictable, unknown, waiter, report, caller>>

WithdrawAll ==
    /\ ~accepting /\ waiter[<<"all", 1>>] = "none"
    /\ scope' = [scope EXCEPT !.current = 0]
    /\ producer' = [producer EXCEPT !.current = 0]
    /\ job' = Stopping(Jobs)
    /\ waiter' = [Notified EXCEPT ![<<"all", 1>>] = Begun("all")]
    /\ UNCHANGED <<accepting, sequence, active, activeOf, reserved, evictable,
                   unknown, report, caller>>

-----------------------------------------------------------------------------
Read(j) ==
    \/ \E kill \in BOOLEAN : Wait(j, kill)
    \/ ReadBegin(j) \/ ReadDecide(j) \/ ReadReport(j) \/ ReadFails(j) \/ ReadEnd(j)

Admission(j) ==
    \/ \E doubt \in BOOLEAN : StartFails(j, doubt)
    \/ Publish(j)

Aggregate(w) == WaitArm(w) \/ WaitCheck(w)

Finalize(g) ==
    \/ FinalizeSnapshot(g) \/ FinalizeDone(g)
    \/ \E j \in Jobs : FinalizeLook(g, j) \/ FinalizeReport(g, j)

Reap(j) == (\E doubt \in BOOLEAN : ReaperMarks(j, doubt)) \/ ReaperReleases(j)

Next ==
    \/ RegisterProducer \/ AcquireScope
    \/ \E j \in Jobs, needs \in BOOLEAN : Submit(j, needs)
    \/ \E j \in Jobs : Admission(j) \/ Reap(j)
    \/ \E j \in Consumers : Read(j)
    \/ \E j \in Jobs, end \in Terminals : Settle(j, end)
    \/ \E w \in Waiters : Aggregate(w)
    \/ \E g \in Generations : Finalize(g) \/ CallerIsTold(g)
    \/ \E g \in Impatient : CallerTimesOut(g)
    \/ FinalizeScope \/ WithdrawProducer \/ StopAccepting \/ WithdrawAll

Spec == Init /\ [][Next]_vars

(* Tasks of the provider run; a producer finishes a start and settles a      *)
(* control it was told to cancel.  An uncancelled control may run for ever.  *)
Fairness ==
    /\ \A j \in Jobs :
        /\ WF_vars(Admission(j)) /\ WF_vars(Reap(j))
        /\ WF_vars(job[j].pc = "stopping" /\ \E end \in Terminals : Settle(j, end))
        /\ WF_vars(job[j].reader = "waiting" /\ ReadBegin(j))
        /\ WF_vars(ReadDecide(j) \/ ReadReport(j) \/ ReadEnd(j))
    /\ \A w \in Waiters : WF_vars(Aggregate(w))
    /\ \A g \in Generations : WF_vars(Finalize(g)) /\ WF_vars(CallerIsTold(g))
    /\ WF_vars(WithdrawAll)

FairSpec == Spec /\ Fairness

-----------------------------------------------------------------------------
Charged(j) == job[j].pc \in Live \cup {"starting", "reaping", "reaped"}

(* The charges and the eviction index agree with the submissions: a          *)
(* submission is charged to its scope and its producer until its control has *)
(* settled, published or not, and the index holds exactly the reported       *)
(* terminal records nobody reads.                                            *)
TypeOK ==
    /\ scope.current \in {0, scope.last} /\ producer.current \in {0, producer.last}
    /\ \A g \in Generations :
        /\ active[g] = Cardinality({j \in Jobs : job[j].scope = g /\ Charged(j)})
        /\ reserved[g] = Cardinality({j \in Jobs : job[j].scope = g
                                                     /\ job[j].pc = "starting"})
    /\ \A p \in ProducerGenerations :
        activeOf[p] = Cardinality({j \in Jobs : job[j].producer = p /\ Charged(j)})
    /\ evictable = {j \in Jobs : Eligible(job[j])}
    /\ Cardinality(Records) + Total(reserved) <= MaxRetained

(* Nothing runs under a generation that has gone without having been told to *)
(* stop: the revocation that misses a starting job is caught when the job is *)
(* published.                                                                *)
NothingOutlivesItsGeneration ==
    \A j \in Jobs : job[j].pc \in Live =>
        \/ scope.current = job[j].scope /\ producer.current = job[j].producer
        \/ job[j].pc = "stopping"

(* A job whose producer asked for a report is told to somebody, unless the   *)
(* caller of finalize_scope has given up: until then its record is not       *)
(* evicted before a read has delivered it or the report that caller waits    *)
(* for lists it, and no report is handed over that misses it.                *)
ReportedUnlessAbandoned ==
    \A j \in Jobs : LET g == job[j].scope IN
        /\ job[j].needs /\ job[j].seq # 0
        /\ job[j].pc = "evicted" \/ report[g].pc = "done"
        /\ caller[g] # "gone"
        => job[j].delivered \/ j \in report[g].unreported

(* Terminal jobs requiring a report are never evicted before that report:    *)
(* a read has delivered it, or a finalizer whose caller has it or waits for  *)
(* it lists the job.  The code does not keep this: a reaper whose caller     *)
(* timed out marks its jobs reported all the same.                           *)
EvictedWasReported ==
    \A j \in Jobs : LET g == job[j].scope IN
        job[j].needs /\ job[j].pc = "evicted" =>
            job[j].delivered
              \/ (j \in report[g].unreported /\ caller[g] # "gone")

(* What a read has reported the finalizer does not report again, although    *)
(* it samples the job outside the lock while the read reports it.            *)
FinalReportIsNew ==
    [][\A g \in Generations, j \in Jobs :
         j \in report'[g].unreported \ report[g].unreported => ~job[j].delivered]_vars

(* A finished finalizer knows whether any submission of its scope, published *)
(* or not, reported, evicted or refused, ended in doubt.                     *)
UncertaintyIsReported ==
    \A g \in Generations : report[g].pc = "done" =>
        (report[g].unknown <=> \E j \in Jobs : job[j].scope = g /\ job[j].doubt)

(* Every finalizer, producer lease and shutdown that waits gets its quiet    *)
(* provider, a caller of finalize_scope its answer without the help of its   *)
(* deadline, and every kill and every wait for a job that has to stop        *)
(* returns, although an uncancelled job may run for ever.                    *)
WaitsEnd ==
    /\ \A w \in Waiters : (waiter[w] = "begin") ~> (waiter[w] = "quiet")
    /\ \A g \in Generations :
        (caller[g] = "waiting") ~> (caller[g] # "waiting")
    /\ \A j \in Jobs : (job[j].reader = "waiting" /\ job[j].pc # "running")
                          ~> (job[j].reader = "none")
=============================================================================
