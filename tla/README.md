# Verification of the rsi-agent Kernel and Jobs provider

RSIversi is a family of Rust products around an agent harness. This project
models the part that everything else relies on: `rsi-agent-kernel`
(`src/crates/rsi-agent/kernel`), which accepts Turns, hands them to executors,
makes their history durable and brings it back after a crash, and the Jobs
provider (`src/crates/rsi-jobs/local`) that owns background work. It
holds TLA+ modules, TLC configurations and TLAPS proofs.

## 1. The system

`docs/architecture.md` draws the ownership lines; this is the inventory the
models start from.

| Part | State it keeps | Operations | What makes it correct |
|---|---|---|---|
| Kernel, Fact pipeline (`lifecycle.rs`, `lib.rs`, `turn_service.rs`, `recovery.rs`) | per Session: `durable_seq`, `pending` suffix, `turns`, `turn_order`, sticky flush error; `claim_queue` | submit, cancel, publish, flush, finish, claim next-Step messages, recover | receipts are true; each Turn is accepted once, ended once, in order; cancellation decides the outcome; no wakeup is lost |
| Kernel, claim gate (`mutation.rs`, `turn_state.rs`, `ending.rs`, `domains.rs`) | per claim: admission phase, retiring, drainer, lease count | admit, drop a lease, drain, abandon, retain, commit, retire, fail | a lease keeps its claim; no terminal under a running mutation; an abandoned ending reopens; a retired claim requeues |
| Kernel, Fact rules (`turn_state.rs`, `tool_origin.rs`, `structured.rs`) | open Step, active effects, tool sources, conclusion | one rule per Fact body | every replayed history is one the live rules admit |
| Kernel, activation tree (`admission.rs`, `inbox.rs`, `ready.rs`, `queue_mutation.rs`, `human_wait.rs`, `program/`) | activations, mailboxes, tree lanes, waits | message, promote, spawn, wait, settle, interrupt | a message is consumed once; a parent settles after its descendants |
| Store (`store-protocol`, `store-sqlite`) | Facts and control records of each Session | compare-and-append, atomic commit, reads | strict sequence check, all or nothing |
| Executor (`executor`) | one drive loop per claim | claim, publish, finish, release | calls of one claim are sequential |
| Goal, Schedule, Todo | domain snapshots with revisions | domain mutations | legal transitions only |
| Jobs provider (`rsi-jobs/local`) | scope and producer generations, records, charges, eviction index | submit, publish, settle, read, kill, finalize, withdraw, shut down, evict | nothing runs under a generation that has gone; every result and every doubt is reported; every wait ends |
| Approval, Settings, Storage, PTY, ACP journal | registries with revisions or tickets | ask/answer, compare-and-set, attach | no lost answer, no stale write |
| Meta runtime and Profile (`rsi-meta`) | Context/Fiber graph, desired program | activate, retire, converge | generations are fenced |
| Providers, sandbox, processes, files, user interfaces | operating-system and network effects | | not state machines of this repository |

How they interact: clients call `TurnService`; executors call `TurnExecution`;
both work on one mutex (`KernelState`). A per-Session *submission admission*
(an async lock) serialises acceptance, cancellation, publication and commits
that bypass the flusher. The write-behind worker moves the pending suffix to
the Store and takes no admission. Durability is observed through a watch
channel (`FlushStatus`). The terminal of a Turn and most control changes are
committed in tasks the Kernel owns, so that a caller may go away. Two more
tasks, the ready scheduler and the settlement worker, read Sessions without
their admission and act on the result later. The Jobs provider has one registry
lock; it calls producers between its critical sections.

What is hard: critical sections separated by awaits that keep copies of state;
a lost acknowledgement of a commit; a crash between any two steps; two kinds of
locks (submission admission, the claim's gate) held across waits; withdrawal of
an executor at any moment. `PROJECT.json` lists these hazards at their lines.

## 2. Modules

| Module | Role |
|---|---|
| `TurnLedger` | abstract specification: what a Session durably promises about its Turns |
| `Queues` | `Vec::retain` and `VecDeque::retain`: the kept positions of a queue, in order |
| `FactPipeline` | acceptance, cancellation, effects, write-behind, endings, crash and recovery of one Session; implements `TurnLedger` |
| `MCFactPipeline` | direct Turns are interchangeable: symmetry for TLC |
| `ClaimGate` | claims on one Turn, mutations under them, attempts to end it |
| `MCClaimGate` | symmetry for TLC |
| `ClaimGateProofs` | types and the claim queue, proved for every instance |
| `ClaimGateSafety` | the inductive invariant of the gate and four safety theorems |
| `ActivationTree` | mailboxes, ready scheduler, activations, lanes, endings and settlement of one Agent tree, crash and recovery |
| `MCActivationTree` | a lineage of three Sessions |
| `TurnFacts` | the Facts a Turn may consist of: Steps, effects, nested Tool calls, conclusions, endings, repair |
| `MCTurnFacts` | Tool names with their roles, and symmetry |
| `JobManager` | the Jobs provider: generations, capacity, reports, finalizers, withdrawal, waits |
| `QueueProofs` | lemmas: what a kept part of a queue consists of and in which order |
| `FactPipelineProofs` | the inductive invariant of the pipeline, its safety theorems and `AppendOnly` |
| `LedgerProofs` | the pipeline implements `TurnLedger` |
| `ActivationTreeProofs`, `TurnFactsProofs`, `JobManagerProofs` | the inductive invariant of each component and its theorems |

`FactPipeline` and `ActivationTree` meet in the atomic commit: what the first
calls the commit of an ending or of a next-Step claim is one action of the
second, and the second keeps the control records the first leaves out.
`TurnFacts` says which Facts `FactPipeline`'s `Publish`, `OpSend` and
`RepairTurn` may carry.

Definitions whose comment starts with `faulty:` are plausible wrong versions of
the definition that follows them. No action uses them; each is substituted once
for its neighbour to see that a property notices.

### FactPipeline

One Session. A Fact is its sequence number, its Turn and the kind of its body;
a Turn runs at most one effect (`Intent`, `Started`, `Settled`), which is enough
for the intent fence. Steps are represented by the one commit that bypasses the
flusher for them (`claim_pending_step_messages`). `ActivationTurns` are the Turns
that a mailbox message starts; they never enter the pending suffix to be
accepted.

| Variable | Code |
|---|---|
| `stored` | rows of the Store for the Session |
| `resident`, `durableSeq`, `pending`, `control`, `order`, `retryFailures`, `permanentError` | `SessionRuntime` |
| `queue`, `queued` | `KernelState.claim_queue`, `queued` |
| `claimed`, `token` | `TurnControl.claim`, `TurnControl.cancellation` |
| `flight` | the one append of the worker (`flush_inflight`) |
| `op` | the commit that holds submission admission across a Store call: the end of a Turn, a next-Step claim, or the start of a message Turn (`claim_message_with_lane`), which also holds a reservation of the Session |
| `guard` | the `ResumeAdmissionGuard` of a `claim_message` that failed and has given admission back |
| `waits` | callers in `DurabilityWait::wait` |
| `acked`, `faults`, `crashes` | history and budgets of the model |

The calls that hold admission only inside one critical section (`Submit`,
`Cancel`, `Publish`) are one action and require `op = NoOp`. An ending, a
next-Step claim or the start of a message Turn is four: capture the live tail
and wait for the worker (`OpBegin`, `AcceptBegin`), stage (`OpSend`), the Store's
answer (`OpStore`), install or fail. A message Turn is staged only when no other
Turn is active; a claim repeated for a message whose Turn the Store has returns
its receipt (`AcceptKnown`).

A Session that has no Turn, no suffix, no flush and no reservation is evicted by
whatever removed the last of them: a flush, an ending, or the drop of a
reservation (`ResidentAfterDrop`, `GuardDrop`). `Load` is
`ensure_prepared_session_loaded`: the next caller rebuilds control and order of
the open Turns from the Store and puts each of them into the claim queue. That
matters while the process is up, too. When the Store commits the start of a
message Turn and the answer is lost, the resident Session does not know the Turn
and is evicted, and only the next load finds it open (`AcceptFails`,
`GuardDrop`, `Load`). Nothing loads a Session by itself, so the model claims no
progress for such a Turn until a caller comes; once the Session is loaded the
Turn is queued (`ClaimableIsQueued`). If other work enters the Session before the
reservation is dropped, the Session stays, with the Turn only in the Store;
every later append then meets a conflict. Retirement of idle Sessions by
maintenance does the same as the eviction and is not a separate action.

The Store is a compare-and-append that may also fail before the write (`io`,
`busy`) or commit and lose the answer (`io`); an error of the kind
`ValidationBusy`/`ReadCapacity` is `busy`, and a mismatch is `conflict`. The
Kernel's treatment of each differs and is kept: a flush conflict quarantines, a
flush `busy` is retried without being counted, `io` is counted up to
`MaxFlushFailures`; an ending reads the Turn's boundary back; a next-Step claim
just returns the error and leaves `durableSeq` behind the Store, as does the
start of a message Turn.

A `Crash` may come at any point, also during recovery. It loses everything but
`stored`. `RepairTurn` is one iteration of `repair_unfinished_session`; `Boot`
ends recovery.

Release of a claim while the same claim is ending is left out here; it is the
subject of `ClaimGate`.

### ClaimGate

One Turn. Gates are allocations, compared by identity as `Arc::ptr_eq` does; a
lease count is the set of its holders. `claim` is `TurnControl.claim`: identity,
registration and the current gate. `mut`, `fin` and `pub` are program counters
of calls in progress: business mutations (`Domains` stage and install the Turn,
`Agents` stand for messages, interrupts, Program control and parked waits),
attempts to end the Turn, and publications of nonterminal Facts. Each records
the claim it was made with, the gate it copied (`staged`), drains (`drain`) or
holds a lease on (`lease`).

An action is one critical section of the Kernel mutex. `Reopen` is shared by
the drops of leases and drains, as `reopen_drained_gate` is. `FinishStore` folds
`commit_agent` and `reconcile_failed_ending` into the three things they can
conclude: stored, not stored, unknown. `FlushTerminal` folds the Store append of
a published terminal with its application: `FactPipeline` has the two apart.

`Overlap` says who the client is. `FALSE` is `rsi-agent-executor`, which awaits
each publication and each domain mutation before it ends the Turn
(`executor/src/execution_support.rs`). `TRUE` is any client of the
`TurnExecution` trait.

`Drain` requires a spare gate, so that the finite set of identities is never
what stops a reopening; it bounds the number of abandoned endings, not what one
of them may do.

### ActivationTree

One tree. `act`, `born`, `paused` and `mail` are what the Store keeps about
activations, Headers, inbox suspension and pending messages; the rest is lost
in a `Crash`.

| Variable | Code |
|---|---|
| `mail` | pending messages of the tree, in the ready order of the Store |
| `act` | the activation record: its phase, its number, the parent's activation it was admitted under (`held`), a cancellation, the outcome it waits with |
| `lane` | permits of the tree's running semaphore |
| `fin` | an ending: its outcome, the descendants it still has to cancel, whether the settling commit was refused |
| `cand` | the message `activate_ready_root` has prepared and not yet claimed |
| `wake`, `round`, `settler` | the settlement worker: its notification, the list it read, the activation it is about to settle |

An operation that holds a Session's admission from its first read to its commit
is one action. Three things are split because the code reads first and acts
later: the ready scheduler (`ReadyScan`, `ClaimMessage`, which looks at the
message again under admission), the settlement worker (`RoundBegin`,
`SettleRead`, `SettleCommit`) and an ending (`FinishBegin`, one
`CancelDescendant` for each descendant, `FinishSettle`, and `FinishWaiting` when
the transaction found a busy descendant). A settled child leaves a completion
in its parent's mailbox, waking or not depending on the parent's phase; that
place was reserved when the child's activation was admitted
(`Reservations`). `Park` and `Resume` fold the durable record of a wait with the
change of the lane it follows or precedes. The first claimable message of the tree is the only one a
scan considers, as in the code; a claim that the Kernel refuses leaves it first.
Removing messages keeps the positions of the others (`Queues`). `Ancestors` is
the least set that contains the parents of a Session and of its own members.

### TurnFacts

One Turn. `turn` is `TurnControl` restricted to what the Fact rules read; an
action is one accepted Fact, or one batch of the Kernel's own. A refused Fact
is discarded with the copy it was staged on, so it is a step not taken. Tools
are their role (`callable`, `coordinator`, `unavailable`), their scheduling and
whether they report the result; the names executors give to a call the model
invented are not told apart. `CrashAndRecover` applies the repair of
`repair_unfinished_session` to the Facts so far, for every subset of Tool
receipts it may find, and leaves the Turn terminal. Because replay uses the
live rules, the Facts that a crash loses need no separate state.

### JobManager

One scope identity and one producer name, each with numbered generations; an
action is one critical section of the registry lock. A submission goes through
`starting` (capacity reserved, the producer called without the lock), `running`
or `stopping`, and a terminal record that lasts until it is evicted. A
submission whose generation went away while it started is `reaping`. `active`,
`activeOf`, `reserved` and `evictable` are the counters and the index of the
code, kept beside the records they summarise so that a run can compare them.
The provider's totals are the number of units charged to all its generations
(`Total`). A wait is `begin`, `armed` (subscribed to `changed`), `asleep` or
`quiet`.

`finalize_scope` is two actors: a reaper task of the provider
(`FinalizeSnapshot`, `FinalizeLook`, `FinalizeReport`, `FinalizeDone`) and the
`caller` that waits for it. The caller gets the finished report (`CallerIsTold`)
or gives up before (`CallerTimesOut`: its deadline, or its future is dropped);
the reaper goes on in either case and marks the jobs it lists as reported.
`Impatient` bounds the generations whose caller may give up. What somebody has
been told is therefore `delivered` by a read, or the `unreported` list of a
reaper whose caller is not gone.

Three simplifications: a job has one consumer at a time; the cancel signals that
`withdraw_*` sends after it has marked the jobs are part of the marking, since a
job marked `stopping` has no other way to go on; `changed.notify_waiters` after
a release is part of the release. `list`, `get` and `peek` only read.

## 3. Runs

| Run | Instance | Shows |
|---|---|---|
| `pipeline_safety` | three Turns (two direct with symmetry, one started by a message), four Facts, one Store fault or timeout, one crash, eviction and reload, about 1.3 million states | receipts are true (`AckedIsStored`), stored Turns are well formed (`StoredTurnsAreTurns`), `CancelledIffRequested`, `TurnsRunInOrder`, `StartedHasDurableIntent`, `TokenIsDurable`, `ClaimableIsQueued`, `AppendOnly` |
| `pipeline_live` | a direct Turn and one started by a message, three Facts before recovery adds its own, two Store faults, one crash, with fairness, about 171,000 states | `SuffixDrains`, `AdmissionIsReleased`; the Store implements `TurnLedger` across faults, eviction, crash and recovery (`ImplementsLedger`) |
| `gate_safety` | two registrations, two claims, three gates, one settling domain mutation, two other mutations, two endings, one publication, with symmetry | `LeaseKeepsClaim`, `NoMutationAcrossTerminal`, `StoredTerminalIsInstalled`, `UnclaimedIsQueued`, `AdmissionIsRestored` |
| `gate_live` | one registration and claim, two gates, fairness | `RetiringClaimClears`, `DrainEnds` |
| `gate_overlap` | one claim, two gates, `Overlap = TRUE` | **violated**: `AdmissionIsRestored` (section 5) |
| `tree_safety` | root and child exist and a grandchild may be spawned; three submissions, spawns or waits; mailboxes of two; one lane; stops and any number of crashes; about 208,000 states | `NestedActivations`, `NoStrandedInput`, `CompletionsHaveRoom`, `PausedNeverStarts` |
| `tree_live` | the tree grows from a root by spawning, people write to the root, three submissions, fairness | `WaitingSettles`, `HumanInputIsTaken` |
| `tree_wedge` | the three Sessions exist and are idle, two human inputs, no crash, fairness | **violated**: `HumanInputIsTaken` (section 5) |
| `facts_safety` | three effect identities, two calls per response, five Tools (one of every role, one parallel-safe, the report Tool), two Steps, symmetry, about 268,000 states | `OverlapIsDeclared`, `CallsAreUsedOnce`, `ConclusionIsLast`, `EveryTurnCanClose` |
| `jobs_safety` | two submissions, two generations of scope and producer, the first generation's `finalize_scope` caller may give up, one record per scope, about 3.5 million states | `NothingOutlivesItsGeneration`, `ReportedUnlessAbandoned`, `UncertaintyIsReported`, `FinalReportIsNew`; the `TypeOK` of this module also says that the charges and the eviction index are exact |
| `jobs_live` | two submissions, one generation, a lease that is settled and a shutdown that is awaited, a patient `finalize_scope` caller, fairness | `WaitsEnd` |
| `jobs_timeout` | two submissions, two generations of the scope whose callers may give up, one retained record | **violated**: `EvictedWasReported` (section 5) |

Bounds. Four Facts are two acceptances plus a cancellation or an effect and a
terminal, or one Turn with its cancellation, effect and end: every pair of
writers meets at every position. One fault and one crash are enough for a lost
acknowledgement followed by a retry, by an ending, by an eviction and a reload,
or by a crash. Three Turns let two direct ones meet the message Turn before and
behind it. `MaxFlushFailures = 2` makes the difference between a counted and a
final failure, and `pipeline_live` spends two faults to reach the limit. Three gates
allow an abandoned ending under the first claim and a reclaim, or two abandoned
endings; two endings are needed for one to be refused or retried behind another.

A lineage of three is the smallest in which a Session is both a parent and a
child; three submissions suffice for an activation, a child inside it and a
message or wait that races its settlement. A mailbox of two is full with one
message and one reservation. In `tree_live` mailboxes never fill and nobody
stops a Session: a stop legitimately keeps an input waiting. Three effects are a
coordinator with two nested calls or a batch with a late third;
`MaxOutstanding = 2` makes the limit of a program reachable. Two jobs are one
that is read, killed or finalized while the other starts, settles or needs its
place; two generations let the new one come up while the old one still drains.
One of the two has a consumer, which is enough because jobs meet only through
capacity, eviction and the finalizer. In `jobs_safety` one generation's caller may
give up and the other's may not, so that a lost report meets a kept one.

Deadlock is not checked: a Session whose Turns are over, whose flush failed
permanently or whose budget of Facts is used up stops legitimately, and so do an
idle tree, a terminal Turn and a provider that has shut down.

Fairness. `FactPipeline` assumes weak fairness of the worker's steps
(`flush_loop` scans on request, on every completion and on a timer, and does not
stop while a flushable suffix is left), of Store answers, of the steps of a
commit once its flush has succeeded, of abandoning a commit whose flush failed
for good (`DurabilityWait` returns the sticky error), of refusing a message whose
Session has an active Turn, of dropping a reservation and of recovery. It does
not assume that callers do anything, a load included. `ClaimGate` assumes that a leased mutation
and a spawned terminal task run to their end (they are tasks of the Kernel, and
the gate's stop token ends a parked wait) and that a drainer is woken by the
last lease (`drained.notified()` is enabled before the count is read). The
one-minute deadlines are never relied on.

`ActivationTree` assumes that the ready scheduler, the settlement worker (which
has a fallback timer besides its notification) and recovery run, and that
executors end every Turn they drive: Steps have a budget and waits a deadline.
A resuming wait needs strong fairness, because others may take the lane between
two of its attempts; the lane is a FIFO semaphore, which gives it. Nothing can
be promised to a process that crashes for ever, so crashes stop eventually.
`JobManager` assumes that tasks of the provider run and that a producer finishes
a start and settles a control it was told to cancel. A job that nobody cancels
may run for ever. The deadline of `finalize_scope` is not relied on: the caller
of `jobs_live` never gives up and still gets its answer.

## 4. Proofs

TLAPS proves every invariant and every action property that a run checks, and
the refinement of `TurnLedger`, for every value of the constants that satisfies
the named assumption of the module. TLC evaluates those assumptions in the runs.
No theorem uses the fairness of a specification. Each module follows the same
plan: an inductive `Inv`, one lemma for each action (or group of actions that
move the same state), and a last step that combines them.

### FactPipeline

From `PipelineAssumption`: `NoTurn` is no Turn, activation-owned Turns are
Turns, the bounds are natural numbers and a flush may fail at least once. The
number of Turns, Facts, faults and crashes is arbitrary.

| Theorem | Statement |
|---|---|
| `PipelineIsTyped` | `Spec => []TypeOK` |
| `ReceiptsAreTrue` | `Spec => []AckedIsStored` |
| `StoredHistoryIsWellFormed` | `Spec => []StoredTurnsAreTurns` |
| `CancellationIsHonoured` | `Spec => []CancelledIffRequested` |
| `ExecutionFollowsAcceptance` | `Spec => []TurnsRunInOrder` |
| `EffectsAreFenced` | `Spec => []StartedHasDurableIntent` |
| `TokensFollowTheStore` | `Spec => []TokenIsDurable` |
| `WakeupsAreKept` | `Spec => []ClaimableIsQueued` |
| `StoreIsAppendOnly` | `Spec => AppendOnly` |
| `PipelineImplementsLedger` | `Spec => ImplementsLedger` (in `LedgerProofs`) |

None of the invariants but the first is inductive: what reaches the Store was
decided earlier, on the resident state. The argument compares two logs, the
Store and `View`, the first `durableSeq` stored Facts followed by the pending
suffix. `View` is the history the Kernel believes in; it agrees with the Store
up to `durableSeq` and may be ahead or, after a lost acknowledgement, behind.

- `GoodLog` says of one log what the theorems say of the Store: Facts are
  numbered by position (`Numbered`), a Turn opens with its one acceptance
  (`Opened`), has at most one request and one terminal, which is its last Fact
  (`WellEnded`) and Cancelled exactly after a request (`WellCancelled`),
  executor Facts come in turn (`InTurn`) and starts follow intents (`Fenced`). A
  good log stays good when a Fact that is `Fit` is added (`GrowthIsGood`), and
  so does every prefix of it (`PrefixIsGood`). Each action that writes is then
  shown to write a fit Fact, on `View` or on the Store.
- `Resides`: a Session with a Turn, a suffix or a reservation is resident, so
  that an eviction loses nothing of `View`.
- `TurnsAgree`: `control` and `order` say about every Turn what `View` says.
- `ClaimedAgree`: a claimed Turn is live and every Turn before it has ended.
- `FlightAgrees`: the worker's batch is the head of the suffix it left; once the
  Store has taken it, the batch is the tail of the Store.
- `OpAgrees`: the commit under admission works on the tail it captured
  (`OpHolds`), and what it has staged may be stored there (`OpStages`). When
  nothing is pending, the Store is ahead of the process only by this very
  commit, by a next-Step claim or the start of a message Turn whose answer was
  lost (`Missable`), or in a Session that is quarantined (`OpStages`, `Behind`).
  An ending that reads the Turn's boundary back therefore cannot take another
  commit for its own. `Load` starts again from the Store: `View` becomes the
  Store, and `TurnsAgree` holds because control and order are read from it.
- `Promises`: whoever waits for durability waits for a Fact of `View`, and what
  has been acknowledged is in the Store; a start in the suffix has its intent in
  the Store. `Wakes` ties the queue to the Turn that may run next; `Load` keeps it
  by the enqueue of `lifecycle.rs:1228`.

`LedgerProofs` reads the Store as a ledger: acceptances, cancellations and
endings in log order, picked by `Queues`. Every step leaves the Store alone or
appends Facts that are together one ledger commit (`Writes`). The two facts it
needs beyond `Inv` are that a batch contains a terminal only in its last place
(`BatchEnds`), and that the n-th terminal of a good log ends the n-th accepted
Turn (`EndsFollow`). The latter counts: Turns end in acceptance order, so the
ended Turns are the first n accepted ones.

### ClaimGate

For all finite or infinite sets of registrations, claims, gates, mutations,
endings and publications, from `GateAssumption` only (the kinds of calls are
disjoint, `None` is none of the identities).

| Theorem | Statement |
|---|---|
| `TypeCorrect` | `Spec => []TypeOK` |
| `NoTurnIsStranded` | `Spec => []UnclaimedIsQueued` |
| `LeasesKeepClaims` | `~Overlap`: `Spec => []LeaseKeepsClaim` |
| `NoMutationSpansTerminal` | `~Overlap`: `Spec => []NoMutationAcrossTerminal` |
| `StoredTerminalsAreInstalled` | `~Overlap`: `Spec => []StoredTerminalIsInstalled` |
| `AdmissionReturns` | `~Overlap`: `Spec => []AdmissionIsRestored` |

`TypeOK` is inductive. `UnclaimedIsQueued` is inductive on top of it: the only
steps that clear a claim of a live Turn also queue it, and the only step that
takes the Turn from the queue claims it or finds that it may not run.

The other four are not inductive. `Inv` in `ClaimGateSafety` adds what ties a
call to a gate:

- `LeaseIsCounted`: whoever holds a lease is counted by its gate, so a gate
  without holders really has none;
- `DrainIsExclusive`, `DrainBinds`: a drain is the only one of its gate, and
  while the claim it was taken under lasts, that gate is still the claim's gate;
- `StageBinds`: the copy a publication or domain mutation will install names the
  gate that the claim has now, because its gate can neither be drained nor
  reopened meanwhile. This is the part that `~Overlap` buys and that an
  overlapping client breaks;
- `FinisherIsAlone`, `FinisherIsLive`, `TerminalCloses`: a terminal commit is
  the only holder on a gate that admits nothing, its Turn is still there, and an
  admitted or stored terminal closes the gate for good;
- `GateIsClosed`, `GateIsFresh`, `ClaimIsIssued`: a gate is closed for a reason,
  a fresh gate is untouched, an issued claim identity is not issued again.

The proof first states, operator by operator, what happens to the fields of a
gate (`GateFields`, `ReopenEffect`, `DropLeaseEffect`, ...), then classifies
what any step may do to calls (`CallMoves`), gates (`GateMoves`), the claim
(`ClaimMoves`) and the Turn (`TurnMoves`), one case per action. Each conjunct
of `Inv` then follows from these moves, without looking at the actions again.

### ActivationTree

From `TreeAssumption` (the Sessions that exist at first are finitely many and
contain their parents; capacities are natural numbers) and `LineageAssumption`
(no Session is its own ancestor: a fork names a Session that existed before).

| Theorem | Statement |
|---|---|
| `TreeIsTyped` | `Spec => []TypeOK` |
| `ActivationsNest` | `Spec => []NestedActivations` |
| `InputIsNotStranded` | `Spec => []NoStrandedInput` |
| `MailboxesHaveRoom` | `Spec => []CompletionsHaveRoom` |
| `SuspendedInboxStartsNothing` | `Spec => PausedNeverStarts` |

`Inv` adds to the three invariants: `ActAgrees` (an ending belongs to a running
Turn, an activation waits with an outcome), `BornAgree` (a Session exists when
it is active, and its parent exists), `LanesAgree` (permits are those of running
Turns, and with the one of the prepared candidate within the limit),
`DownAgrees` (lanes, candidate and endings do not survive a crash) and
`MailAgrees` (the identity of a message, pending or prepared, says which Session
it goes to, and submissions to come get fresh ones, so that the message a claim
finds again is for the Session that was scanned). Nesting holds
because an admission records the parent's activation number and every step that
ends an activation requires that no descendant is active under it; room is kept
because a step that frees a place or a reservation uses it at most once, which
`QueueProofs` turns into a statement about positions.

### TurnFacts

From `FactsAssumption` (`Role` gives every Tool a role, request-scoped Tools are
neither callable nor parallel-safe); effects, Tools, calls, Steps and ordinals
are arbitrary.

| Theorem | Statement |
|---|---|
| `FactsAreTyped` | `Spec => []TypeOK` |
| `EffectsOverlapAsDeclared` | `Spec => []OverlapIsDeclared` |
| `CallsUsedOnce` | `Spec => []CallsAreUsedOnce` |
| `ConclusionEndsWork` | `Spec => []ConclusionIsLast` |
| `TurnsCanClose` | `Spec => []EveryTurnCanClose` |

`Inv` adds `EffectsAgree` (a nested call names a coordinator that is still
running, and any two effects overlap as declared), `SourceIsSettled` (the source
is a model effect of this Turn, and offers no calls while a model effect runs),
`UsesAgree` (a used model call is consumed in the current source or belongs to
another one, and a used ordinal is below the next one of its coordinator, so
neither can be used again) and `EndsAgree` (nothing runs after a conclusion or a
terminal).

### JobManager

From `JobsAssumption`: the capacities are positive and nested as the provider's
configuration requires them to be.

| Theorem | Statement |
|---|---|
| `JobsAreAccounted` | `Spec => []TypeOK` (charges and eviction index included) |
| `JobsEndWithTheirGeneration` | `Spec => []NothingOutlivesItsGeneration` |
| `JobsAreReported` | `Spec => []ReportedUnlessAbandoned` |
| `JobsDoubtIsReported` | `Spec => []UncertaintyIsReported` |
| `JobsAreReportedOnce` | `Spec => FinalReportIsNew` |

`Inv` states the counters as cardinalities (`CountsAreExact`): a charge is the
set of submissions of a generation that hold one, and a step adds or removes one
element at most. `Shapes` says which fields go with which program counter,
`IndexIsExact` and `RecordsFit` what the eviction index and the retention limit
count. `FinalizedIsOver`, `ReportsAreComplete`, `ReportedIsKnown` and
`DoubtIsMarked` follow a finalizer: once it reports, nothing of its generation
holds a charge; what nobody has been told is on its list; what counts as
reported was delivered or is in its report, whose caller may have given up
(`ReportedUnlessAbandoned` then promises nothing); and the generation is marked exactly
when one of its submissions ended in doubt. The proof classifies what one step
may do to one job (`Moves`), and each conjunct follows from these moves.

### Only model-checked

Liveness (`RetiringClaimClears`, `DrainEnds`, `SuffixDrains`,
`AdmissionIsReleased`, `WaitingSettles`, `HumanInputIsTaken`, `WaitsEnd`), which
needs fairness and ENABLED and is out of the prover's reach, and the three
violations of section 5, which are counterexamples. No module has a RECURSIVE
operator: `Ancestors` is a closure instead of a recursion and queues are edited
by position, because what a recursive definition computes needs an induction
over data that the provers cannot do.

## 5. Findings

`gate_overlap`: `try_publish_once` copies `TurnControl`, the claim's gate
included, under the mutex (`execution.rs:1248`), stages outside it and installs
the copy in a second critical section (`execution.rs:1323`). If an attempt to end
the Turn starts and is abandoned in between, the claim has got a fresh gate,
and the installation puts the old one back in `ReopenPending`. Nobody is left
to reopen it, so no mutation is admitted for the rest of the claim, against the
Kernel README (`kernel/README.md:388-390`). The trace has seven states:
register, claim, stage a publication, drain, abandon, install. The recheck of
`turn_is_ending` in the second section sees only a drain that is still there.
The executor of this repository makes these calls one after the other and is
not affected.

`tree_wedge`: the tree root, child, grandchild is idle and a person writes to
the grandchild. That is admitted although its parent is idle
(`turn_service.rs:1432` restricts only Agent and Completion messages). When the
grandchild's activation settles, `admission.rs:385` accepts its completion as a
waking message of the idle child. Claiming that message needs an activation of
the root, so `claim_message_with_lane` refuses it, and `activate_ready_root`
(`lifecycle.rs:857`) returns the error for the first claimable message without
trying the next. From then on every scan meets the same message first: input a
person gives to the root, or to any other Session of the tree, is not taken
until somebody discards the notice. The Kernel README (`kernel/README.md:629`)
says that human submissions can reactivate a durable child after its parent has
settled. `tree_live` shows the property where people write to the root only.

`jobs_timeout`: `finalize_scope` (`local/src/lib.rs:666-677`) waits for its reaper
until `shutdown_timeout_ms` and then returns `CancellationTimeout`. The reaper
goes on, marks each terminal job that needs a report as reported (`lib.rs:868`),
which makes it evictable, and returns its `JobFinalization` to nobody; the scope
is revoked, so no read can deliver the result either. In the trace a job is
submitted, published and settles, its scope is finalized, the reaper marks the
job, the admission of a job of the next generation evicts the record, and the
caller gives up; one step longer is the trace in which the caller times out
first, as in the test, and the record is marked and evicted afterwards. The Jobs README says that "Terminal jobs requiring a report
are never evicted before that report" (`core/README.md:50`) and that finalization
"returns a report containing every terminal job that still required reporting"
(`core/README.md:57-60`), timeouts being named only for the work, which is indeed
not abandoned. The test at `local/tests/jobs.rs:1078` exercises the timeout and
does not ask for the report. `ReportedUnlessAbandoned` is what the code keeps.

## 6. Plan

Done: `TurnLedger`, `FactPipeline`, `ClaimGate`, `ActivationTree`, `TurnFacts`,
`JobManager`, and the proofs of their safety properties. Next, in order:

1. `publish_job_status`, which changes the claim owner in place while a
   publication or a domain mutation holds a copy of it (`execution.rs:25`).
   `ClaimGate` has the copies and lacks this writer.
2. Program runs, Goal continuations and the reordering of queues in
   `ActivationTree`; shutdown with its worker joins and finalizers.
3. `ApprovalBroker`, `GoalController`, `ScheduleState`, `SettingsOwner`: one
   module each, with the races between answer, withdrawal and cancellation.
4. The Meta runtime: Context and Fiber lifecycle, Profile convergence.

## 7. Not modelled

The map covers the Kernel's control code and the Jobs provider, a small share of
a repository of some 424,000 lines. Most of the rest has no state machine to
check: terminal, web and desktop user interfaces, model providers and wire
protocols, sandboxing, processes, SSH, files, patches, retrieval and media are
input/output or text processing, which the Kernel sees as effects with an
intent, a start and a result; protocol crates are types with their validation;
test kits and tests exercise the code that is modelled here.

Left out of what is modelled: the contents of messages, Facts, domains and
streams; byte and count limits, except where they are a capacity the code
reserves; validation of corrupt stores; replay receipts of repeated
submissions; prices and delegation policy; the Store's indexes and reads beyond
those an action uses; observers and projections. `PROJECT.json` gives the reason
for every component.
