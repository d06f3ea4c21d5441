---------------------------- MODULE FactPipeline ----------------------------
(***************************************************************************)
(* The durable Fact pipeline of one Agent Session in rsi-agent-kernel.     *)
(*                                                                         *)
(* Callers append Facts to an in-memory pending suffix; a write-behind     *)
(* worker moves the suffix to the Store with compare-and-append; terminals *)
(* and the Turns and Steps that mailbox messages start bypass the worker   *)
(* with commits of their own made under the Session's submission           *)
(* admission.  The Store may fail before a write, or commit and lose the   *)
(* acknowledgement; an idle Session is evicted and loaded again from the   *)
(* Store, and the process may crash and recover from the Store alone.      *)
(*                                                                         *)
(* A Fact keeps its sequence number, its Turn and the kind of its body.    *)
(* A Turn runs at most one effect (Intent, Started, Settled).              *)
(***************************************************************************)
EXTENDS Queues

CONSTANTS
  Turns,             \* Turn identities
  ActivationTurns,   \* Turns started by a mailbox message (activation_id is set)
  NoTurn,            \* "no Turn"
  MaxLog,            \* bound on the live sequence number
  MaxFlushFailures,  \* MAXIMUM_CONSECUTIVE_FLUSH_FAILURES
  MaxFaults,         \* bound on Store faults in a behaviour
  MaxCrashes         \* bound on process crashes in a behaviour

ASSUME PipelineAssumption ==
  /\ ActivationTurns \subseteq Turns
  /\ NoTurn \notin Turns
  /\ MaxLog \in Nat
  /\ MaxFlushFailures \in Nat \ {0}
  /\ MaxFaults \in Nat
  /\ MaxCrashes \in Nat

VARIABLES
  \* the Store
  stored,          \* Facts of the Session, in sequence order
  \* the process
  up,              \* recovery is complete and the Kernel runs
  resident,        \* the Session is in KernelState.sessions
  durableSeq,      \* SessionRuntime.durable_seq (and the published FlushStatus)
  pending,         \* SessionRuntime.pending
  control,         \* SessionRuntime.turns
  order,           \* SessionRuntime.turn_order
  claimed,         \* Turns with a ClaimOwner
  token,           \* Turns whose CancellationToken is cancelled
  retryFailures,   \* SessionRuntime.retry_failures
  permanentError,  \* SessionRuntime.permanent_flush_error is set
  queue,           \* KernelState.claim_queue
  queued,          \* KernelState.queued
  \* work in flight
  flight,          \* the one write-behind append (flush_inflight)
  op,              \* the commit that holds submission admission
  guard,           \* a failed claim_message still holds its ResumeAdmissionGuard
  waits,           \* callers in DurabilityWait::wait
  \* history and budgets
  acked,           \* Facts whose durability a caller was told of
  faults, crashes

resVars  == <<resident, durableSeq, pending, control, order, retryFailures, permanentError>>
qVars    == <<queue, queued>>
history  == <<acked, faults, crashes>>
vars     == <<stored, up, resident, durableSeq, pending, control, order, claimed, token,
              retryFailures, permanentError, queue, queued, flight, op, guard, waits,
              acked, faults, crashes>>

-----------------------------------------------------------------------------
(* Facts, Turn control and the calls in flight.                            *)

Outcomes == {"Completed", "Failed", "Cancelled", "Interrupted"}
EffectBodies == {"Intent", "Started", "Settled"}
Bodies   == {"Accepted", "CancelRequested", "StepClaimed"} \cup EffectBodies \cup Outcomes

Fact(s, t, b)  == [seq |-> s, turn |-> t, body |-> b]
Facts          == [seq : Nat \ {0}, turn : Turns, body : Bodies]
IsTerminal(f)  == f.body \in Outcomes

\* TurnControl: live is membership in session.turns, terminalSeq = 0 is terminal.is_none()
NoControl       == [live |-> FALSE, effect |-> "none", cancelRequested |-> FALSE, terminalSeq |-> 0]
AcceptedControl == [NoControl EXCEPT !.live = TRUE]

NoFlight == [phase |-> "none", expected |-> 0, facts |-> <<>>, result |-> "none"]
NoOp     == [kind |-> "none", turn |-> NoTurn, phase |-> "none", expected |-> 0,
             proposed |-> "none", facts |-> <<>>, result |-> "none"]

LiveSeq == durableSeq + Len(pending)

\* Facts of a log, by Turn and body
Has(log, t, b)  == \E i \in DOMAIN log : log[i].turn = t /\ log[i].body = b
Ended(log, t)   == \E i \in DOMAIN log : log[i].turn = t /\ IsTerminal(log[i])
OpenTurns(log)  == {t \in Turns : Has(log, t, "Accepted") /\ ~Ended(log, t)}

\* faulty: the Store appends wherever its tail is
CasIgnored(expected) == TRUE

\* A predicate over the commit's sequence watermark: append.rs admits a batch only
\* at the exact tail and never twice.
CasHolds(expected) == expected = Len(stored)

\* faulty: any Turn without a terminal may run
AnyClaimable(ord, ctl, durable) ==
  LET open == {i \in DOMAIN ord : ctl[ord[i]].terminalSeq = 0}
  IN  IF open = {} THEN NoTurn ELSE ord[CHOOSE i \in open : \A j \in open : j <= i]

\* The first Turn in acceptance order without a terminal, unless an earlier
\* terminal is still speculative.
OldestClaimable(ord, ctl, durable) ==
  LET first == {i \in DOMAIN ord :
                  /\ ctl[ord[i]].terminalSeq = 0
                  /\ \A j \in 1..(i - 1) : ctl[ord[j]].terminalSeq \in 1..durable}
  IN  IF first = {} THEN NoTurn ELSE ord[CHOOSE i \in first : TRUE]

\* faulty: the absent Turn is queued too
EnqueueAlways(q, qs, t) == IF t \in qs THEN q ELSE Append(q, t)

\* enqueue: the queued set keeps claim_queue free of duplicates
EnqueueIn(q, qs, t) == IF t = NoTurn \/ t \in qs THEN q ELSE Append(q, t)
QueuedWith(qs, t)   == IF t = NoTurn THEN qs ELSE qs \cup {t}

-----------------------------------------------------------------------------
(* Submission, cancellation and their durability waits.                    *)

\* The Turns of a log at the positions K, in their order
TurnsAt(log, K) == LET q == Kept(log, K) IN [n \in DOMAIN q |-> q[n].turn]

\* load_control_state: the open Turns of the Store in acceptance order, each with
\* the control its Facts leave
LoadedOrder ==
  TurnsAt(stored, {i \in DOMAIN stored : /\ stored[i].body = "Accepted"
                                         /\ stored[i].turn \in OpenTurns(stored)})

LoadedEffect(t) ==
  IF Has(stored, t, "Settled") THEN "settled"
  ELSE IF Has(stored, t, "Started") THEN "started"
  ELSE IF Has(stored, t, "Intent") THEN "intent" ELSE "none"

LoadedControl ==
  [t \in Turns |->
     IF t \notin OpenTurns(stored) THEN NoControl
     ELSE [AcceptedControl EXCEPT !.effect = LoadedEffect(t),
                                  !.cancelRequested = Has(stored, t, "CancelRequested")]]

\* faulty: the loaded Turns are not enqueued
LoadQuietly ==
  /\ up /\ op = NoOp /\ ~resident
  /\ resident' = TRUE /\ durableSeq' = Len(stored)
  /\ control' = LoadedControl /\ order' = LoadedOrder
  /\ retryFailures' = 0 /\ permanentError' = FALSE
  /\ token' = token \cup {t \in OpenTurns(stored) : Has(stored, t, "CancelRequested")}
  /\ UNCHANGED <<stored, up, pending, claimed, qVars, flight, op, guard, waits, history>>

\* ensure_prepared_session_loaded, under submission admission: a submission, a
\* cancellation, a message claim or an inbox stop meets a cold Session.  A fresh
\* Session starts from the same state with an empty Store.
Load ==
  /\ up /\ op = NoOp /\ ~resident
  /\ resident' = TRUE /\ durableSeq' = Len(stored)
  /\ control' = LoadedControl /\ order' = LoadedOrder
  /\ retryFailures' = 0 /\ permanentError' = FALSE
  /\ token' = token \cup {t \in OpenTurns(stored) : Has(stored, t, "CancelRequested")}
  /\ queue' = queue \o Only(order', Turns \ queued)
  /\ queued' = queued \cup OpenTurns(stored)
  /\ UNCHANGED <<stored, up, pending, claimed, flight, op, guard, waits, history>>

\* ResumeAdmissionGuard::drop: the last reservation takes an idle Session with it
Idle == order = <<>> /\ pending = <<>> /\ flight = NoFlight
ResidentAfterDrop == resident /\ (guard \/ ~Idle)

\* accept_turn: a new Turn of a resident Session
AcceptTurn(t) ==
  LET fact == Fact(LiveSeq + 1, t, "Accepted")
  IN /\ resident /\ ~permanentError
     /\ ~Has(stored, t, "Accepted") /\ ~control[t].live
     /\ fact.seq <= MaxLog
     /\ pending' = Append(pending, fact)
     /\ control' = [control EXCEPT ![t] = AcceptedControl]
     /\ order' = Append(order, t)
     /\ queue' = EnqueueIn(queue, queued, t)
     /\ queued' = QueuedWith(queued, t)
     /\ waits' = waits \cup {fact}
     /\ UNCHANGED <<resident, durableSeq, retryFailures, permanentError, acked>>

\* accept_turn refuses (the Session has failed, a limit is reached): the
\* reservation is dropped, and nothing else is left of the submission.
RefuseTurn ==
  /\ resident' = ResidentAfterDrop
  /\ UNCHANGED <<durableSeq, pending, control, order, retryFailures, permanentError, qVars,
                 waits, acked>>

\* existing_submission: an exact retry of a pending acceptance waits for the same
\* sequence, and one of a stored acceptance returns its receipt.
ExistingSubmission(t) ==
  \/ /\ resident
     /\ \E i \in DOMAIN pending :
          /\ pending[i].turn = t /\ pending[i].body = "Accepted"
          /\ waits' = waits \cup {pending[i]}
     /\ UNCHANGED <<resVars, qVars, acked>>
  \/ /\ ~Has(pending, t, "Accepted")
     /\ \E i \in DOMAIN stored :
          /\ stored[i].turn = t /\ stored[i].body = "Accepted"
          /\ acked' = acked \cup {stored[i]}
     /\ UNCHANGED <<resVars, qVars, waits>>

\* submit_body of a direct Turn, under one submission admission
Submit(t) ==
  /\ up /\ op = NoOp /\ t \notin ActivationTurns
  /\ ExistingSubmission(t) \/ AcceptTurn(t) \/ RefuseTurn
  /\ UNCHANGED <<stored, up, claimed, token, flight, op, guard, faults, crashes>>

\* cancel: the request joins the pending suffix; the token follows durability
Cancel(t) ==
  /\ up /\ op = NoOp /\ resident
  /\ control[t].live /\ control[t].terminalSeq = 0 /\ ~control[t].cancelRequested
  /\ LiveSeq < MaxLog
  /\ LET f == Fact(LiveSeq + 1, t, "CancelRequested")
     IN /\ pending' = Append(pending, f)
        /\ waits' = waits \cup {f}
  /\ control' = [control EXCEPT ![t].cancelRequested = TRUE]
  /\ UNCHANGED <<stored, up, resident, durableSeq, order, claimed, token, retryFailures,
                 permanentError, qVars, flight, op, guard, history>>

\* faulty: the wait is satisfied by the live tail
ReachedLiveTail(f) == LiveSeq >= f.seq

\* DurabilityWait::wait observes the watermark
ReachedDurability(f) == durableSeq >= f.seq

\* The waiter returns its receipt; a cancel caller then cancels the token.
WaitReturns(f) ==
  /\ up /\ f \in waits
  /\ ReachedDurability(f)
  /\ waits' = waits \ {f}
  /\ acked' = acked \cup {f}
  /\ token' = IF f.body = "CancelRequested" THEN token \cup {f.turn} ELSE token
  /\ UNCHANGED <<stored, up, resVars, claimed, qVars, flight, op, guard, faults, crashes>>

\* The waiter sees the sticky failure, or its 60 s deadline passes.
WaitFails(f) ==
  /\ up /\ f \in waits
  /\ ~ReachedDurability(f)
  /\ \/ permanentError /\ UNCHANGED faults
     \/ faults < MaxFaults /\ faults' = faults + 1
  /\ waits' = waits \ {f}
  /\ UNCHANGED <<stored, up, resVars, claimed, token, qVars, flight, op, guard, acked,
                 crashes>>

-----------------------------------------------------------------------------
(* The executor's claim and its publications.                              *)

Claimable(t) ==
  /\ resident /\ ~permanentError
  /\ OldestClaimable(order, control, durableSeq) = t
  /\ t \notin claimed

\* claim: entries in front of the first claimable one are dropped.  While the tree
\* has no free lane, a claimable entry goes to the back of the queue instead.
Claim ==
  /\ up /\ queue # <<>>
  /\ \/ \E k \in DOMAIN queue :
          /\ Claimable(queue[k])
          /\ \A j \in 1..(k - 1) : ~Claimable(queue[j])
          /\ claimed' = claimed \cup {queue[k]}
          /\ queue' = SubSeq(queue, k + 1, Len(queue))
          /\ queued' = queued \ {queue[j] : j \in 1..k}
     \/ /\ queue' = Only(queue, {t \in Turns : Claimable(t)})
        /\ queued' = {t \in queued : Claimable(t)}
        /\ UNCHANGED claimed
  /\ UNCHANGED <<stored, up, resVars, token, flight, op, guard, waits, history>>

\* claim: an execution binding that no longer fits quarantines the Session, and
\* with it every entry of the queue
ClaimQuarantines ==
  /\ up /\ faults < MaxFaults
  /\ \E k \in DOMAIN queue : Claimable(queue[k])
  /\ permanentError' = TRUE
  /\ queue' = <<>> /\ queued' = {}
  /\ faults' = faults + 1
  /\ UNCHANGED <<stored, up, resident, durableSeq, pending, control, order, claimed, token,
                 retryFailures, flight, op, guard, waits, acked, crashes>>

\* release, deregister_executor and retire_claim of a drained claim
Release(t) ==
  /\ up /\ t \in claimed /\ (op.turn = t => op.kind = "accept")
  /\ claimed' = claimed \ {t}
  /\ LET again == IF control[t].terminalSeq = 0 THEN t ELSE NoTurn
     IN /\ queue' = EnqueueIn(queue, queued, again)
        /\ queued' = QueuedWith(queued, again)
  /\ UNCHANGED <<stored, up, resVars, token, flight, op, guard, waits, history>>

\* faulty: no fence
IntentIsPublished(t) == TRUE

\* validate_durable_intent_fence: the matching intent has left the pending suffix
IntentIsDurable(t) ==
  \A i \in DOMAIN pending : pending[i].turn = t => pending[i].body # "Intent"

EffectAdmits(t, b) ==
  \/ b = "Intent"  /\ control[t].effect = "none"
  \/ b = "Started" /\ control[t].effect = "intent" /\ IntentIsDurable(t)
  \/ b = "Settled" /\ control[t].effect = "started"

AfterEffect(b) == [Intent |-> "intent", Started |-> "started", Settled |-> "settled"][b]

MayPublish(t) ==
  /\ up /\ op = NoOp /\ resident /\ ~permanentError
  /\ t \in claimed /\ control[t].live /\ control[t].terminalSeq = 0
  /\ LiveSeq < MaxLog

\* try_publish_once of an effect Fact
Publish(t, b) ==
  /\ MayPublish(t)
  /\ EffectAdmits(t, b)
  /\ pending' = Append(pending, Fact(LiveSeq + 1, t, b))
  /\ control' = [control EXCEPT ![t].effect = AfterEffect(b)]
  /\ UNCHANGED <<stored, up, resident, durableSeq, order, claimed, token, retryFailures,
                 permanentError, qVars, flight, op, guard, waits, history>>

\* faulty: the executor's proposal wins
ProposedOutcome(proposed, cancelRequested) == proposed

\* canonicalize_terminal: a requested cancellation overrides every proposal, and
\* an unrequested one is a failure.
CanonicalOutcome(proposed, cancelRequested) ==
  IF cancelRequested THEN "Cancelled"
  ELSE IF proposed = "Cancelled" THEN "Failed" ELSE proposed

\* Completed stands for every proposal other than Cancelled: all are kept as proposed.
Proposals == {"Completed", "Cancelled"}

\* try_publish_once of a raw TurnTerminal, which only direct Turns may publish
PublishTerminal(t, proposed) ==
  /\ MayPublish(t) /\ t \notin ActivationTurns
  /\ LET o == CanonicalOutcome(proposed, control[t].cancelRequested)
     IN pending' = Append(pending, Fact(LiveSeq + 1, t, o))
  /\ control' = [control EXCEPT ![t].terminalSeq = LiveSeq + 1, ![t].effect = "none"]
  /\ UNCHANGED <<stored, up, resident, durableSeq, order, claimed, token, retryFailures,
                 permanentError, qVars, flight, op, guard, waits, history>>

-----------------------------------------------------------------------------
(* The write-behind worker.                                                *)

\* faulty: the worker waits for submission admission
FlushUnderAdmission == flight = NoFlight /\ op = NoOp

\* prepare_flush_batch: a prefix of the suffix (the count and byte limits decide
\* how long) that ends at its first terminal.  It takes no submission admission.
FlushMayStart == flight = NoFlight

PrepareFlush ==
  /\ up /\ resident /\ pending # <<>> /\ ~permanentError
  /\ FlushMayStart
  /\ \E n \in DOMAIN pending :
       /\ \A i \in 1..(n - 1) : ~IsTerminal(pending[i])
       /\ flight' = [phase |-> "sent", expected |-> durableSeq,
                     facts |-> SubSeq(pending, 1, n), result |-> "none"]
  /\ UNCHANGED <<stored, up, resVars, claimed, token, qVars, op, guard, waits, history>>

\* What a Store append (external) can answer: a strict compare-and-append that
\* succeeds, commits without acknowledging, or fails before writing.
StoreAnswer(call, answer) ==
  \/ /\ CasHolds(call.expected)
     /\ stored' = stored \o call.facts
     /\ \/ answer = "ok" /\ UNCHANGED faults
        \/ answer = "io" /\ faults < MaxFaults /\ faults' = faults + 1
  \/ /\ ~CasHolds(call.expected)
     /\ answer = "conflict"
     /\ UNCHANGED <<stored, faults>>
  \/ /\ answer \in {"io", "busy"}
     /\ faults < MaxFaults /\ faults' = faults + 1
     /\ UNCHANGED stored

Answers == {"ok", "io", "busy", "conflict"}

FlushStore ==
  /\ up /\ flight.phase = "sent"
  /\ \E a \in Answers :
       /\ StoreAnswer(flight, a)
       /\ flight' = [flight EXCEPT !.phase = "done", !.result = a]
  /\ UNCHANGED <<up, resVars, claimed, token, qVars, op, guard, waits, acked, crashes>>

\* apply_committed_flush and the success arm of complete_flush
FlushSucceeds ==
  LET durable == flight.expected + Len(flight.facts)
      pruned  == {t \in Turns : control[t].live /\ control[t].terminalSeq \in 1..durable}
      next    == OldestClaimable(order', control', durable)
  IN /\ up /\ flight.phase = "done" /\ flight.result = "ok"
     /\ durableSeq' = durable
     /\ pending' = SubSeq(pending, durable - durableSeq + 1, Len(pending))
     /\ token' = token \cup {pending[i].turn : i \in
                   {j \in DOMAIN pending : /\ pending[j].seq <= durable
                                           /\ pending[j].body = "CancelRequested"
                                           /\ control[pending[j].turn].live}}
     /\ control' = [t \in Turns |-> IF t \in pruned THEN NoControl ELSE control[t]]
     /\ order' = Only(order, Turns \ pruned)
     /\ claimed' = claimed \ pruned
     /\ retryFailures' = 0
     /\ queue' = Only(EnqueueIn(queue, queued, next), Turns \ pruned)
     /\ queued' = QueuedWith(queued, next) \ pruned
     /\ resident' = (guard \/ op.kind = "accept" \/ order' # <<>> \/ pending' # <<>>)
     /\ flight' = NoFlight
     /\ UNCHANGED <<stored, up, permanentError, op, guard, waits, history>>

\* The failure arms of complete_flush: contention is retried without being
\* counted, I/O failures are counted, every other error is permanent.
FlushFails ==
  /\ up /\ flight.phase = "done" /\ flight.result # "ok"
  /\ retryFailures' = IF flight.result = "io" THEN retryFailures + 1 ELSE retryFailures
  /\ permanentError' = \/ permanentError
                       \/ flight.result = "conflict"
                       \/ flight.result = "io" /\ retryFailures + 1 >= MaxFlushFailures
  /\ flight' = NoFlight
  /\ UNCHANGED <<stored, up, resident, durableSeq, pending, control, order, claimed, token,
                 qVars, op, guard, waits, history>>

-----------------------------------------------------------------------------
(* Commits under submission admission: the start of an activation-owned    *)
(* Turn, the claim of next-Step messages and the Turn's end.               *)

\* finish_direct_claim / claim_pending_step_messages: take admission and capture
\* the live tail
OpBegin(kind, t, proposed) ==
  /\ up /\ op = NoOp /\ resident
  /\ t \in claimed /\ control[t].live /\ control[t].terminalSeq = 0
  /\ LiveSeq < MaxLog
  /\ op' = [NoOp EXCEPT !.kind = kind, !.turn = t, !.phase = "flush",
                        !.expected = LiveSeq, !.proposed = proposed]
  /\ UNCHANGED <<stored, up, resVars, claimed, token, qVars, flight, guard, waits, history>>

FinishBegin(t, proposed) == OpBegin("finish", t, proposed)
StepBegin(t) == /\ t \in ActivationTurns
                /\ ~control[t].cancelRequested
                /\ OpBegin("step", t, "none")

\* claim_message_with_lane: take admission and a reservation of the loaded Session
AcceptBegin(t) ==
  /\ up /\ op = NoOp /\ resident /\ t \in ActivationTurns
  /\ LiveSeq < MaxLog
  /\ op' = [NoOp EXCEPT !.kind = "accept", !.turn = t, !.phase = "flush",
                        !.expected = LiveSeq]
  /\ UNCHANGED <<stored, up, resVars, claimed, token, qVars, flight, guard, waits, history>>

\* claim_message_with_lane: its message is unclaimed and no Turn is active
MessageMayStart == order = <<>> /\ ~Has(stored, op.turn, "Accepted")

\* The tail is durable: stage the ending, the next Step's inputs or the new Turn at
\* that base.  One Fact stands for MessageTurnAccepted and the first Step with its
\* inputs.
OpSend ==
  /\ up /\ op.phase = "flush" /\ durableSeq >= op.expected
  /\ op.kind = "finish" => ~permanentError
  /\ op.kind = "accept" => MessageMayStart
  /\ LET body == IF op.kind = "accept" THEN "Accepted"
                 ELSE IF op.kind = "finish"
                 THEN CanonicalOutcome(op.proposed, control[op.turn].cancelRequested)
                 ELSE "StepClaimed"
     IN op' = [op EXCEPT !.phase = "sent", !.facts = <<Fact(op.expected + 1, op.turn, body)>>]
  /\ UNCHANGED <<stored, up, resVars, claimed, token, qVars, flight, guard, waits, history>>

\* The flush fails or times out, the caller goes away before the commit, or the
\* message may not start a Turn now.
OpAbandon ==
  /\ up /\ op.phase = "flush"
  /\ op' = NoOp
  /\ resident' = IF op.kind = "accept" THEN ResidentAfterDrop ELSE resident
  /\ UNCHANGED <<stored, up, durableSeq, pending, control, order, retryFailures,
                 permanentError, claimed, token, qVars, flight, guard, waits, history>>

\* A message this very claim has taken before: the receipt comes from the Store.
AcceptKnown ==
  /\ up /\ op.kind = "accept" /\ op.phase = "flush" /\ durableSeq >= op.expected
  /\ \E i \in DOMAIN stored :
       /\ stored[i].turn = op.turn /\ stored[i].body = "Accepted"
       /\ acked' = acked \cup {stored[i]}
  /\ op' = NoOp
  /\ resident' = ResidentAfterDrop
  /\ UNCHANGED <<stored, up, durableSeq, pending, control, order, retryFailures,
                 permanentError, claimed, token, qVars, flight, guard, waits, faults, crashes>>

OpStore ==
  /\ up /\ op.phase = "sent"
  /\ \E a \in Answers :
       /\ StoreAnswer(op, a)
       /\ op' = [op EXCEPT !.phase = "done", !.result = a]
  /\ UNCHANGED <<up, resVars, claimed, token, qVars, flight, guard, waits, acked, crashes>>

\* reconcile_failed_ending: which Store contents prove that the ending is durable
EndingIsProved == op.facts[1] \in {stored[i] : i \in DOMAIN stored}

\* install_committed_terminal
FinishInstall ==
  LET t    == op.turn
      last == op.expected + 1
      next == OldestClaimable(order', control', last)
      qs   == queued \ {t}
  IN /\ up /\ op.kind = "finish" /\ op.phase = "done"
     /\ op.result = "ok" \/ (op.result \in {"io", "conflict"} /\ EndingIsProved)
     /\ durableSeq = op.expected /\ pending = <<>>
     /\ durableSeq' = last
     /\ control' = [control EXCEPT ![t] = NoControl]
     /\ order' = Only(order, Turns \ {t})
     /\ claimed' = claimed \ {t}
     /\ queue' = EnqueueIn(queue, qs, next)
     /\ queued' = QueuedWith(qs, next)
     /\ resident' = (guard \/ order' # <<>> \/ flight # NoFlight)
     /\ acked' = acked \cup {op.facts[1]}
     /\ op' = NoOp
     /\ UNCHANGED <<stored, up, pending, token, retryFailures, permanentError, flight,
                    guard, waits, faults, crashes>>

\* A failed ending leaves the claim as it was when the Store shows no terminal
\* (or was too busy to be asked).
FinishFails ==
  /\ up /\ op.kind = "finish" /\ op.phase = "done"
  /\ op.result = "busy" \/ (op.result \in {"io", "conflict"} /\ ~Ended(stored, op.turn))
  /\ op' = NoOp
  /\ UNCHANGED <<stored, up, resVars, claimed, token, qVars, flight, guard, waits, history>>

\* The boundary cannot be read, or names another terminal: fail_session
FinishIndeterminate ==
  /\ up /\ op.kind = "finish" /\ op.phase = "done"
  /\ op.result \in {"io", "conflict"}
  /\ \/ Ended(stored, op.turn) /\ ~EndingIsProved /\ UNCHANGED faults
     \/ faults < MaxFaults /\ faults' = faults + 1
  /\ permanentError' = TRUE
  /\ op' = NoOp
  /\ UNCHANGED <<stored, up, resident, durableSeq, pending, control, order, claimed, token,
                 retryFailures, qVars, flight, guard, waits, acked, crashes>>

\* claim_pending_step_messages installs only an acknowledged commit
StepInstall ==
  /\ up /\ op.kind = "step" /\ op.phase = "done" /\ op.result = "ok"
  /\ durableSeq = op.expected /\ pending = <<>>
  /\ durableSeq' = op.expected + 1
  /\ op' = NoOp
  /\ UNCHANGED <<stored, up, resident, pending, control, order, claimed, token,
                 retryFailures, permanentError, qVars, flight, guard, waits, history>>

\* ... and leaves resident state behind the Store on any error.  Its claim check
\* after the commit also fails when the executor withdrew meanwhile.
StepFails ==
  /\ up /\ op.kind = "step" /\ op.phase = "done"
  /\ \/ op.result # "ok" /\ UNCHANGED <<claimed, qVars>>
     \/ /\ claimed' = claimed \ {op.turn}
        /\ queue' = EnqueueIn(queue, queued, op.turn)
        /\ queued' = QueuedWith(queued, op.turn)
  /\ op' = NoOp
  /\ UNCHANGED <<stored, up, resVars, token, flight, guard, waits, history>>

\* The commit task of claim_message_with_lane installs and enqueues the Turn.
AcceptInstall ==
  /\ up /\ op.kind = "accept" /\ op.phase = "done" /\ op.result = "ok"
  /\ durableSeq = op.expected /\ pending = <<>>
  /\ durableSeq' = op.expected + 1
  /\ control' = [control EXCEPT ![op.turn] = AcceptedControl]
  /\ order' = Append(order, op.turn)
  /\ queue' = EnqueueIn(queue, queued, op.turn)
  /\ queued' = QueuedWith(queued, op.turn)
  /\ acked' = acked \cup {op.facts[1]}
  /\ op' = NoOp
  /\ UNCHANGED <<stored, up, resident, pending, claimed, token, retryFailures,
                 permanentError, flight, guard, waits, faults, crashes>>

\* On any error it gives admission back first and its reservation a moment later;
\* the Store may have the Turn, which the resident Session does not know.
AcceptFails ==
  /\ up /\ op.kind = "accept" /\ op.phase = "done" /\ op.result # "ok"
  /\ op' = NoOp
  /\ guard' = TRUE
  /\ UNCHANGED <<stored, up, resVars, claimed, token, qVars, flight, waits, history>>

GuardDrop ==
  /\ up /\ guard
  /\ guard' = FALSE
  /\ resident' = (op.kind = "accept" \/ ~Idle)
  /\ UNCHANGED <<stored, up, durableSeq, pending, control, order, retryFailures,
                 permanentError, claimed, token, qVars, flight, op, waits, history>>

-----------------------------------------------------------------------------
(* Crash and recovery.                                                     *)

\* Everything but the Store is lost, a call that is in flight included.
Crash ==
  /\ crashes < MaxCrashes /\ crashes' = crashes + 1
  /\ up' = FALSE
  /\ resident' = FALSE /\ durableSeq' = 0 /\ pending' = <<>>
  /\ control' = [t \in Turns |-> NoControl] /\ order' = <<>>
  /\ retryFailures' = 0 /\ permanentError' = FALSE
  /\ claimed' = {} /\ token' = {} /\ queue' = <<>> /\ queued' = {}
  /\ flight' = NoFlight /\ op' = NoOp /\ guard' = FALSE /\ waits' = {}
  /\ UNCHANGED <<stored, acked, faults>>

AcceptedAt(log, t) == CHOOSE i \in DOMAIN log : log[i].turn = t /\ log[i].body = "Accepted"

\* faulty: recovery forgets the durable cancellation
AlwaysInterrupted(t) == "Interrupted"

RecoveredOutcome(t) == IF Has(stored, t, "CancelRequested") THEN "Cancelled" ELSE "Interrupted"

\* repair_unfinished_session, one open Turn per commit in acceptance order.  A
\* receipt reader may still supply the result of a started effect.
RepairTurn ==
  /\ ~up
  /\ \E t \in OpenTurns(stored), settle \in BOOLEAN :
       /\ \A u \in OpenTurns(stored) : AcceptedAt(stored, t) <= AcceptedAt(stored, u)
       /\ settle => Has(stored, t, "Started") /\ ~Has(stored, t, "Settled")
       /\ LET n == Len(stored)
              settled == IF settle THEN <<Fact(n + 1, t, "Settled")>> ELSE <<>>
          IN stored' = stored \o settled
                         \o <<Fact(n + Len(settled) + 1, t, RecoveredOutcome(t))>>
  /\ UNCHANGED <<up, resVars, claimed, token, qVars, flight, op, guard, waits, history>>

\* recover starts the Kernel once no selected Session has an open Turn
Boot ==
  /\ ~up /\ OpenTurns(stored) = {}
  /\ up' = TRUE
  /\ UNCHANGED <<stored, resVars, claimed, token, qVars, flight, op, guard, waits, history>>

-----------------------------------------------------------------------------
Init ==
  /\ stored = <<>> /\ up = TRUE
  /\ resident = FALSE /\ durableSeq = 0 /\ pending = <<>>
  /\ control = [t \in Turns |-> NoControl] /\ order = <<>>
  /\ claimed = {} /\ token = {} /\ retryFailures = 0 /\ permanentError = FALSE
  /\ queue = <<>> /\ queued = {}
  /\ flight = NoFlight /\ op = NoOp /\ guard = FALSE /\ waits = {}
  /\ acked = {} /\ faults = 0 /\ crashes = 0

Next ==
  \/ Load
  \/ \E t \in Turns : Submit(t) \/ Cancel(t) \/ Release(t) \/ StepBegin(t) \/ AcceptBegin(t)
  \/ \E t \in Turns, b \in EffectBodies : Publish(t, b)
  \/ \E t \in Turns, o \in Proposals : PublishTerminal(t, o) \/ FinishBegin(t, o)
  \/ \E f \in waits : WaitReturns(f) \/ WaitFails(f)
  \/ Claim \/ ClaimQuarantines
  \/ PrepareFlush \/ FlushStore \/ FlushSucceeds \/ FlushFails
  \/ OpSend \/ OpAbandon \/ OpStore
  \/ AcceptKnown \/ AcceptInstall \/ AcceptFails \/ GuardDrop
  \/ FinishInstall \/ FinishFails \/ FinishIndeterminate \/ StepInstall \/ StepFails
  \/ Crash \/ RepairTurn \/ Boot

Spec == Init /\ [][Next]_vars

\* The worker runs until it has drained every Session that still can be flushed,
\* Store calls return, and a commit task runs to its end once it is started.
Fairness ==
  /\ WF_vars(PrepareFlush) /\ WF_vars(FlushStore) /\ WF_vars(FlushSucceeds) /\ WF_vars(FlushFails)
  /\ WF_vars(OpSend) /\ WF_vars(OpStore) /\ WF_vars(permanentError /\ OpAbandon)
  /\ WF_vars(AcceptKnown) /\ WF_vars(AcceptInstall \/ AcceptFails) /\ WF_vars(GuardDrop)
  /\ WF_vars(op.kind = "accept" /\ durableSeq >= op.expected /\ order # <<>> /\ OpAbandon)
  /\ WF_vars(FinishInstall \/ FinishFails \/ FinishIndeterminate)
  /\ WF_vars(StepInstall \/ StepFails)
  /\ WF_vars(RepairTurn) /\ WF_vars(Boot)

FairSpec == Spec /\ Fairness

-----------------------------------------------------------------------------
(* Properties.                                                             *)

Controls == [live : BOOLEAN, effect : {"none", "intent", "started", "settled"},
             cancelRequested : BOOLEAN, terminalSeq : Nat]
Flights  == [phase : {"none", "sent", "done"}, expected : Nat, facts : Seq(Facts),
             result : Answers \cup {"none"}]
Commits  == [kind : {"none", "finish", "step", "accept"}, turn : Turns \cup {NoTurn},
             phase : {"none", "flush", "sent", "done"}, expected : Nat,
             proposed : Proposals \cup {"none"}, facts : Seq(Facts),
             result : Answers \cup {"none"}]

\* Every variable of the pipeline keeps its type.
TypeOK ==
  /\ stored \in Seq(Facts) /\ pending \in Seq(Facts)
  /\ up \in BOOLEAN /\ resident \in BOOLEAN /\ permanentError \in BOOLEAN
  /\ durableSeq \in Nat /\ retryFailures \in Nat /\ faults \in Nat /\ crashes \in Nat
  /\ control \in [Turns -> Controls]
  /\ order \in Seq(Turns) /\ queue \in Seq(Turns) /\ queued \subseteq Turns
  /\ claimed \subseteq Turns /\ token \subseteq Turns
  /\ flight \in Flights /\ op \in Commits /\ guard \in BOOLEAN
  /\ waits \subseteq Facts /\ acked \subseteq Facts

\* A receipt is never wrong: a Fact whose durability was reported to a submitter,
\* a canceller or a finishing executor stays in the Store at its own sequence
\* number, through lost acknowledgements, crashes and a resident state that fell
\* behind the Store.
AckedIsStored ==
  \A f \in acked : f.seq <= Len(stored) /\ stored[f.seq] = f

\* The stored history of each Turn is a Turn: acceptance first and once, at most
\* one cancellation request, and nothing after its only terminal.
StoredTurnsAreTurns ==
  \A i, j \in DOMAIN stored : (i < j /\ stored[i].turn = stored[j].turn) =>
    /\ ~IsTerminal(stored[i])
    /\ stored[j].body # "Accepted"
    /\ stored[i].body = "CancelRequested" => stored[j].body # "CancelRequested"

\* A Turn ends as Cancelled exactly when a cancellation request precedes its
\* terminal in the Store, whoever wrote the terminal: executor, Kernel or recovery.
CancelledIffRequested ==
  \A i \in DOMAIN stored : IsTerminal(stored[i]) =>
    (stored[i].body = "Cancelled" <=>
       \E j \in 1..(i - 1) : stored[j].turn = stored[i].turn
                             /\ stored[j].body = "CancelRequested")

\* Turns execute in acceptance order: no executor Fact of a Turn is stored before
\* the terminal of every Turn accepted earlier.
TurnsRunInOrder ==
  \A i \in DOMAIN stored : stored[i].body \in EffectBodies \cup {"StepClaimed"} =>
    \A j \in 1..(i - 1) :
      (/\ stored[j].body = "Accepted" /\ stored[j].turn # stored[i].turn
       /\ \E a \in DOMAIN stored : a > j /\ stored[a].turn = stored[i].turn
                                   /\ stored[a].body = "Accepted")
      => \E k \in 1..(i - 1) : stored[k].turn = stored[j].turn /\ IsTerminal(stored[k])

\* An effect that has been started, durably or only speculatively, has its intent
\* in the Store, so that recovery can never miss an effect that may have run.
StartedHasDurableIntent ==
  \A t \in Turns :
    (Has(pending, t, "Started") \/ Has(stored, t, "Started")) => Has(stored, t, "Intent")

\* Executors are told to stop only for a cancellation that survives a crash.
TokenIsDurable ==
  \A t \in token : Has(stored, t, "CancelRequested")

\* No wakeup is lost: the Turn that may run next, if nobody holds it, is in the
\* claim queue, whichever of acceptance, flush, finish, release, a dropped queue
\* entry, or the reload of a Session that a lost answer had evicted came last.
ClaimableIsQueued ==
  LET t == OldestClaimable(order, control, durableSeq)
  IN (up /\ t # NoTurn /\ Claimable(t)) => \E i \in DOMAIN queue : queue[i] = t

\* The Store is never rewritten: a step only adds Facts after the stored ones,
\* numbered with their positions.
AppendOnly ==
  [][ /\ Len(stored') >= Len(stored)
      /\ \A i \in DOMAIN stored' :
           IF i <= Len(stored) THEN stored'[i] = stored[i] ELSE stored'[i].seq = i ]_stored

\* A resident suffix drains, is declared permanently failed, or dies with the
\* process: the worker never stalls behind a commit that waits for it.
SuffixDrains ==
  pending # <<>> ~> (pending = <<>> \/ permanentError \/ ~up)

\* A commit that holds submission admission gives it back.
AdmissionIsReleased ==
  (op # NoOp) ~> (op = NoOp)

\* The Turns of a log: accepted in this order, cancelled, and ended in this order
Of(log, bodies)    == {i \in DOMAIN log : log[i].body \in bodies}
Acceptances(log)   == TurnsAt(log, Of(log, {"Accepted"}))
Cancellations(log) == {log[i].turn : i \in Of(log, {"CancelRequested"})}
Endings(log)       == LET q == Kept(log, Of(log, Outcomes))
                      IN  [n \in DOMAIN q |-> [turn |-> q[n].turn, outcome |-> q[n].body]]

\* The Store, read as a ledger of Turns, is a TurnLedger: write-behind batches,
\* terminal commits and recovery repairs are all single ledger commits.
Ledger == INSTANCE TurnLedger WITH accepted  <- Acceptances(stored),
                                   cancelled <- Cancellations(stored),
                                   ended     <- Endings(stored)
ImplementsLedger == Ledger!Spec
=============================================================================
