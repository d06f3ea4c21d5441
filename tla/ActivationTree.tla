--------------------------- MODULE ActivationTree ---------------------------
(***************************************************************************)
(* The activations of one Agent tree: messages accepted into Session       *)
(* mailboxes, the ready scheduler that turns a waking message into an      *)
(* activation with one open Turn, waits that give the tree lane back, the  *)
(* two-transaction ending of a Turn, and the settlement of activations     *)
(* that wait for their descendants.                                        *)
(*                                                                         *)
(* Every operation that writes the controls of a Session holds that        *)
(* Session's submission admission from its first read to its commit, so it *)
(* is one action here.  Two do not fit that rule and are split: the ready  *)
(* scheduler and the settlement worker read Sessions they have not         *)
(* admitted and act on the result later, and an ending that finds a busy   *)
(* descendant commits a second time while it still holds its admissions.   *)
(***************************************************************************)
EXTENDS Queues

CONSTANTS
    Sessions,       \* Session identities of one tree
    NoSession,      \* the parent of the root
    Parent,         \* fork lineage, Sessions -> Sessions \cup {NoSession}
    Existing,       \* Sessions that are durable (and idle) at the start
    HumanTargets,   \* Sessions a person submits to
    MaxPending,     \* MAXIMUM_PENDING_AGENT_MESSAGES
    MaxRunning,     \* MAXIMUM_RUNNING_AGENT_TREE_NODES
    Budget,         \* bound: submissions, spawns and waits in a behaviour
    Stops,          \* whether people stop Sessions and clear inboxes
    Crashes         \* whether the process may crash

ASSUME TreeAssumption ==
    /\ NoSession \notin Sessions
    /\ Parent \in [Sessions -> Sessions \cup {NoSession}]
    /\ Existing \subseteq Sessions /\ IsFiniteSet(Existing)
    /\ \A s \in Existing : Parent[s] \in Existing \cup {NoSession}
    /\ HumanTargets \subseteq Sessions
    /\ {MaxPending, MaxRunning, Budget} \subseteq Nat
    /\ Stops \in BOOLEAN /\ Crashes \in BOOLEAN

VARIABLES
    born,      \* durable: Sessions with a Header
    act,       \* durable: the active activation of each Session
    paused,    \* durable: inbox suspension
    mail,      \* durable: pending messages of the tree, in ready order
    lane,      \* tree lane permits, held by Sessions with a running Turn
    fin,       \* endings of Turns in progress
    cand,      \* the message the ready scheduler is preparing, or NoCand
    wake,      \* settlement_requested holds a permit
    round,     \* waiting activations the settlement worker has listed
    settler,   \* the settlement in progress, or NoSettler
    mode,      \* "up", or the phase of startup recovery
    left       \* what is left of Budget

vars == <<born, act, paused, mail, lane, fin, cand, wake, round, settler,
          mode, left>>
volatile == <<lane, fin, cand, wake, round, settler>>

NoCand == [id |-> <<NoSession, 0>>, to |-> NoSession]
NoSettler == [session |-> NoSession, no |-> 0]
NoFin == [pc |-> "none", outcome |-> "none", todo |-> {}]
Outcomes == {"completed", "failed", "cancelled"}
Phases == {"none", "running", "parked", "waiting"}

-----------------------------------------------------------------------------
(* Lineage and the Store's indexed activity predicates.                     *)

HasParent(s) == Parent[s] # NoSession

(* The parents of s and of S are in S.                                       *)
Holds(S, s) == \A x \in S \cup {s} : HasParent(x) => Parent[x] \in S

Ancestors[s \in Sessions] ==
    {a \in Sessions : \A S \in SUBSET Sessions : Holds(S, s) => a \in S}

(* A fork names a Session that existed before it.                            *)
ASSUME LineageAssumption == \A s \in Sessions : s \notin Ancestors[s]

Descendants(s) == {d \in born : s \in Ancestors[d]}

HasOpenTurn(s) == act[s].phase \in {"running", "parked"}
HasActive(s) == act[s].phase # "none"
MailOf(s) == {i \in DOMAIN mail : mail[i].to = s}
Wakes(m) == m.target = "turn" /\ ~paused[m.to]
HasWaking(s) == \E i \in DOMAIN mail : mail[i].to = s /\ Wakes(mail[i])

Quiescent(s) ==
    \A d \in Descendants(s) : ~HasActive(d) /\ ~HasOpenTurn(d) /\ ~HasWaking(d)

Reservations(s) == Cardinality({c \in born : Parent[c] = s /\ HasActive(c)})

\* faulty: new input is counted against the pending messages only
HasRoomIgnoringReservations(s) == Cardinality(MailOf(s)) < MaxPending

HasRoom(s) == Cardinality(MailOf(s)) + Reservations(s) < MaxPending

(* An ending keeps the admissions of its Session and of the parent between  *)
(* its refused settlement and the commit that records the wait.             *)
Admitted(s) ==
    \A f \in Sessions :
        fin[f].pc = "unsettled" => s # f /\ s # Parent[f]

-----------------------------------------------------------------------------
Init ==
    /\ born = Existing
    /\ act = [s \in Sessions |->
                [phase |-> "none", no |-> 0, held |-> 0, outcome |-> "none",
                 cancel |-> FALSE]]
    /\ paused = [s \in Sessions |-> FALSE]
    /\ mail = <<>>
    /\ lane = {}
    /\ fin = [s \in Sessions |-> NoFin]
    /\ cand = NoCand
    /\ wake = FALSE
    /\ round = {}
    /\ settler = NoSettler
    /\ mode = "up"
    /\ left = Budget

-----------------------------------------------------------------------------
(* Message acceptance.                                                      *)

Message(s, src, target, steer) ==
    [id |-> <<NoSession, left>>, to |-> s, src |-> src, target |-> target,
     steer |-> steer]

(* submit_message_admitted: capacity, acceptance and, for anything but a     *)
(* fixed next-Step delivery, the resumption of a paused inbox in one append. *)
Accept(m, waking) ==
    /\ mode = "up" /\ left > 0
    /\ Admitted(m.to)
    /\ HasRoom(m.to)
    /\ mail' = Append(mail, m)
    /\ paused' = [paused EXCEPT ![m.to] = @ /\ ~waking]
    /\ left' = left - 1

SubmitHuman(s, delivery) ==
    LET bound == delivery = "steer" /\ HasOpenTurn(s) /\ ~act[s].cancel IN
    /\ s \in born \/ ~HasParent(s)
    /\ Accept(Message(s, "human", IF bound THEN "step" ELSE "turn", bound), TRUE)
    /\ born' = born \cup {s}
    /\ UNCHANGED <<act, volatile, mode>>

(* A Tool of a running Turn that still holds its lane and whose claim is not *)
(* draining: the source lease keeps the Turn open until the append is done.  *)
Calling(s) ==
    act[s].phase = "running" /\ fin[s].pc = "none" /\ s \in lane

SpawnAgent(p, c) ==
    /\ Calling(p)
    /\ c \notin born /\ Parent[c] = p
    /\ Accept(Message(c, "agent", "turn", FALSE), TRUE)
    /\ born' = born \cup {c}
    /\ UNCHANGED <<act, volatile, mode>>

(* send (next Step) and followup (next Turn) along one parent-child edge.    *)
SendAgentMessage(a, b, target) ==
    /\ Calling(a)
    /\ b \in born
    /\ Parent[b] = a \/ Parent[a] = b
    /\ Accept(Message(b, "agent", target, FALSE), target = "turn")
    /\ UNCHANGED <<born, act, volatile, mode>>

-----------------------------------------------------------------------------
(* Queue edits and cancellation.                                            *)

Without(ids) == Kept(mail, {i \in DOMAIN mail : mail[i].id \notin ids})
IdsOf(s) == {mail[i].id : i \in MailOf(s)}

(* Withdraw, and cancellation of an unclaimed message.                       *)
DiscardMessage(i) ==
    /\ mode = "up"
    /\ Admitted(mail[i].to)
    /\ mail' = Without({mail[i].id})
    /\ UNCHANGED <<born, act, paused, volatile, mode, left>>

(* ConvertToSteer: the successor takes over the predecessor's queue slot and *)
(* is bound to the open, uncancelled Turn.                                   *)
ConvertToSteer(i) ==
    LET s == mail[i].to IN
    /\ mode = "up" /\ left > 0
    /\ Admitted(s)
    /\ mail[i].src = "human"
    /\ HasOpenTurn(s) /\ ~act[s].cancel
    /\ mail' = [mail EXCEPT ![i] = Message(s, "human", "step", TRUE)]
    /\ left' = left - 1
    /\ UNCHANGED <<born, act, paused, volatile, mode>>

(* cancel_inbox: one commit discards the captured messages and, for a stop,  *)
(* pauses the inbox and requests the cancellation of the open Turn.          *)
CancelInbox(s, stop, keep) ==
    LET cut == stop /\ HasOpenTurn(s) /\ ~act[s].cancel
        discarded == IF keep THEN {} ELSE IdsOf(s) IN
    /\ mode = "up" /\ Stops /\ (keep => stop)
    /\ s \in born /\ Admitted(s)
    /\ (stop /\ ~paused[s]) \/ discarded # {} \/ cut
    /\ paused' = [paused EXCEPT ![s] = @ \/ stop]
    /\ mail' = Without(discarded)
    /\ act' = [act EXCEPT ![s].cancel = @ \/ cut]
    /\ UNCHANGED <<born, volatile, mode, left>>

(* cancel of one Turn, by a person or by an ancestor's interrupt_agent.      *)
CancelTurn(s) ==
    /\ mode = "up" /\ Admitted(s)
    /\ HasOpenTurn(s) /\ ~act[s].cancel
    /\ act' = [act EXCEPT ![s].cancel = TRUE]
    /\ UNCHANGED <<born, paused, mail, volatile, mode, left>>

-----------------------------------------------------------------------------
(* The ready scheduler.                                                     *)

(* activate_ready_root reads which Sessions are idle, then takes the first   *)
(* listed message whose Session is, and reserves a tree lane for it.         *)
ClaimableAt(i) == Wakes(mail[i]) /\ ~HasActive(mail[i].to)

ReadyScan ==
    /\ mode = "up" /\ cand = NoCand
    /\ Cardinality(lane) < MaxRunning
    /\ \E i \in DOMAIN mail :
        /\ ClaimableAt(i)
        /\ \A j \in 1..(i - 1) : ~ClaimableAt(j)
        /\ cand' = [id |-> mail[i].id, to |-> mail[i].to]
    /\ UNCHANGED <<born, act, paused, mail, lane, fin, wake, round, settler,
                   mode, left>>

(* The checks claim_message_with_lane makes under both admissions.           *)
ParentAllows(s, src) ==
    HasParent(s) =>
        /\ HasActive(Parent[s]) \/ src = "human"
        /\ HasRoom(Parent[s])

\* faulty: a suspended inbox is honoured by the ready scan only
ClaimAllowedWhilePaused(m) ==
    /\ m.target = "turn"
    /\ ~HasActive(m.to)
    /\ ParentAllows(m.to, m.src)

ClaimAllowed(m) ==
    /\ m.target = "turn" /\ ~paused[m.to]
    /\ ~HasActive(m.to)
    /\ ParentAllows(m.to, m.src)

(* Starts the activation with its Turn and reserves the completion, or gives *)
(* the lane back: the message is gone, stale, or refused.                    *)
ClaimMessage ==
    LET s == cand.to
        chosen == {i \in DOMAIN mail : mail[i].id = cand.id
                                         /\ ClaimAllowed(mail[i])} IN
    /\ mode = "up" /\ cand # NoCand
    /\ Admitted(s)
    /\ HasParent(s) => Admitted(Parent[s])
    /\ cand' = NoCand
    /\ IF chosen = {} THEN UNCHANGED <<act, mail, lane>>
       ELSE /\ act' = [act EXCEPT ![s] =
                  [phase |-> "running", no |-> @.no + 1,
                   held |-> IF HasParent(s) /\ HasActive(Parent[s])
                            THEN act[Parent[s]].no ELSE 0,
                   outcome |-> "none", cancel |-> FALSE]]
            /\ mail' = Without({cand.id})
            /\ lane' = lane \cup {s}
    /\ UNCHANGED <<born, paused, fin, wake, round, settler, mode, left>>

-----------------------------------------------------------------------------
(* A running Turn.                                                          *)

(* claim_pending_step_messages at a safe boundary.                           *)
StepBoundary(s) ==
    /\ mode = "up" /\ Admitted(s)
    /\ Calling(s) /\ ~act[s].cancel
    /\ \E i \in DOMAIN mail : mail[i].to = s /\ mail[i].target = "step"
    /\ mail' = Kept(mail, {i \in DOMAIN mail :
                              ~(mail[i].to = s /\ mail[i].target = "step")})
    /\ UNCHANGED <<born, act, paused, volatile, mode, left>>

\* faulty: a parked wait keeps its tree lane
ParkKeepsLane(s) ==
    /\ mode = "up" /\ Admitted(s) /\ left > 0
    /\ Calling(s) /\ ~act[s].cancel
    /\ act' = [act EXCEPT ![s].phase = "parked"]
    /\ left' = left - 1
    /\ UNCHANGED <<born, paused, mail, volatile, mode>>

(* park_wait: the durable park, then the release of the tree lane.           *)
Park(s) ==
    /\ mode = "up" /\ Admitted(s) /\ left > 0
    /\ Calling(s) /\ ~act[s].cancel
    /\ act' = [act EXCEPT ![s].phase = "parked"]
    /\ lane' = lane \ {s}
    /\ left' = left - 1
    /\ UNCHANGED <<born, paused, mail, fin, cand, wake, round, settler, mode>>

FreeLane ==
    Cardinality(lane) + (IF cand = NoCand THEN 0 ELSE 1) < MaxRunning

(* Parked::resume: an answer, a change or a timeout takes a lane again; an   *)
(* interrupted wait resumes without one and its Turn can only end.           *)
Resume(s, interrupted) ==
    /\ mode = "up" /\ Admitted(s)
    /\ act[s].phase = "parked"
    /\ act[s].cancel => interrupted
    /\ interrupted \/ FreeLane
    /\ act' = [act EXCEPT ![s].phase = "running"]
    /\ lane' = IF interrupted THEN lane ELSE lane \cup {s}
    /\ UNCHANGED <<born, paused, mail, fin, cand, wake, round, settler, mode,
                   left>>

-----------------------------------------------------------------------------
(* Ending a Turn (finish_activation_claim).                                 *)

(* The claim is drained.  A Turn that does not complete cancels the open     *)
(* Turns of the descendants it sees now, one after the other.                *)
FinishBegin(s, o) ==
    /\ mode = "up"
    /\ act[s].phase = "running" /\ fin[s].pc = "none"
    /\ fin' = [fin EXCEPT ![s] =
                 [pc |-> "ending", outcome |-> o,
                  todo |-> IF o = "completed" THEN {} ELSE Descendants(s)]]
    /\ UNCHANGED <<born, act, paused, mail, lane, cand, wake, round, settler,
                   mode, left>>

CancelDescendant(s, d) ==
    /\ d \in fin[s].todo /\ Admitted(d)
    /\ fin' = [fin EXCEPT ![s].todo = @ \ {d}]
    /\ act' = [act EXCEPT ![d].cancel = @ \/ HasOpenTurn(d)]
    /\ UNCHANGED <<born, paused, mail, lane, cand, wake, round, settler, mode,
                   left>>

(* canonicalize_terminal: a durable cancellation wins.                       *)
Terminal(s) == IF act[s].cancel THEN "cancelled" ELSE fin[s].outcome

(* activation_terminal_controls: bound steers keep their queue slot and      *)
(* completion notices join the tail; other next-Step messages stay held.     *)
IsNotice(m, s) == m.to = s /\ m.target = "step" /\ m.src = "completion"
IsSteer(m, s) == m.to = s /\ m.target = "step" /\ m.steer
WakeUp(m) == [m EXCEPT !.target = "turn"]

Reordered(s, queue) ==
    LET notices == {i \in DOMAIN queue : IsNotice(mail[i], s)} IN
    Kept(queue, DOMAIN queue \ notices) \o Kept(queue, notices)

\* faulty: steers that no Step took stay bound to the ended Turn
PromotedNoticesOnly(s) ==
    Reordered(s, [i \in DOMAIN mail |->
        IF IsNotice(mail[i], s) THEN WakeUp(mail[i]) ELSE mail[i]])

Promoted(s) ==
    Reordered(s, [i \in DOMAIN mail |->
        IF IsNotice(mail[i], s) \/ IsSteer(mail[i], s)
        THEN WakeUp(mail[i]) ELSE mail[i]])

(* completion_append: the notice for the parent.  The reservation of the     *)
(* settled activation made room for it.  A cancelled child notifies a        *)
(* stopped Session with a notice that is discarded in the same commit.       *)
Stopped(s, o) == o = "cancelled" /\ (paused[s] \/ paused[Parent[s]])

Notice(s) ==
    [id |-> <<s, act[s].no>>, to |-> Parent[s], src |-> "completion",
     target |-> IF HasOpenTurn(Parent[s]) THEN "step" ELSE "turn",
     steer |-> FALSE]

(* ActivationSettled with its promotions and the parent's notice.            *)
Settle(s, o) ==
    /\ act' = [act EXCEPT ![s] = [phase |-> "none", no |-> @.no, held |-> 0,
                                  outcome |-> "none", cancel |-> FALSE]]
    /\ HasParent(s) => Cardinality(MailOf(Parent[s])) < MaxPending
    /\ IF HasParent(s) /\ ~Stopped(s, o)
       THEN /\ mail' = Append(Promoted(s), Notice(s))
            /\ paused' = [paused EXCEPT ![Parent[s]] =
                            @ /\ HasOpenTurn(Parent[s])]
       ELSE mail' = Promoted(s) /\ UNCHANGED paused

(* The first transaction of an ending.                                       *)
FinishSettle(s) ==
    /\ mode = "up"
    /\ fin[s].pc = "ending" /\ fin[s].todo = {}
    /\ Admitted(s)
    /\ HasParent(s) => Admitted(Parent[s])
    /\ IF Quiescent(s)
       THEN /\ Settle(s, Terminal(s))
            /\ fin' = [fin EXCEPT ![s] = NoFin]
            /\ lane' = lane \ {s}
            /\ wake' = TRUE
       ELSE /\ fin' = [fin EXCEPT ![s].pc = "unsettled",
                                  ![s].outcome = Terminal(s)]
            /\ UNCHANGED <<act, mail, paused, lane, wake>>
    /\ UNCHANGED <<born, cand, round, settler, mode, left>>

\* faulty: the waiting transition leaves next-Step notices where they are
FinishWaitingUnpromoted(s) ==
    /\ fin[s].pc = "unsettled"
    /\ act' = [act EXCEPT ![s].phase = "waiting", ![s].outcome = fin[s].outcome,
                          ![s].cancel = FALSE]
    /\ fin' = [fin EXCEPT ![s] = NoFin]
    /\ lane' = lane \ {s}
    /\ UNCHANGED <<born, paused, mail, cand, wake, round, settler, mode, left>>

(* The second one: the Turn is terminal, its activation waits.               *)
FinishWaiting(s) ==
    /\ fin[s].pc = "unsettled"
    /\ act' = [act EXCEPT ![s].phase = "waiting", ![s].outcome = fin[s].outcome,
                          ![s].cancel = FALSE]
    /\ mail' = Promoted(s)
    /\ fin' = [fin EXCEPT ![s] = NoFin]
    /\ lane' = lane \ {s}
    /\ UNCHANGED <<born, paused, cand, wake, round, settler, mode, left>>

-----------------------------------------------------------------------------
(* The settlement worker (settlement_loop, settle_waiting_ancestors).       *)

Waiting == {s \in Sessions : act[s].phase = "waiting"}

\* faulty: the worker has no fallback timer
RoundBeginOnRequest ==
    /\ mode = "up" /\ round = {} /\ settler = NoSettler /\ wake
    /\ round' = Waiting
    /\ wake' = FALSE
    /\ UNCHANGED <<born, act, paused, mail, lane, fin, cand, settler, mode,
                   left>>

(* Woken by a request, or by the five-second fallback.                       *)
RoundBegin ==
    /\ mode = "up" /\ round = {} /\ settler = NoSettler
    /\ wake \/ Waiting # {}
    /\ round' = Waiting
    /\ wake' = FALSE
    /\ UNCHANGED <<born, act, paused, mail, lane, fin, cand, settler, mode,
                   left>>

(* The reads made before the admissions.                                     *)
SettleRead(s) ==
    /\ s \in round /\ settler = NoSettler
    /\ round' = round \ {s}
    /\ settler' = IF s \in Waiting /\ Quiescent(s)
                  THEN [session |-> s, no |-> act[s].no] ELSE NoSettler
    /\ UNCHANGED <<born, act, paused, mail, lane, fin, cand, wake, mode, left>>

SettleCurrent ==
    LET s == settler.session IN s \in Waiting /\ act[s].no = settler.no

\* faulty: the quiescence observed before the admissions is trusted
SettleCommitOnSnapshot ==
    LET s == settler.session IN
    /\ settler # NoSettler
    /\ Admitted(s)
    /\ HasParent(s) => Admitted(Parent[s])
    /\ settler' = NoSettler
    /\ IF SettleCurrent
       THEN Settle(s, act[s].outcome) /\ UNCHANGED round
       ELSE UNCHANGED <<act, mail, paused, round>>
    /\ UNCHANGED <<born, lane, fin, cand, wake, mode, left>>

(* Under the admissions: the activation must be unchanged, and the commit    *)
(* checks quiescence again in its transaction.  A refusal is left for a      *)
(* later round; a success goes on with the parent.                           *)
SettleCommit ==
    LET s == settler.session IN
    /\ settler # NoSettler
    /\ Admitted(s)
    /\ HasParent(s) => Admitted(Parent[s])
    /\ settler' = NoSettler
    /\ IF SettleCurrent /\ Quiescent(s)
       THEN /\ Settle(s, act[s].outcome)
            /\ round' = IF HasParent(s) THEN round \cup {Parent[s]} ELSE round
       ELSE UNCHANGED <<act, mail, paused, round>>
    /\ UNCHANGED <<born, lane, fin, cand, wake, mode, left>>

-----------------------------------------------------------------------------
(* Crash and startup recovery.                                              *)

Crash ==
    /\ Crashes
    /\ mode' = "repair"
    /\ lane' = {}
    /\ fin' = [s \in Sessions |-> NoFin]
    /\ cand' = NoCand
    /\ wake' = FALSE
    /\ round' = {}
    /\ settler' = NoSettler
    /\ UNCHANGED <<born, act, paused, mail, left>>

(* The repair of an open Turn: a parked wait resumes as cancelled, pending   *)
(* notices are promoted and the activation waits for its descendants.        *)
RecoverSession(s) ==
    /\ mode = "repair" /\ HasOpenTurn(s)
    /\ act' = [act EXCEPT ![s].phase = "waiting", ![s].cancel = FALSE,
                 ![s].outcome = IF act[s].cancel THEN "cancelled" ELSE "failed"]
    /\ mail' = Promoted(s)
    /\ UNCHANGED <<born, paused, volatile, mode, left>>

(* reconcile_waiting_activations makes one pass before anyone is served.     *)
RecoverReconcile ==
    /\ mode = "repair" /\ \A s \in Sessions : ~HasOpenTurn(s)
    /\ mode' = "reconcile"
    /\ round' = Waiting
    /\ UNCHANGED <<born, act, paused, mail, lane, fin, cand, wake, settler, left>>

RecoverServe ==
    /\ mode = "reconcile" /\ round = {} /\ settler = NoSettler
    /\ mode' = "up"
    /\ UNCHANGED <<born, act, paused, mail, volatile, left>>

-----------------------------------------------------------------------------
People ==
    \/ \E s \in HumanTargets, d \in {"turn", "steer"} : SubmitHuman(s, d)
    \/ \E i \in DOMAIN mail : DiscardMessage(i) \/ ConvertToSteer(i)
    \/ \E s \in Sessions : CancelTurn(s)
    \/ \E s \in Sessions, stop, keep \in BOOLEAN : CancelInbox(s, stop, keep)

Tools ==
    \/ \E p, c \in Sessions : SpawnAgent(p, c)
    \/ \E a, b \in Sessions, t \in {"turn", "step"} : SendAgentMessage(a, b, t)
    \/ \E s \in Sessions : StepBoundary(s) \/ Park(s)

Finish(s) ==
    \/ \E o \in Outcomes \ {"cancelled"} : FinishBegin(s, o)
    \/ \E d \in Sessions : CancelDescendant(s, d)
    \/ FinishSettle(s)
    \/ FinishWaiting(s)

Settlement == RoundBegin \/ (\E s \in Sessions : SettleRead(s)) \/ SettleCommit

Recovery ==
    (\E s \in Sessions : RecoverSession(s)) \/ RecoverReconcile \/ RecoverServe

Next ==
    \/ People
    \/ Tools
    \/ ReadyScan \/ ClaimMessage
    \/ \E s \in Sessions, i \in BOOLEAN : Resume(s, i)
    \/ \E s \in Sessions : Finish(s)
    \/ Settlement
    \/ Crash
    \/ Recovery

Spec == Init /\ [][Next]_vars

(* The scheduler, the settlement worker with its fallback timer and startup  *)
(* recovery are tasks of the Kernel.  Executors end every Turn they drive:   *)
(* their waits have deadlines and Steps a budget.  The lane semaphore is     *)
(* first come, first served, so a resuming wait gets its permit.  Nothing    *)
(* can be promised to a process that crashes for ever.                       *)
Fairness ==
    /\ WF_vars(ReadyScan) /\ WF_vars(ClaimMessage)
    /\ \A s \in Sessions : WF_vars(Finish(s))
    /\ \A s \in Sessions : SF_vars(\E i \in BOOLEAN : Resume(s, i))
    /\ WF_vars(Settlement)
    /\ WF_vars(Recovery)
    /\ <>[][~Crash]_vars

FairSpec == Spec /\ Fairness

-----------------------------------------------------------------------------
MessageIds == (Sessions \cup {NoSession}) \X Nat

(* Types, and: lanes are held by running Turns only (a parked wait has given *)
(* its lane back), an ending belongs to a running Turn, and an activation    *)
(* that waits has a terminal Turn whose outcome is known.                    *)
TypeOK ==
    /\ born \subseteq Sessions
    /\ \A s \in Sessions :
        /\ act[s].phase \in Phases
        /\ {act[s].no, act[s].held} \subseteq Nat
        /\ act[s].cancel => HasOpenTurn(s)
        /\ act[s].phase = "waiting" <=> act[s].outcome \in Outcomes
        /\ fin[s].pc \in {"none", "ending", "unsettled"}
        /\ fin[s].pc # "none" => act[s].phase = "running"
        /\ s \notin born => ~HasActive(s)
    /\ paused \in [Sessions -> BOOLEAN]
    /\ \A i \in DOMAIN mail :
        /\ mail[i].id \in MessageIds /\ mail[i].to \in born
        /\ mail[i].src \in {"human", "agent", "completion"}
        /\ mail[i].target \in {"step", "turn"}
    /\ \A s \in lane : act[s].phase = "running"
    /\ Cardinality(lane) <= MaxRunning
    /\ mode \in {"up", "repair", "reconcile"}
    /\ left \in 0..Budget

(* An activation that was admitted under an activation of its parent lives   *)
(* inside it: the parent is not settled before the child, whatever messages, *)
(* spawns, endings, settlements and crashes happen in between.               *)
NestedActivations ==
    \A s \in Sessions :
        HasParent(s) /\ act[s].held # 0 =>
            HasActive(Parent[s]) /\ act[Parent[s]].no = act[s].held

(* A completion notice or a bound steer never stays a next-Step message of a *)
(* Session that has no open Turn to take it: it would be stranded until some *)
(* unrelated message starts a Turn.                                          *)
NoStrandedInput ==
    \A i \in DOMAIN mail :
        /\ mail[i].target = "step"
        /\ mail[i].steer \/ mail[i].src = "completion"
        => HasOpenTurn(mail[i].to)

(* The mailbox of a parent keeps one place for the completion of every       *)
(* active child, so a settlement never finds it full.                        *)
CompletionsHaveRoom ==
    \A s \in Sessions : Cardinality(MailOf(s)) + Reservations(s) <= MaxPending

(* No activation starts in a Session whose inbox is suspended, not even for  *)
(* a message the scheduler had chosen before the stop.                       *)
PausedNeverStarts ==
    [][\A s \in Sessions : act'[s].no > act[s].no => ~paused[s]]_vars

(* Every activation that waits for its descendants is settled in the end.    *)
WaitingSettles ==
    \A s \in Sessions : (act[s].phase = "waiting") ~> (act[s].phase # "waiting")

(* A person's waking input for an existing Session of the tree leaves the    *)
(* queue in the end: a Turn takes it (or somebody discards it).              *)
HumanInputIsTaken ==
    \A n \in 1..Budget :
        (\E i \in DOMAIN mail : mail[i].id = <<NoSession, n>>
                                  /\ mail[i].src = "human")
        ~> (\A i \in DOMAIN mail : mail[i].id # <<NoSession, n>>)
=============================================================================
