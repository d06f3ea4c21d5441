------------------------------ MODULE ClaimGate ------------------------------
(***************************************************************************)
(* The mutation gate of the claim on one Turn in rsi-agent-kernel.         *)
(*                                                                         *)
(* An executor claims a Turn; under that claim run business mutations      *)
(* (each holds a lease on the claim's gate until its Store commit is       *)
(* done), publications of Facts, and attempts to end the Turn.  An attempt *)
(* closes the gate, drains its leases, and commits the terminal in a task  *)
(* of its own; it may be abandoned before that, and then a fresh gate      *)
(* restores admission.  Release and withdrawal of the executor retire the  *)
(* claim, as soon as the last lease is gone.                               *)
(*                                                                         *)
(* Kernel state is one mutex; an action is one critical section (or the    *)
(* consecutive ones of a call that no other step can tell apart).  Gates   *)
(* are allocations: identity is what Arc::ptr_eq compares.  The lease      *)
(* count of a gate is the set of its holders.                              *)
(***************************************************************************)
CONSTANTS
  Registrations,  \* executor registrations, each used once
  Claims,         \* claim identities
  Gates,          \* gate allocations
  Domains,        \* domain mutations: they stage the Turn and install it
  Settlements,    \* the domain mutations that settle a started Tool
  Agents,         \* other mutations: messages, interrupts, Program control
  Finishers,      \* attempts to end the Turn
  Publishers,     \* publications of nonterminal Facts
  None,
  Overlap         \* FALSE: as rsi-agent-executor, a client publishes and finishes
                  \* one after the other; TRUE: any client of TurnExecution

Mutations == Domains \cup Agents
Holders   == Mutations \cup Finishers       \* what may hold a lease
Writers   == Domains \cup Publishers        \* what stages and installs the Turn

ASSUME GateAssumption ==
  /\ Settlements \subseteq Domains
  /\ Domains \cap Agents = {} /\ Mutations \cap Finishers = {}
  /\ Publishers \cap Holders = {}
  /\ None \notin Registrations \cup Claims \cup Gates \cup Holders \cup Publishers
  /\ Overlap \in BOOLEAN

VARIABLES
  reg,          \* registration -> "new", "on", "off"
  freshClaims,  \* claim identities not issued yet
  freshGates,   \* gates not allocated yet
  gates,        \* gate -> its ClaimMutationState
  claim,        \* TurnControl.claim: identity, registration and current gate
  live,         \* the Turn is in SessionRuntime.turns
  terminal,     \* TurnControl.terminal is set and not durable yet
  cancelled,    \* TurnControl.cancellation is cancelled
  queued,       \* the Turn is in KernelState.claim_queue
  failed,       \* SessionRuntime.permanent_flush_error is set
  accepting,    \* KernelState.accepting
  admission,    \* holder of the Session's submission admission
  stored,       \* the Store holds the Turn's terminal
  mut,          \* mutation calls in progress
  fin,          \* ending attempts in progress
  pub           \* publications in progress

kernel == <<reg, freshClaims, live, terminal, cancelled, queued, failed, accepting>>
vars   == <<reg, freshClaims, freshGates, gates, claim, live, terminal, cancelled, queued,
            failed, accepting, admission, stored, mut, fin, pub>>

-----------------------------------------------------------------------------
Sticky     == {"TerminalAdmitted", "Failed"}
Admissions == {"Open", "Closed", "ReopenPending"} \cup Sticky

NewGate == [admission |-> "Open", retiring |-> FALSE, drainer |-> FALSE, active |-> {}]
NoClaim == [id |-> None, reg |-> None, gate |-> None]

IdleMutation == [pc |-> "idle", claim |-> None, staged |-> None, lease |-> None]
IdleFinish   == [pc |-> "idle", claim |-> None, drain |-> None, lease |-> None]
IdlePublish  == [pc |-> "idle", claim |-> None, staged |-> None]

Leased   == {"leased", "task", "committed", "ending"}               \* of a mutation
Draining == {"draining", "drained", "admitted", "staged"}           \* of an attempt
Retained == {"retained", "spawned", "committing", "installing", "failed"}
WithDrain == Draining \cup {"refused", "retained", "spawned"}

GateStates == [admission : Admissions, retiring : BOOLEAN, drainer : BOOLEAN,
               active : SUBSET Holders]
Owners     == [id : Claims, reg : Registrations, gate : Gates]
MutStates  == [pc : {"idle", "staged"} \cup Leased, claim : Claims \cup {None},
               staged : Gates \cup {None}, lease : Gates \cup {None}]
FinStates  == [pc : {"idle", "refused"} \cup Draining \cup Retained,
               claim : Claims \cup {None}, drain : Gates \cup {None},
               lease : Gates \cup {None}]
PubStates  == [pc : {"idle", "staged"}, claim : Claims \cup {None},
               staged : Gates \cup {None}]

\* validate_claim
Valid(c) == /\ live /\ c # None /\ claim.id = c
            /\ reg[claim.reg] = "on"
            /\ ~gates[claim.gate].retiring

\* turn_is_ending
Ending == gates[claim.gate].drainer

Current(g) == live /\ claim.id # None /\ claim.gate = g

\* ClaimMutationGate::retire
Retire(gate) == [gate EXCEPT !.retiring = TRUE,
                             !.admission = IF @ \in Sticky THEN @ ELSE "Closed"]

\* faulty: the owner's registration and gate outlive the claim
RetireClaimPartly ==
  /\ gates' = [gates EXCEPT ![claim.gate] = Retire(@)]
  /\ IF gates[claim.gate].active = {}
     THEN claim' = [claim EXCEPT !.id = None] /\ queued' = (queued \/ ~terminal)
     ELSE UNCHANGED <<claim, queued>>

\* faulty: the claim is cleared although mutations still hold leases
RetireClaimNow ==
  /\ gates' = [gates EXCEPT ![claim.gate] = Retire(@)]
  /\ claim' = NoClaim /\ queued' = (queued \/ ~terminal)

\* retire_claim, and the callers' requeueing of a nonterminal Turn
RetireClaim ==
  LET g == claim.gate
  IN /\ gates' = [gates EXCEPT ![g] = Retire(@)]
     /\ IF gates[g].active = {}
        THEN claim' = NoClaim /\ queued' = (queued \/ ~terminal)
        ELSE UNCHANGED <<claim, queued>>

\* reopen_drained_gate
CanReopen(gate, g) ==
  /\ gate.admission = "ReopenPending" /\ ~gate.retiring /\ ~gate.drainer /\ gate.active = {}
  /\ ~terminal /\ ~cancelled
  /\ Current(g)

Reopen(gate, g) ==
  /\ gates' = [gates EXCEPT ![g] = gate]
  /\ IF CanReopen(gate, g)
     THEN \E h \in freshGates : /\ freshGates' = freshGates \ {h}
                                /\ claim' = [claim EXCEPT !.gate = h]
     ELSE UNCHANGED <<freshGates, claim>>
  /\ UNCHANGED queued

Enter(gate, x) == [gate EXCEPT !.active = @ \cup {x}]
Leave(gate, x) == [gate EXCEPT !.active = @ \ {x}]

\* faulty: the last lease of a retiring claim clears it without requeueing the Turn
DropLeaseForgetsQueue(x, g) ==
  LET gate == Leave(gates[g], x)
  IN IF gate.active = {} /\ gate.retiring
     THEN /\ gates' = [gates EXCEPT ![g] = gate]
          /\ claim' = IF Current(g) THEN NoClaim ELSE claim
          /\ UNCHANGED <<queued, freshGates>>
     ELSE Reopen(gate, g)

\* faulty: only the drainer's drop reopens, the last lease does not
DropLeaseNeverReopens(x, g) ==
  LET gate == Leave(gates[g], x)
      ends == gate.active = {} /\ gate.retiring /\ Current(g)
  IN /\ gates' = [gates EXCEPT ![g] = gate]
     /\ claim' = IF ends THEN NoClaim ELSE claim
     /\ queued' = (queued \/ (ends /\ ~terminal))
     /\ UNCHANGED freshGates

\* faulty: the last lease does not retire the claim
DropLeaseNeverRetires(x, g) == Reopen(Leave(gates[g], x), g)

\* faulty: the count is not decremented
DropLeaseLeaks(x, g) == UNCHANGED <<gates, claim, queued, freshGates>>

\* Drop for AgentMutationLease: the last lease retires or reopens
DropLease(x, g) ==
  LET gate == Leave(gates[g], x)
  IN IF gate.active = {} /\ gate.retiring
     THEN /\ gates' = [gates EXCEPT ![g] = IF Current(g) THEN Retire(gate) ELSE gate]
          /\ IF Current(g) THEN claim' = NoClaim /\ queued' = (queued \/ ~terminal)
                           ELSE UNCHANGED <<claim, queued>>
          /\ UNCHANGED freshGates
     ELSE Reopen(gate, g)

\* Drop for TerminalMutationDrain
Undrained(gate) == [gate EXCEPT !.drainer = FALSE,
                                !.admission = IF @ \in Sticky THEN @ ELSE "ReopenPending"]
DropDrain(g)    == Reopen(Undrained(gates[g]), g)

Fail(gate) == [gate EXCEPT !.admission = "Failed"]

\* faulty: the gate fails, the Session does not
FailSessionQuietly(g) ==
  IF Current(g)
  THEN gates' = [gates EXCEPT ![g] = Fail(@)] /\ UNCHANGED failed
  ELSE UNCHANGED <<gates, failed>>

\* fail_session
FailSession(g) ==
  IF Current(g)
  THEN gates' = [gates EXCEPT ![g] = Fail(@)] /\ failed' = TRUE
  ELSE UNCHANGED <<gates, failed>>

-----------------------------------------------------------------------------
(* Executors and claims.                                                   *)

Register(r) ==
  /\ reg[r] = "new"
  /\ reg' = [reg EXCEPT ![r] = "on"]
  /\ UNCHANGED <<freshClaims, freshGates, gates, claim, live, terminal, cancelled, queued,
                 failed, accepting, admission, stored, mut, fin, pub>>

\* deregister_executor
Deregister(r) ==
  /\ reg[r] = "on"
  /\ reg' = [reg EXCEPT ![r] = "off"]
  /\ IF live /\ claim.reg = r THEN RetireClaim ELSE UNCHANGED <<gates, claim, queued>>
  /\ UNCHANGED <<freshClaims, freshGates, live, terminal, cancelled, failed, accepting,
                 admission, stored, mut, fin, pub>>

Claimable == live /\ ~failed /\ ~terminal /\ claim = NoClaim

Claim(r) ==
  /\ reg[r] = "on" /\ queued
  /\ queued' = FALSE
  /\ \/ /\ Claimable
        /\ \E c \in freshClaims, g \in freshGates :
             /\ claim' = [id |-> c, reg |-> r, gate |-> g]
             /\ freshClaims' = freshClaims \ {c} /\ freshGates' = freshGates \ {g}
     \/ /\ ~Claimable
        /\ UNCHANGED <<claim, freshClaims, freshGates>>
  /\ UNCHANGED <<reg, gates, live, terminal, cancelled, failed, accepting, admission, stored,
                 mut, fin, pub>>

Release ==
  /\ Valid(claim.id)
  /\ RetireClaim
  /\ UNCHANGED <<reg, freshClaims, freshGates, live, terminal, cancelled, failed, accepting,
                 admission, stored, mut, fin, pub>>

\* a durable cancellation request reaches the Turn's token
Cancel ==
  /\ live /\ ~cancelled
  /\ cancelled' = TRUE
  /\ UNCHANGED <<reg, freshClaims, freshGates, gates, claim, live, terminal, queued, failed,
                 accepting, admission, stored, mut, fin, pub>>

\* complete_flush of a published terminal: apply_committed_flush prunes the Turn
FlushTerminal ==
  /\ live /\ terminal /\ ~failed
  /\ stored' = TRUE /\ live' = FALSE /\ claim' = NoClaim /\ queued' = FALSE
  /\ UNCHANGED <<reg, freshClaims, freshGates, gates, terminal, cancelled, failed, accepting,
                 admission, mut, fin, pub>>

\* complete_flush declares the Session permanently failed
FlushFails ==
  /\ live /\ ~failed
  /\ failed' = TRUE
  /\ UNCHANGED <<reg, freshClaims, freshGates, gates, claim, live, terminal, cancelled,
                 queued, accepting, admission, stored, mut, fin, pub>>

Shutdown ==
  /\ accepting
  /\ accepting' = FALSE
  /\ UNCHANGED <<reg, freshClaims, freshGates, gates, claim, live, terminal, cancelled,
                 queued, failed, admission, stored, mut, fin, pub>>

\* shutdown has joined every tracked task
Quiesce ==
  /\ ~accepting /\ live
  /\ \A m \in Mutations : mut[m].pc \notin Leased \ {"leased"}
  /\ \A f \in Finishers : fin[f].pc \notin Retained \ {"retained"}
  /\ live' = FALSE /\ claim' = NoClaim /\ queued' = FALSE /\ cancelled' = TRUE
  /\ reg' = [r \in Registrations |-> IF reg[r] = "on" THEN "off" ELSE reg[r]]
  /\ UNCHANGED <<freshClaims, freshGates, gates, terminal, failed, accepting, admission,
                 stored, mut, fin, pub>>

-----------------------------------------------------------------------------
(* Writers: they copy TurnControl, the claim's gate included, in one       *)
(* critical section and install the copy in a later one.                   *)

\* A sequential client stages only while no ending of its claim is under way.
MayStage ==
  /\ admission = None /\ accepting
  /\ Valid(claim.id) /\ ~failed /\ ~terminal
  /\ Overlap \/ gates[claim.gate].admission = "Open"

\* ... and starts to end the Turn only when none of its calls is staging.
MayDrain ==
  Overlap \/ /\ \A m \in Domains : mut[m].pc # "staged"
             /\ \A p \in Publishers : pub[p].pc # "staged"

\* try_publish_once, first critical section
PublishStage(p) ==
  /\ pub[p].pc = "idle"
  /\ MayStage /\ ~Ending
  /\ pub' = [pub EXCEPT ![p] = [pc |-> "staged", claim |-> claim.id, staged |-> claim.gate]]
  /\ admission' = p
  /\ UNCHANGED <<kernel, freshGates, gates, claim, stored, mut, fin>>

\* try_publish_once, second critical section; without it the publication is refused
PublishEnd(p) ==
  /\ pub[p].pc = "staged"
  /\ \/ /\ Valid(pub[p].claim) /\ ~Ending /\ accepting /\ ~failed
        /\ claim' = [claim EXCEPT !.gate = pub[p].staged]
     \/ UNCHANGED claim
  /\ pub' = [pub EXCEPT ![p] = IdlePublish]
  /\ admission' = None
  /\ UNCHANGED <<kernel, freshGates, gates, stored, mut, fin>>

\* commit_turn_domains up to its staged copy
DomainStage(m) ==
  /\ mut[m].pc = "idle"
  /\ MayStage
  /\ mut' = [mut EXCEPT ![m] = [IdleMutation EXCEPT !.pc = "staged", !.claim = claim.id,
                                                    !.staged = claim.gate]]
  /\ admission' = m
  /\ UNCHANGED <<kernel, freshGates, gates, claim, stored, fin, pub>>

-----------------------------------------------------------------------------
(* Business mutations.                                                     *)

\* admit_domain_or_agent_mutation
Admits(m, c) ==
  /\ accepting /\ Valid(c)
  /\ gates[claim.gate].admission = "Open"
  /\ ~cancelled \/ m \in Settlements

MutationAdmit(m) ==
  /\ \/ m \in Domains /\ mut[m].pc = "staged" /\ Admits(m, mut[m].claim)
     \/ m \in Agents /\ mut[m].pc = "idle" /\ Admits(m, claim.id)
  /\ gates' = [gates EXCEPT ![claim.gate] = Enter(@, m)]
  /\ mut' = [mut EXCEPT ![m] = [@ EXCEPT !.pc = "leased", !.claim = claim.id,
                                          !.lease = claim.gate]]
  /\ UNCHANGED <<kernel, freshGates, claim, admission, stored, fin, pub>>

DomainRefused(m) ==
  /\ mut[m].pc = "staged"
  /\ mut' = [mut EXCEPT ![m] = IdleMutation]
  /\ admission' = None
  /\ UNCHANGED <<kernel, freshGates, gates, claim, stored, fin, pub>>

\* owned_commit
MutationSpawn(m) ==
  /\ mut[m].pc = "leased" /\ accepting
  /\ mut' = [mut EXCEPT ![m].pc = "task"]
  /\ UNCHANGED <<kernel, freshGates, gates, claim, admission, stored, fin, pub>>

\* commit_domain_candidate and the other commit tasks: the Store commits
MutationStore(m) ==
  /\ mut[m].pc = "task"
  /\ m \in Domains => Current(mut[m].lease)
  /\ mut' = [mut EXCEPT ![m].pc = "committed"]
  /\ UNCHANGED <<kernel, freshGates, gates, claim, admission, stored, fin, pub>>

\* install_domain_candidate, or fail_session when it is refused
DomainInstall(m) ==
  /\ m \in Domains /\ mut[m].pc = "committed"
  /\ \/ /\ Current(mut[m].lease)
        /\ claim' = [claim EXCEPT !.gate = mut[m].staged]
        /\ UNCHANGED <<gates, failed>>
     \/ FailSession(mut[m].lease) /\ UNCHANGED claim
  /\ mut' = [mut EXCEPT ![m].pc = "ending"]
  /\ UNCHANGED <<reg, freshClaims, freshGates, live, terminal, cancelled, queued, accepting,
                 admission, stored, fin, pub>>

\* the domain commit's outcome cannot be read back
DomainUnknown(m) ==
  /\ m \in Domains /\ mut[m].pc = "task"
  /\ FailSession(mut[m].lease)
  /\ mut' = [mut EXCEPT ![m].pc = "ending"]
  /\ UNCHANGED <<reg, freshClaims, freshGates, claim, live, terminal, cancelled, queued,
                 accepting, admission, stored, fin, pub>>

\* The call ends: its commit is done or failed, its spawn was refused, or its
\* caller went away before the task was spawned.
MutationEnd(m) ==
  /\ mut[m].pc \in {"leased", "task", "ending"} \/ (m \in Agents /\ mut[m].pc = "committed")
  /\ DropLease(m, mut[m].lease)
  /\ mut' = [mut EXCEPT ![m] = IdleMutation]
  /\ admission' = IF m \in Domains THEN None ELSE admission
  /\ UNCHANGED <<reg, freshClaims, live, terminal, cancelled, failed, accepting, stored, fin,
                 pub>>

-----------------------------------------------------------------------------
(* Ending the Turn.                                                        *)

\* drain_agent_mutations, first critical section
Close(gate) == [gate EXCEPT !.drainer = TRUE,
                            !.admission = IF @ = "TerminalAdmitted" THEN @ ELSE "Closed"]

Drain(f) ==
  /\ fin[f].pc = "idle" /\ Valid(claim.id)
  /\ MayDrain /\ freshGates # {}
  /\ ~Ending /\ gates[claim.gate].admission # "Failed"
  /\ gates' = [gates EXCEPT ![claim.gate] = Close(@)]
  /\ fin' = [fin EXCEPT ![f] = [IdleFinish EXCEPT !.pc = "draining", !.claim = claim.id,
                                                  !.drain = claim.gate]]
  /\ UNCHANGED <<kernel, freshGates, claim, admission, stored, mut, pub>>

\* faulty: the drain does not wait for the leases
DrainedEarly(f) ==
  /\ fin[f].pc = "draining"
  /\ fin' = [fin EXCEPT ![f].pc = "drained"]
  /\ UNCHANGED <<kernel, freshGates, gates, claim, admission, stored, mut, pub>>

Drained(f) ==
  /\ fin[f].pc = "draining" /\ gates[fin[f].drain].active = {}
  /\ fin' = [fin EXCEPT ![f].pc = "drained"]
  /\ UNCHANGED <<kernel, freshGates, gates, claim, admission, stored, mut, pub>>

\* submission_admission.acquire
FinishAdmit(f) ==
  /\ fin[f].pc = "drained" /\ admission = None /\ accepting
  /\ fin' = [fin EXCEPT ![f].pc = "admitted"]
  /\ admission' = f
  /\ UNCHANGED <<kernel, freshGates, gates, claim, stored, mut, pub>>

\* finish_direct_claim flushes the tail and stages the ending
FinishStage(f) ==
  /\ fin[f].pc = "admitted" /\ Valid(fin[f].claim) /\ ~failed /\ ~terminal
  /\ fin' = [fin EXCEPT ![f].pc = "staged"]
  /\ UNCHANGED <<kernel, freshGates, gates, claim, admission, stored, mut, pub>>

\* publish of a raw TurnTerminal, which drains like finish_turn
PublishTerminal(f) ==
  /\ fin[f].pc = "admitted" /\ Valid(fin[f].claim) /\ ~failed /\ ~terminal /\ accepting
  /\ terminal' = TRUE
  /\ gates' = [gates EXCEPT ![fin[f].drain] = Undrained(@)]
  /\ fin' = [fin EXCEPT ![f] = IdleFinish]
  /\ admission' = None
  /\ UNCHANGED <<reg, freshClaims, freshGates, claim, live, cancelled, queued, failed,
                 accepting, stored, mut, pub>>

\* retain_terminal_mutation
Retain(f) ==
  /\ fin[f].pc = "staged" /\ Valid(fin[f].claim)
  /\ gates[claim.gate].admission \in {"Closed", "TerminalAdmitted"}
  /\ gates[claim.gate].active = {}
  /\ gates' = [gates EXCEPT ![claim.gate] = Enter(@, f)]
  /\ fin' = [fin EXCEPT ![f] = [@ EXCEPT !.pc = "retained", !.lease = claim.gate]]
  /\ UNCHANGED <<kernel, freshGates, claim, admission, stored, mut, pub>>

\* owned_commit
FinishSpawn(f) ==
  /\ fin[f].pc = "retained" /\ accepting
  /\ fin' = [fin EXCEPT ![f].pc = "spawned"]
  /\ UNCHANGED <<kernel, freshGates, gates, claim, admission, stored, mut, pub>>

\* ... refused: the lease goes first, then the drain
FinishRefused(f) ==
  /\ fin[f].pc = "retained" /\ ~accepting
  /\ DropLease(f, fin[f].lease)
  /\ fin' = [fin EXCEPT ![f] = [@ EXCEPT !.pc = "refused", !.lease = None]]
  /\ UNCHANGED <<reg, freshClaims, live, terminal, cancelled, failed, accepting, admission,
                 stored, mut, pub>>

\* The attempt times out, is refused on the way, or its caller goes away.
FinishAbandon(f) ==
  /\ fin[f].pc \in Draining \cup {"refused"}
  /\ DropDrain(fin[f].drain)
  /\ fin' = [fin EXCEPT ![f] = IdleFinish]
  /\ admission' = IF admission = f THEN None ELSE admission
  /\ UNCHANGED <<reg, freshClaims, live, terminal, cancelled, failed, accepting, stored, mut,
                 pub>>

\* The commit task starts: drain.admit()
AdmitTerminal(gate) == [gate EXCEPT !.drainer = FALSE, !.admission = "TerminalAdmitted"]

TerminalAdmit(f) ==
  /\ fin[f].pc = "spawned"
  /\ gates' = [gates EXCEPT ![fin[f].drain] = AdmitTerminal(@)]
  /\ fin' = [fin EXCEPT ![f] = [@ EXCEPT !.pc = "committing", !.drain = None]]
  /\ UNCHANGED <<kernel, freshGates, claim, admission, stored, mut, pub>>

\* commit_agent and reconcile_failed_ending: the terminal is known to be stored, is
\* known not to be, or the outcome stays unknown and fails the Session
FinishStore(f) ==
  /\ fin[f].pc = "committing"
  /\ \/ /\ ~stored /\ stored' = TRUE
        /\ fin' = [fin EXCEPT ![f].pc = "installing"]
        /\ UNCHANGED <<gates, failed>>
     \/ /\ fin' = [fin EXCEPT ![f].pc = "failed"]
        /\ UNCHANGED <<gates, failed, stored>>
     \/ /\ FailSession(fin[f].lease)
        /\ stored' \in {stored, TRUE}
        /\ fin' = [fin EXCEPT ![f].pc = "failed"]
  /\ UNCHANGED <<reg, freshClaims, freshGates, claim, live, terminal, cancelled, queued,
                 accepting, admission, mut, pub>>

\* install_committed_terminal of the claim that is still the Turn's claim
FinishInstall(f) ==
  /\ fin[f].pc = "installing" /\ live /\ claim.id = fin[f].claim
  /\ live' = FALSE /\ claim' = NoClaim /\ queued' = FALSE
  /\ gates' = [gates EXCEPT ![fin[f].lease] = Leave(@, f)]
  /\ fin' = [fin EXCEPT ![f] = IdleFinish]
  /\ admission' = None
  /\ UNCHANGED <<reg, freshClaims, freshGates, terminal, cancelled, failed, accepting, stored,
                 mut, pub>>

\* The task ends without an installation.
FinishEnd(f) ==
  /\ \/ fin[f].pc = "failed"
     \/ fin[f].pc = "installing" /\ ~(live /\ claim.id = fin[f].claim)
  /\ DropLease(f, fin[f].lease)
  /\ fin' = [fin EXCEPT ![f] = IdleFinish]
  /\ admission' = None
  /\ UNCHANGED <<reg, freshClaims, live, terminal, cancelled, failed, accepting, stored, mut,
                 pub>>

-----------------------------------------------------------------------------
Init ==
  /\ reg = [r \in Registrations |-> "new"]
  /\ freshClaims = Claims /\ freshGates = Gates
  /\ gates = [g \in Gates |-> NewGate]
  /\ claim = NoClaim
  /\ live = TRUE /\ terminal = FALSE /\ cancelled = FALSE /\ queued = TRUE
  /\ failed = FALSE /\ accepting = TRUE
  /\ admission = None /\ stored = FALSE
  /\ mut = [m \in Mutations |-> IdleMutation]
  /\ fin = [f \in Finishers |-> IdleFinish]
  /\ pub = [p \in Publishers |-> IdlePublish]

MutationStep(m) ==
  \/ MutationSpawn(m) \/ MutationStore(m) \/ DomainInstall(m) \/ DomainUnknown(m)
  \/ MutationEnd(m)

FinishTask(f) ==
  \/ FinishSpawn(f) \/ FinishRefused(f) \/ TerminalAdmit(f) \/ FinishStore(f)
  \/ FinishInstall(f) \/ FinishEnd(f)

Next ==
  \/ \E r \in Registrations : Register(r) \/ Deregister(r) \/ Claim(r)
  \/ Release \/ Cancel \/ FlushTerminal \/ FlushFails \/ Shutdown \/ Quiesce
  \/ \E p \in Publishers : PublishStage(p) \/ PublishEnd(p)
  \/ \E m \in Domains : DomainStage(m) \/ DomainRefused(m)
  \/ \E m \in Mutations : MutationAdmit(m) \/ MutationStep(m)
  \/ \E f \in Finishers :
       \/ Drain(f) \/ Drained(f) \/ FinishAdmit(f) \/ FinishStage(f) \/ PublishTerminal(f)
       \/ Retain(f) \/ FinishAbandon(f) \/ FinishTask(f)

Spec == Init /\ [][Next]_vars

\* A mutation that holds a lease runs to its end (its Store calls return, and the
\* gate's stop token ends a parked one), a spawned terminal task runs to its end,
\* and a drainer is woken by the last lease.  No deadline is relied on.
Fairness ==
  /\ \A m \in Mutations : WF_vars(MutationStep(m))
  /\ \A f \in Finishers : WF_vars(FinishTask(f)) /\ WF_vars(Drained(f))

FairSpec == Spec /\ Fairness

-----------------------------------------------------------------------------
(* Properties.                                                             *)

KernelTypeOK ==
  /\ reg \in [Registrations -> {"new", "on", "off"}]
  /\ freshClaims \subseteq Claims /\ freshGates \subseteq Gates
  /\ gates \in [Gates -> GateStates]
  /\ claim \in Owners \cup {NoClaim}
  /\ live \in BOOLEAN /\ terminal \in BOOLEAN /\ cancelled \in BOOLEAN /\ queued \in BOOLEAN
  /\ failed \in BOOLEAN /\ accepting \in BOOLEAN /\ stored \in BOOLEAN
  /\ admission \in Writers \cup Finishers \cup {None}

MutTypeOK ==
  /\ mut \in [Mutations -> MutStates]
  /\ \A m \in Mutations : mut[m].pc \in Leased => /\ mut[m].claim \in Claims
                                                  /\ mut[m].lease \in Gates
  /\ \A m \in Domains : mut[m].pc # "idle" => /\ mut[m].claim \in Claims
                                              /\ mut[m].staged \in Gates

FinTypeOK ==
  /\ fin \in [Finishers -> FinStates]
  /\ \A f \in Finishers : fin[f].pc # "idle" => fin[f].claim \in Claims
  /\ \A f \in Finishers : fin[f].pc \in WithDrain => fin[f].drain \in Gates
  /\ \A f \in Finishers : fin[f].pc \in Retained => fin[f].lease \in Gates

PubTypeOK ==
  /\ pub \in [Publishers -> PubStates]
  /\ \A p \in Publishers : pub[p].pc = "staged" => /\ pub[p].claim \in Claims
                                                   /\ pub[p].staged \in Gates

\* Every variable of the gate protocol keeps its type, and a call in progress has
\* recorded the claim and the gates it works with.
TypeOK == KernelTypeOK /\ MutTypeOK /\ FinTypeOK /\ PubTypeOK

\* Retirement is deferred: while a mutation or a terminal commit holds a lease and
\* the Turn is live, the claim it was admitted under is still the Turn's claim and
\* its gate the claim's gate, whatever was released, withdrawn or abandoned meanwhile.
LeaseKeepsClaim ==
  live =>
    /\ \A m \in Mutations : mut[m].pc \in Leased =>
         claim.id = mut[m].claim /\ claim.gate = mut[m].lease
    /\ \A f \in Finishers : fin[f].pc \in Retained =>
         claim.id = fin[f].claim /\ claim.gate = fin[f].lease

\* A Turn never ends under a running mutation: while any mutation holds its lease,
\* no terminal of the Turn has been published or stored.
NoMutationAcrossTerminal ==
  \A m \in Mutations : mut[m].pc \in Leased => ~terminal /\ ~stored

\* A stored terminal is never forgotten: the resident Turn is gone, an attempt is
\* about to remove it, or the Session is quarantined.
StoredTerminalIsInstalled ==
  (stored /\ live) => (failed \/ \E f \in Finishers : fin[f].pc = "installing")

\* A Turn that nobody executes waits in the claim queue, so that retiring a claim
\* early, late or after a failed ending never strands it.
UnclaimedIsQueued ==
  (live /\ ~terminal /\ ~failed /\ claim = NoClaim) => queued

\* A rejected or abandoned ending restores admission: once the leases of a valid,
\* uncancelled claim have drained and no attempt is under way, mutations are admitted
\* unless a terminal was admitted.
AdmissionIsRestored ==
  (Valid(claim.id) /\ ~terminal /\ ~cancelled) =>
    LET gate == gates[claim.gate]
    IN (gate.active = {} /\ ~gate.drainer) => gate.admission \in {"Open"} \cup Sticky

\* Withdrawal takes effect: a retiring claim is cleared, without any deadline.
RetiringClaimClears ==
  \A c \in Claims :
    (claim.id = c /\ gates[claim.gate].retiring) ~> (claim.id # c)

\* The terminal drain ends: closing the gate and waiting for the leases cannot
\* deadlock with the mutations that hold submission admission.
DrainEnds ==
  \A f \in Finishers : fin[f].pc = "draining" ~> fin[f].pc # "draining"
=============================================================================
