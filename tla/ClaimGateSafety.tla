--------------------------- MODULE ClaimGateSafety ---------------------------
(***************************************************************************)
(* The safety of the mutation gate, proved for any number of executors,    *)
(* claims, gates and calls, with a client that publishes and ends a Turn   *)
(* one call after the other (~Overlap, as rsi-agent-executor does).        *)
(***************************************************************************)
EXTENDS ClaimGateProofs

-----------------------------------------------------------------------------
(* The inductive invariant.  A lease, a drain and a staged copy each tie   *)
(* the call that holds them to one gate; the parts say which gate that is, *)
(* and what nobody else can have done to it.                               *)

\* The lease count covers every call that holds a lease.
LeaseIsCounted ==
  /\ \A m \in Mutations : mut[m].pc \in Leased => m \in gates[mut[m].lease].active
  /\ \A f \in Finishers : fin[f].pc \in Retained => f \in gates[fin[f].lease].active

\* A closed gate is closed for a reason.
GateIsClosed ==
  \A g \in Gates : /\ gates[g].drainer => gates[g].admission # "Open"
                   /\ gates[g].admission = "Closed" => gates[g].retiring \/ gates[g].drainer

\* A claim identity in use is not issued again.
ClaimIsIssued ==
  /\ claim.id \notin freshClaims
  /\ \A m \in Domains : mut[m].pc = "staged" => mut[m].claim \notin freshClaims
  /\ \A f \in Finishers : fin[f].pc \in WithDrain => fin[f].claim \notin freshClaims
  /\ \A p \in Publishers : pub[p].pc = "staged" => pub[p].claim \notin freshClaims

\* Each drain is the only drain of its gate.
DrainIsExclusive ==
  /\ \A f \in Finishers : fin[f].pc \in WithDrain => gates[fin[f].drain].drainer
  /\ \A f, e \in Finishers :
       fin[f].pc \in WithDrain /\ fin[e].pc \in WithDrain /\ fin[f].drain = fin[e].drain => f = e

\* While claim c lasts, a call that works with gate g works with c's gate.
Binds(c, g) == live /\ claim.id = c => claim.gate = g

\* The gate of the claim that staged a copy can neither be drained nor reopened.
Fixed(c) == live /\ claim.id = c =>
              ~gates[claim.gate].drainer /\ gates[claim.gate].admission # "ReopenPending"

DrainBinds == \A f \in Finishers : fin[f].pc \in WithDrain => Binds(fin[f].claim, fin[f].drain)

StageBinds ==
  /\ \A m \in Domains : mut[m].pc = "staged" =>
       Binds(mut[m].claim, mut[m].staged) /\ Fixed(mut[m].claim)
  /\ \A p \in Publishers : pub[p].pc = "staged" =>
       Binds(pub[p].claim, pub[p].staged) /\ Fixed(pub[p].claim)
  /\ \A m \in Domains : mut[m].pc \in Leased => mut[m].staged = mut[m].lease

\* A terminal commit is alone on its gate, which admits nothing else.
FinisherIsAlone ==
  /\ \A g \in Gates, f \in Finishers :
       f \in gates[g].active => gates[g].active = {f} /\ gates[g].admission # "Open"
  /\ \A f \in Finishers : fin[f].pc \in {"drained", "admitted", "staged"} =>
       gates[fin[f].drain].active = {}
  /\ \A f \in Finishers : fin[f].pc \in {"retained", "spawned"} => fin[f].lease = fin[f].drain

\* Once its task runs, a terminal commit finds the Turn it is ending.
FinisherIsLive ==
  /\ \A f \in Finishers : fin[f].pc = "staged" => (live /\ claim.id = fin[f].claim => ~terminal)
  /\ \A f \in Finishers : fin[f].pc \in Retained => ~terminal
  /\ \A f \in Finishers : fin[f].pc \in Retained => live \/ (fin[f].pc = "retained" /\ ~accepting)

\* An admitted or stored terminal closes its gate for good.
TerminalCloses ==
  /\ \A f \in Finishers : fin[f].pc \in {"committing", "installing", "failed"} =>
       gates[fin[f].lease].admission \in Sticky
  /\ live /\ claim.id # None /\ stored => gates[claim.gate].admission \in Sticky
  /\ live /\ claim.id # None /\ terminal => gates[claim.gate].admission # "Open"

\* A gate that is not allocated is as ClaimMutationGate::default makes it, and nobody
\* uses it; the registration of a claim was made.
GateIsFresh ==
  /\ \A g \in freshGates : gates[g] = NewGate
  /\ claim.id # None => claim.gate \notin freshGates /\ reg[claim.reg] # "new"
  /\ \A m \in Mutations : mut[m].pc \in Leased => mut[m].lease \notin freshGates
  /\ \A f \in Finishers : /\ fin[f].pc \in WithDrain => fin[f].drain \notin freshGates
                          /\ fin[f].pc \in Retained => fin[f].lease \notin freshGates

-----------------------------------------------------------------------------
(* What the operations on gates do, field by field.                        *)

\* The fields of the gate that each operation returns.
LEMMA GateFields ==
  ASSUME NEW gate \in GateStates
  PROVE  /\ /\ Retire(gate).active = gate.active /\ Retire(gate).drainer = gate.drainer
            /\ Retire(gate).retiring = TRUE
            /\ Retire(gate).admission = IF gate.admission \in Sticky THEN gate.admission
                                                                     ELSE "Closed"
         /\ /\ Undrained(gate).active = gate.active /\ Undrained(gate).drainer = FALSE
            /\ Undrained(gate).retiring = gate.retiring
            /\ Undrained(gate).admission = IF gate.admission \in Sticky THEN gate.admission
                                                                        ELSE "ReopenPending"
         /\ /\ Close(gate).active = gate.active /\ Close(gate).drainer = TRUE
            /\ Close(gate).retiring = gate.retiring
            /\ Close(gate).admission = IF gate.admission = "TerminalAdmitted"
                                       THEN gate.admission ELSE "Closed"
         /\ /\ AdmitTerminal(gate).active = gate.active /\ AdmitTerminal(gate).drainer = FALSE
            /\ AdmitTerminal(gate).retiring = gate.retiring
            /\ AdmitTerminal(gate).admission = "TerminalAdmitted"
         /\ /\ Fail(gate).active = gate.active /\ Fail(gate).drainer = gate.drainer
            /\ Fail(gate).retiring = gate.retiring /\ Fail(gate).admission = "Failed"
BY DEF GateStates, Retire, Undrained, Close, AdmitTerminal, Fail

\* ... and of the gate that a call enters or leaves.
LEMMA LeaseFields ==
  ASSUME NEW gate \in GateStates, NEW x
  PROVE  /\ /\ Leave(gate, x).active = gate.active \ {x}
            /\ Leave(gate, x).drainer = gate.drainer
            /\ Leave(gate, x).retiring = gate.retiring
            /\ Leave(gate, x).admission = gate.admission
         /\ /\ Enter(gate, x).active = gate.active \cup {x}
            /\ Enter(gate, x).drainer = gate.drainer
            /\ Enter(gate, x).retiring = gate.retiring
            /\ Enter(gate, x).admission = gate.admission
BY DEF GateStates, Leave, Enter

\* A step changes no gate but g.
Only(g) == \A h \in Gates : h # g => gates'[h] = gates[h]

\* A step gives the claim on gate g a fresh gate.
Reopened(g) ==
  /\ Current(g) /\ ~terminal /\ ~cancelled
  /\ claim'.id = claim.id /\ claim'.reg = claim.reg
  /\ claim'.gate \in freshGates /\ freshGates' = freshGates \ {claim'.gate}

\* Reopening installs the gate, and replaces it only when nothing holds it.
LEMMA ReopenEffect ==
  ASSUME KernelTypeOK, NEW gate, NEW g \in Gates, Reopen(gate, g)
  PROVE  /\ Only(g) /\ gates'[g] = gate
         /\ \/ ~CanReopen(gate, g) /\ UNCHANGED <<claim, freshGates>>
            \/ /\ Reopened(g) /\ gate.active = {} /\ gate.admission = "ReopenPending"
               /\ ~gate.drainer /\ ~gate.retiring
<1>1. Only(g) /\ gates'[g] = gate
  BY DEF Reopen, Only, KernelTypeOK
<1>2. CASE CanReopen(gate, g)
  <2>1. claim \in Owners
    BY <1>2, OwnerType DEF CanReopen, Current
  <2>2. PICK h \in freshGates : freshGates' = freshGates \ {h}
                                /\ claim' = [claim EXCEPT !.gate = h]
    BY <1>2 DEF Reopen
  <2>3. claim'.id = claim.id /\ claim'.reg = claim.reg /\ claim'.gate = h
    BY <2>1, <2>2 DEF Owners
  <2> QED BY <1>1, <1>2, <2>2, <2>3 DEF CanReopen, Reopened
<1>3. CASE ~CanReopen(gate, g)
  BY <1>1, <1>3 DEF Reopen
<1> QED BY <1>2, <1>3

\* The last lease clears a retiring claim or reopens it; any other only leaves.
LEMMA DropLeaseEffect ==
  ASSUME KernelTypeOK, NEW x, NEW g \in Gates, DropLease(x, g)
  PROVE  /\ Only(g)
         /\ gates'[g].active = gates[g].active \ {x}
         /\ gates'[g].drainer = gates[g].drainer /\ gates'[g].retiring = gates[g].retiring
         /\ \/ gates'[g].admission = gates[g].admission
            \/ /\ gates[g].retiring /\ gates[g].admission \notin Sticky
               /\ gates'[g].admission = "Closed"
         /\ \/ ~CanReopen(gates'[g], g) /\ UNCHANGED <<claim, freshGates>>
            \/ /\ Current(g) /\ gates[g].active \subseteq {x} /\ gates[g].retiring
               /\ claim' = NoClaim /\ UNCHANGED freshGates
            \/ /\ Reopened(g) /\ gates[g].active \subseteq {x}
               /\ gates[g].admission = "ReopenPending" /\ ~gates[g].drainer
<1> DEFINE gate == Leave(gates[g], x)
<1>1. gates[g] \in GateStates
  BY DEF KernelTypeOK
<1>2. /\ gate.active = gates[g].active \ {x} /\ gate.admission = gates[g].admission
      /\ gate.drainer = gates[g].drainer /\ gate.retiring = gates[g].retiring
  BY <1>1, LeaseFields
<1>3. gate \in GateStates
  BY <1>1, GateType
<1>4. CASE gate.active = {} /\ gate.retiring
  <2>1. /\ Retire(gate).active = gate.active /\ Retire(gate).drainer = gate.drainer
        /\ Retire(gate).retiring = TRUE
        /\ Retire(gate).admission = IF gate.admission \in Sticky THEN gate.admission
                                                                 ELSE "Closed"
    BY <1>3, GateFields
  <2>2. Only(g) /\ gates'[g] = IF Current(g) THEN Retire(gate) ELSE gate
    BY <1>4 DEF DropLease, Only, KernelTypeOK
  <2>3. /\ UNCHANGED freshGates
        /\ (Current(g) /\ claim' = NoClaim) \/ UNCHANGED claim
    BY <1>4 DEF DropLease
  <2>4. gates[g].retiring = TRUE
    BY <1>1, <1>2, <1>4 DEF GateStates
  <2> HIDE DEF gate
  <2>5. gates'[g].retiring = TRUE
    BY <1>2, <2>1, <2>2, <2>4
  <2>6. ~CanReopen(gates'[g], g)
    BY <2>5 DEF CanReopen
  <2> QED BY <1>2, <1>4, <2>1, <2>2, <2>3, <2>4, <2>6
<1>5. CASE ~(gate.active = {} /\ gate.retiring)
  <2>1. Reopen(gate, g)
    BY <1>5 DEF DropLease
  <2> HIDE DEF gate
  <2> QED BY <1>2, <2>1, ReopenEffect
<1> QED BY <1>4, <1>5

\* The drop of a drain leaves the gate to be reopened, by it or by the last lease.
LEMMA DropDrainEffect ==
  ASSUME KernelTypeOK, NEW g \in Gates, DropDrain(g)
  PROVE  /\ Only(g)
         /\ gates'[g].active = gates[g].active /\ gates'[g].drainer = FALSE
         /\ gates'[g].retiring = gates[g].retiring
         /\ gates'[g].admission = IF gates[g].admission \in Sticky THEN gates[g].admission
                                                                   ELSE "ReopenPending"
         /\ \/ ~CanReopen(gates'[g], g) /\ UNCHANGED <<claim, freshGates>>
            \/ Reopened(g) /\ gates[g].active = {} /\ gates[g].admission \notin Sticky
<1> DEFINE gate == Undrained(gates[g])
<1>1. /\ gate.active = gates[g].active /\ gate.drainer = FALSE
      /\ gate.retiring = gates[g].retiring
      /\ gate.admission = IF gates[g].admission \in Sticky THEN gates[g].admission
                                                           ELSE "ReopenPending"
  BY GateFields DEF KernelTypeOK
<1>2. Reopen(gate, g)
  BY DEF DropDrain
<1> HIDE DEF gate
<1> QED BY <1>1, <1>2, ReopenEffect DEF Sticky

\* Retirement closes the claim's gate, and clears the claim when nothing holds it.
LEMMA RetireEffect ==
  ASSUME KernelTypeOK, claim.id # None, RetireClaim
  PROVE  /\ Only(claim.gate)
         /\ gates'[claim.gate].active = gates[claim.gate].active
         /\ gates'[claim.gate].drainer = gates[claim.gate].drainer
         /\ gates'[claim.gate].retiring = TRUE
         /\ gates'[claim.gate].admission = IF gates[claim.gate].admission \in Sticky
                                           THEN gates[claim.gate].admission ELSE "Closed"
         /\ \/ UNCHANGED claim
            \/ gates[claim.gate].active = {} /\ claim' = NoClaim
<1>1. claim.gate \in Gates
  BY OwnerType
<1>2. gates[claim.gate] \in GateStates /\ gates'[claim.gate] = Retire(gates[claim.gate])
  BY <1>1 DEF KernelTypeOK, RetireClaim
<1>3. Only(claim.gate)
  BY <1>1 DEF KernelTypeOK, RetireClaim, Only
<1>4. UNCHANGED claim \/ (gates[claim.gate].active = {} /\ claim' = NoClaim)
  BY DEF RetireClaim
<1> DEFINE gate == gates[claim.gate]
<1>5. /\ Retire(gate).active = gate.active /\ Retire(gate).drainer = gate.drainer
      /\ Retire(gate).retiring = TRUE
      /\ Retire(gate).admission = IF gate.admission \in Sticky THEN gate.admission
                                                               ELSE "Closed"
  BY <1>2, GateFields
<1> QED BY <1>2, <1>3, <1>4, <1>5

\* A failure is recorded in the gate and in the Session, and releases nothing.
LEMMA FailEffect ==
  ASSUME KernelTypeOK, NEW g \in Gates, FailSession(g)
  PROVE  /\ Only(g)
         /\ gates'[g].active = gates[g].active /\ gates'[g].drainer = gates[g].drainer
         /\ gates'[g].retiring = gates[g].retiring
         /\ gates'[g].admission = gates[g].admission \/ gates'[g].admission = "Failed"
         /\ failed \/ Current(g) => failed'
<1>1. CASE Current(g)
  <2>1. gates[g] \in GateStates /\ gates'[g] = Fail(gates[g]) /\ Only(g) /\ failed' = TRUE
    BY <1>1 DEF FailSession, KernelTypeOK, Only
  <2> DEFINE gate == gates[g]
  <2>2. /\ Fail(gate).active = gate.active /\ Fail(gate).drainer = gate.drainer
        /\ Fail(gate).retiring = gate.retiring /\ Fail(gate).admission = "Failed"
    BY <2>1, GateFields
  <2> QED BY <2>1, <2>2
<1>2. CASE ~Current(g)
  BY <1>2 DEF FailSession, Only, KernelTypeOK
<1> QED BY <1>1, <1>2

\* Closing the gate of the claim.
LEMMA DrainEffect ==
  ASSUME KernelTypeOK, NEW f, Drain(f)
  PROVE  LET g == claim.gate
         IN /\ g \in Gates /\ claim.id \in Claims /\ Only(g)
            /\ gates'[g].active = gates[g].active /\ gates'[g].drainer = TRUE
            /\ gates'[g].retiring = gates[g].retiring
            /\ gates'[g].admission = IF gates[g].admission = "TerminalAdmitted"
                                     THEN gates[g].admission ELSE "Closed"
<1> DEFINE g == claim.gate
<1>1. g \in Gates /\ claim.id \in Claims
  BY OwnerType DEF Drain, Valid
<1>2. Only(g) /\ gates'[g] = Close(gates[g]) /\ gates[g] \in GateStates
  BY <1>1 DEF Drain, KernelTypeOK, Only
<1>3. /\ Close(gates[g]).active = gates[g].active /\ Close(gates[g]).drainer = TRUE
      /\ Close(gates[g]).retiring = gates[g].retiring
      /\ Close(gates[g]).admission = IF gates[g].admission = "TerminalAdmitted"
                                     THEN gates[g].admission ELSE "Closed"
  BY <1>2, GateFields
<1> HIDE DEF g
<1>4. QED BY <1>1, <1>2, <1>3 DEF g

\* The end of a drain whose terminal was published.
LEMMA PublishTerminalEffect ==
  ASSUME KernelTypeOK, NEW f, fin[f].drain \in Gates, PublishTerminal(f)
  PROVE  LET g == fin[f].drain
         IN /\ Only(g)
            /\ gates'[g].active = gates[g].active /\ gates'[g].drainer = FALSE
            /\ gates'[g].retiring = gates[g].retiring
            /\ gates'[g].admission = IF gates[g].admission \in Sticky THEN gates[g].admission
                                                                      ELSE "ReopenPending"
<1> DEFINE g == fin[f].drain
<1>1. Only(g) /\ gates'[g] = Undrained(gates[g]) /\ gates[g] \in GateStates
  BY DEF PublishTerminal, KernelTypeOK, Only
<1>2. /\ Undrained(gates[g]).active = gates[g].active /\ Undrained(gates[g]).drainer = FALSE
      /\ Undrained(gates[g]).retiring = gates[g].retiring
      /\ Undrained(gates[g]).admission = IF gates[g].admission \in Sticky
                                         THEN gates[g].admission ELSE "ReopenPending"
  BY <1>1, GateFields
<1> QED BY <1>1, <1>2

\* The end of a drain whose terminal commit starts.
LEMMA TerminalAdmitEffect ==
  ASSUME KernelTypeOK, NEW f, fin[f].drain \in Gates, TerminalAdmit(f)
  PROVE  LET g == fin[f].drain
         IN /\ Only(g)
            /\ gates'[g].active = gates[g].active /\ gates'[g].drainer = FALSE
            /\ gates'[g].retiring = gates[g].retiring
            /\ gates'[g].admission = "TerminalAdmitted"
<1> DEFINE g == fin[f].drain
<1>1. Only(g) /\ gates'[g] = AdmitTerminal(gates[g]) /\ gates[g] \in GateStates
  BY DEF TerminalAdmit, KernelTypeOK, Only
<1>2. /\ AdmitTerminal(gates[g]).active = gates[g].active
      /\ AdmitTerminal(gates[g]).drainer = FALSE
      /\ AdmitTerminal(gates[g]).retiring = gates[g].retiring
      /\ AdmitTerminal(gates[g]).admission = "TerminalAdmitted"
  BY <1>1, GateFields
<1> QED BY <1>1, <1>2

\* A call enters the gate of the claim ...
LEMMA EnterEffect ==
  ASSUME KernelTypeOK, NEW x, claim.id # None,
         gates' = [gates EXCEPT ![claim.gate] = Enter(@, x)]
  PROVE  LET g == claim.gate
         IN /\ g \in Gates /\ claim.id \in Claims /\ Only(g)
            /\ gates'[g].active = gates[g].active \cup {x}
            /\ gates'[g].drainer = gates[g].drainer /\ gates'[g].retiring = gates[g].retiring
            /\ gates'[g].admission = gates[g].admission
<1> DEFINE g == claim.gate
<1>1. g \in Gates /\ claim.id \in Claims
  BY OwnerType
<1>2. Only(g) /\ gates'[g] = Enter(gates[g], x) /\ gates[g] \in GateStates
  BY <1>1 DEF KernelTypeOK, Only
<1>3. /\ Enter(gates[g], x).active = gates[g].active \cup {x}
      /\ Enter(gates[g], x).drainer = gates[g].drainer
      /\ Enter(gates[g], x).retiring = gates[g].retiring
      /\ Enter(gates[g], x).admission = gates[g].admission
  BY <1>2, LeaseFields
<1> HIDE DEF g
<1> QED BY <1>1, <1>2, <1>3 DEF g

\* ... and a terminal commit leaves its gate when it has removed the Turn.
LEMMA InstallEffect ==
  ASSUME KernelTypeOK, NEW f, fin[f].lease \in Gates, FinishInstall(f)
  PROVE  LET g == fin[f].lease
         IN /\ Only(g) /\ gates'[g].active = gates[g].active \ {f}
            /\ gates'[g].drainer = gates[g].drainer /\ gates'[g].retiring = gates[g].retiring
            /\ gates'[g].admission = gates[g].admission
<1> DEFINE g == fin[f].lease
<1>1. Only(g) /\ gates'[g] = Leave(gates[g], f) /\ gates[g] \in GateStates
  BY DEF KernelTypeOK, Only, FinishInstall
<1>2. /\ Leave(gates[g], f).active = gates[g].active \ {f}
      /\ Leave(gates[g], f).drainer = gates[g].drainer
      /\ Leave(gates[g], f).retiring = gates[g].retiring
      /\ Leave(gates[g], f).admission = gates[g].admission
  BY <1>1, LeaseFields
<1> QED BY <1>1, <1>2

-----------------------------------------------------------------------------
(* What the steps of a call do to its record.                              *)

\* A step changes no other call than m, f or p.
OnlyMutation(m) == UNCHANGED <<fin, pub>> /\ \A n \in Mutations : n # m => mut'[n] = mut[n]
OnlyFinisher(f) == UNCHANGED <<mut, pub>> /\ \A e \in Finishers : e # f => fin'[e] = fin[e]
OnlyPublisher(p) == UNCHANGED <<mut, fin>> /\ \A q \in Publishers : q # p => pub'[q] = pub[q]

\* The steps of a mutation.
LEMMA MutationEffect ==
  ASSUME TypeOK, NEW m \in Mutations
  PROVE  /\ DomainStage(m) => /\ OnlyMutation(m) /\ mut'[m].pc = "staged"
                              /\ mut'[m].claim = claim.id /\ mut'[m].staged = claim.gate
         /\ DomainRefused(m) \/ MutationEnd(m) => OnlyMutation(m) /\ mut'[m].pc = "idle"
         /\ MutationAdmit(m) =>
              /\ OnlyMutation(m) /\ mut'[m].pc = "leased" /\ mut'[m].claim = claim.id
              /\ mut'[m].lease = claim.gate /\ mut'[m].staged = mut[m].staged
         /\ MutationSpawn(m) \/ MutationStore(m) \/ DomainInstall(m) \/ DomainUnknown(m) =>
              /\ OnlyMutation(m) /\ mut[m].pc \in Leased /\ mut'[m].pc \in Leased
              /\ mut'[m].claim = mut[m].claim /\ mut'[m].staged = mut[m].staged
              /\ mut'[m].lease = mut[m].lease
<1>t. mut \in [Mutations -> MutStates]
  BY DEF TypeOK, MutTypeOK
<1>1. ASSUME DomainStage(m)
      PROVE /\ OnlyMutation(m) /\ mut'[m].pc = "staged"
            /\ mut'[m].claim = claim.id /\ mut'[m].staged = claim.gate
  BY <1>t, <1>1 DEF DomainStage, OnlyMutation, IdleMutation
<1>2. ASSUME DomainRefused(m) \/ MutationEnd(m) PROVE OnlyMutation(m) /\ mut'[m].pc = "idle"
  BY <1>t, <1>2 DEF DomainRefused, MutationEnd, OnlyMutation, IdleMutation
<1>3. ASSUME MutationAdmit(m)
      PROVE /\ OnlyMutation(m) /\ mut'[m].pc = "leased" /\ mut'[m].claim = claim.id
            /\ mut'[m].lease = claim.gate /\ mut'[m].staged = mut[m].staged
  BY <1>t, <1>3 DEF MutationAdmit, OnlyMutation, MutStates
<1>4. ASSUME MutationSpawn(m) \/ MutationStore(m) \/ DomainInstall(m) \/ DomainUnknown(m)
      PROVE /\ OnlyMutation(m) /\ mut[m].pc \in Leased /\ mut'[m].pc \in Leased
            /\ mut'[m].claim = mut[m].claim /\ mut'[m].staged = mut[m].staged
            /\ mut'[m].lease = mut[m].lease
  <2>1. PICK q \in Leased : mut' = [mut EXCEPT ![m].pc = q]
    BY <1>4 DEF MutationSpawn, MutationStore, DomainInstall, DomainUnknown, Leased
  <2>2. mut[m].pc \in Leased /\ UNCHANGED <<fin, pub>>
    BY <1>4 DEF MutationSpawn, MutationStore, DomainInstall, DomainUnknown, Leased
  <2> QED BY <1>t, <2>1, <2>2 DEF OnlyMutation, MutStates
<1> QED BY <1>1, <1>2, <1>3, <1>4

\* The steps of an ending.
LEMMA FinisherEffect ==
  ASSUME TypeOK, NEW f \in Finishers
  PROVE  /\ Drain(f) => /\ OnlyFinisher(f) /\ fin'[f].pc = "draining"
                        /\ fin'[f].claim = claim.id /\ fin'[f].drain = claim.gate
         /\ PublishTerminal(f) \/ FinishAbandon(f) \/ FinishInstall(f) \/ FinishEnd(f) =>
              OnlyFinisher(f) /\ fin'[f].pc = "idle"
         /\ Retain(f) => /\ OnlyFinisher(f) /\ fin'[f].pc = "retained"
                         /\ fin'[f].claim = fin[f].claim /\ fin'[f].drain = fin[f].drain
                         /\ fin'[f].lease = claim.gate
         /\ FinishRefused(f) => /\ OnlyFinisher(f) /\ fin'[f].pc = "refused"
                                /\ fin'[f].claim = fin[f].claim /\ fin'[f].drain = fin[f].drain
         /\ TerminalAdmit(f) => /\ OnlyFinisher(f) /\ fin'[f].pc = "committing"
                                /\ fin'[f].claim = fin[f].claim /\ fin'[f].lease = fin[f].lease
         /\ \A q : fin' = [fin EXCEPT ![f].pc = q] =>
              /\ \A e \in Finishers : e # f => fin'[e] = fin[e]
              /\ fin'[f].pc = q /\ fin'[f].claim = fin[f].claim
              /\ fin'[f].drain = fin[f].drain /\ fin'[f].lease = fin[f].lease
<1>t. fin \in [Finishers -> FinStates]
  BY DEF TypeOK, FinTypeOK
<1>1. ASSUME Drain(f) PROVE /\ OnlyFinisher(f) /\ fin'[f].pc = "draining"
                            /\ fin'[f].claim = claim.id /\ fin'[f].drain = claim.gate
  BY <1>t, <1>1 DEF Drain, OnlyFinisher, IdleFinish
<1>2. ASSUME PublishTerminal(f) \/ FinishAbandon(f) \/ FinishInstall(f) \/ FinishEnd(f)
      PROVE OnlyFinisher(f) /\ fin'[f].pc = "idle"
  BY <1>t, <1>2
     DEF PublishTerminal, FinishAbandon, FinishInstall, FinishEnd, OnlyFinisher, IdleFinish
<1>3. ASSUME Retain(f) PROVE /\ OnlyFinisher(f) /\ fin'[f].pc = "retained"
                             /\ fin'[f].claim = fin[f].claim /\ fin'[f].drain = fin[f].drain
                             /\ fin'[f].lease = claim.gate
  BY <1>t, <1>3 DEF Retain, OnlyFinisher, FinStates
<1>4. ASSUME FinishRefused(f)
      PROVE /\ OnlyFinisher(f) /\ fin'[f].pc = "refused"
            /\ fin'[f].claim = fin[f].claim /\ fin'[f].drain = fin[f].drain
  BY <1>t, <1>4 DEF FinishRefused, OnlyFinisher, FinStates
<1>5. ASSUME TerminalAdmit(f)
      PROVE /\ OnlyFinisher(f) /\ fin'[f].pc = "committing"
            /\ fin'[f].claim = fin[f].claim /\ fin'[f].lease = fin[f].lease
  BY <1>t, <1>5 DEF TerminalAdmit, OnlyFinisher, FinStates
<1>6. ASSUME NEW q, fin' = [fin EXCEPT ![f].pc = q]
      PROVE /\ \A e \in Finishers : e # f => fin'[e] = fin[e]
            /\ fin'[f].pc = q /\ fin'[f].claim = fin[f].claim
            /\ fin'[f].drain = fin[f].drain /\ fin'[f].lease = fin[f].lease
  BY <1>t, <1>6 DEF FinStates
<1> QED BY <1>1, <1>2, <1>3, <1>4, <1>5, <1>6

\* A step that only moves an ending on.
LEMMA FinisherMoves ==
  ASSUME TypeOK, NEW f \in Finishers,
         Drained(f) \/ FinishAdmit(f) \/ FinishStage(f) \/ FinishSpawn(f) \/ FinishStore(f)
  PROVE  /\ OnlyFinisher(f)
         /\ fin'[f].claim = fin[f].claim /\ fin'[f].drain = fin[f].drain
         /\ fin'[f].lease = fin[f].lease
         /\ \/ Drained(f) /\ fin[f].pc = "draining" /\ fin'[f].pc = "drained"
            \/ FinishAdmit(f) /\ fin[f].pc = "drained" /\ fin'[f].pc = "admitted"
            \/ FinishStage(f) /\ fin[f].pc = "admitted" /\ fin'[f].pc = "staged"
            \/ FinishSpawn(f) /\ fin[f].pc = "retained" /\ fin'[f].pc = "spawned"
            \/ FinishStore(f) /\ fin[f].pc = "committing" /\ fin'[f].pc \in {"installing", "failed"}
<1>1. UNCHANGED <<mut, pub>>
  BY DEF Drained, FinishAdmit, FinishStage, FinishSpawn, FinishStore
<1>2. PICK q : /\ fin' = [fin EXCEPT ![f].pc = q]
               /\ \/ Drained(f) /\ fin[f].pc = "draining" /\ q = "drained"
                  \/ FinishAdmit(f) /\ fin[f].pc = "drained" /\ q = "admitted"
                  \/ FinishStage(f) /\ fin[f].pc = "admitted" /\ q = "staged"
                  \/ FinishSpawn(f) /\ fin[f].pc = "retained" /\ q = "spawned"
                  \/ FinishStore(f) /\ fin[f].pc = "committing" /\ q \in {"installing", "failed"}
  BY DEF Drained, FinishAdmit, FinishStage, FinishSpawn, FinishStore
<1>3. /\ \A e \in Finishers : e # f => fin'[e] = fin[e]
      /\ fin'[f].pc = q /\ fin'[f].claim = fin[f].claim
      /\ fin'[f].drain = fin[f].drain /\ fin'[f].lease = fin[f].lease
  BY <1>2, FinisherEffect
<1> QED BY <1>1, <1>2, <1>3 DEF OnlyFinisher

\* The steps of a publication.
LEMMA PublisherEffect ==
  ASSUME TypeOK, NEW p \in Publishers
  PROVE  /\ PublishStage(p) => /\ OnlyPublisher(p) /\ pub'[p].pc = "staged"
                               /\ pub'[p].claim = claim.id /\ pub'[p].staged = claim.gate
         /\ PublishEnd(p) => OnlyPublisher(p) /\ pub'[p].pc = "idle"
<1>t. pub \in [Publishers -> PubStates]
  BY DEF TypeOK, PubTypeOK
<1> QED BY <1>t DEF PublishStage, PublishEnd, OnlyPublisher, IdlePublish

-----------------------------------------------------------------------------
(* What a step of the system can do, in three lemmas: to the calls in      *)
(* progress, to a gate, and to the claim.  The invariants follow from them *)
(* without further case distinctions on Next.                              *)

\* Deregistration retires the claim of the executor, or touches no gate and no claim.
LEMMA DeregisterCases ==
  ASSUME KernelTypeOK, NEW r, r # None, Deregister(r)
  PROVE  (claim.id # None /\ RetireClaim) \/ UNCHANGED <<gates, claim>>
<1>1. CASE live /\ claim.reg = r
  <2>1. claim \in Owners
    BY <1>1 DEF KernelTypeOK, NoClaim
  <2>2. claim.id # None
    BY <2>1, GateAssumption DEF Owners
  <2> QED BY <1>1, <2>2 DEF Deregister
<1>2. CASE ~(live /\ claim.reg = r)
  BY <1>2 DEF Deregister
<1> QED BY <1>1, <1>2

\* A call gets a copy, a lease or a drain in one action only, and until it gives it
\* back the record of it does not change.
LEMMA CallMoves ==
  ASSUME TypeOK, [Next]_vars
  PROVE  /\ \A m \in Mutations : mut'[m].pc = "staged" =>
              (m \in Domains /\ DomainStage(m)) \/ mut'[m] = mut[m]
         /\ \A m \in Mutations : mut'[m].pc \in Leased =>
              \/ MutationAdmit(m)
              \/ /\ mut[m].pc \in Leased /\ mut'[m].claim = mut[m].claim
                 /\ mut'[m].staged = mut[m].staged /\ mut'[m].lease = mut[m].lease
         /\ \A f \in Finishers : fin'[f].pc \in WithDrain =>
              \/ Drain(f)
              \/ /\ fin[f].pc \in WithDrain /\ fin'[f].claim = fin[f].claim
                 /\ fin'[f].drain = fin[f].drain
         /\ \A f \in Finishers : fin'[f].pc \in Retained =>
              \/ Retain(f)
              \/ /\ fin[f].pc \in Retained /\ fin'[f].claim = fin[f].claim
                 /\ fin'[f].lease = fin[f].lease
         /\ \A p \in Publishers : pub'[p].pc = "staged" => PublishStage(p) \/ pub'[p] = pub[p]
<1> DEFINE
      Mut(m) == /\ mut'[m].pc = "staged" => (m \in Domains /\ DomainStage(m)) \/ mut'[m] = mut[m]
                /\ mut'[m].pc \in Leased =>
                     \/ MutationAdmit(m)
                     \/ /\ mut[m].pc \in Leased /\ mut'[m].claim = mut[m].claim
                        /\ mut'[m].staged = mut[m].staged /\ mut'[m].lease = mut[m].lease
      Fin(f) == /\ fin'[f].pc \in WithDrain =>
                     \/ Drain(f)
                     \/ /\ fin[f].pc \in WithDrain /\ fin'[f].claim = fin[f].claim
                        /\ fin'[f].drain = fin[f].drain
                /\ fin'[f].pc \in Retained =>
                     \/ Retain(f)
                     \/ /\ fin[f].pc \in Retained /\ fin'[f].claim = fin[f].claim
                        /\ fin'[f].lease = fin[f].lease
      Pub(p) == pub'[p].pc = "staged" => PublishStage(p) \/ pub'[p] = pub[p]
      Goal == /\ \A m \in Mutations : Mut(m)
              /\ \A f \in Finishers : Fin(f)
              /\ \A p \in Publishers : Pub(p)
<1>1. ASSUME UNCHANGED <<mut, fin, pub>> PROVE Goal
  BY <1>1
<1>2. ASSUME NEW m \in Mutations, OnlyMutation(m), Mut(m) PROVE Goal
  BY <1>2 DEF OnlyMutation
<1>3. ASSUME NEW f \in Finishers, OnlyFinisher(f), Fin(f) PROVE Goal
  BY <1>3 DEF OnlyFinisher
<1>4. ASSUME NEW p \in Publishers, OnlyPublisher(p), Pub(p) PROVE Goal
  BY <1>4 DEF OnlyPublisher
<1> HIDE DEF Goal
<1>5. ASSUME NEW r \in Registrations, Register(r) \/ Deregister(r) \/ Claim(r) PROVE Goal
  BY <1>1, <1>5 DEF Register, Deregister, Claim
<1>6. ASSUME Release \/ Cancel \/ FlushTerminal \/ FlushFails \/ Shutdown \/ Quiesce PROVE Goal
  BY <1>1, <1>6 DEF Release, Cancel, FlushTerminal, FlushFails, Shutdown, Quiesce
<1>7. ASSUME NEW p \in Publishers, PublishStage(p) \/ PublishEnd(p) PROVE Goal
  BY <1>4, <1>7, PublisherEffect
<1>8. ASSUME NEW m \in Domains, DomainStage(m) \/ DomainRefused(m) PROVE Goal
  <2>1. m \in Mutations
    BY DEF Mutations
  <2> QED BY <1>2, <1>8, <2>1, MutationEffect DEF Leased
<1>9. ASSUME NEW m \in Mutations, MutationAdmit(m) \/ MutationStep(m) PROVE Goal
  <2>1. OnlyMutation(m) /\ mut'[m].pc # "staged"
    BY <1>9, MutationEffect DEF MutationStep, Leased
  <2>2. CASE MutationAdmit(m)
    BY <1>2, <2>1, <2>2
  <2>3. CASE MutationStep(m)
    BY <1>2, <2>1, <2>3, MutationEffect DEF MutationStep, Leased
  <2> QED BY <1>9, <2>2, <2>3
<1>10. ASSUME NEW f \in Finishers, Drain(f) \/ Retain(f) PROVE Goal
  <2>1. CASE Drain(f)
    BY <1>3, <2>1, FinisherEffect DEF Retained
  <2>2. CASE Retain(f)
    <3>1. fin[f].pc \in WithDrain
      BY <2>2 DEF Retain, WithDrain, Draining
    <3> QED BY <1>3, <2>2, <3>1, FinisherEffect
  <2> QED BY <1>10, <2>1, <2>2
<1>11. ASSUME NEW f \in Finishers,
              Drained(f) \/ FinishAdmit(f) \/ FinishStage(f) \/ FinishSpawn(f) \/ FinishStore(f)
       PROVE Goal
  BY <1>3, <1>11, FinisherMoves DEF WithDrain, Draining, Retained
<1>12. ASSUME NEW f \in Finishers,
              PublishTerminal(f) \/ FinishAbandon(f) \/ FinishInstall(f) \/ FinishEnd(f)
       PROVE Goal
  BY <1>3, <1>12, FinisherEffect DEF WithDrain, Draining, Retained
<1>13. ASSUME NEW f \in Finishers, FinishRefused(f) \/ TerminalAdmit(f) PROVE Goal
  <2>1. CASE FinishRefused(f)
    <3>1. fin[f].pc \in WithDrain
      BY <2>1 DEF FinishRefused, WithDrain
    <3> QED BY <1>3, <2>1, <3>1, FinisherEffect DEF Retained
  <2>2. CASE TerminalAdmit(f)
    <3>1. fin[f].pc \in Retained
      BY <2>2 DEF TerminalAdmit, Retained
    <3> QED BY <1>3, <2>2, <3>1, FinisherEffect DEF WithDrain, Draining
  <2> QED BY <1>13, <2>1, <2>2
<1>14. ASSUME UNCHANGED vars PROVE Goal
  BY <1>1, <1>14 DEF vars
<1>15. Goal
  BY <1>5, <1>6, <1>7, <1>8, <1>9, <1>10, <1>11, <1>12, <1>13, <1>14 DEF Next, FinishTask
<1> QED BY <1>15 DEF Goal

\* Closed for a reason, for one gate.
ClosedOK(gate) == /\ gate.drainer => gate.admission # "Open"
                  /\ gate.admission = "Closed" => gate.retiring \/ gate.drainer

\* The claim or a call in progress refers to gate g.
Used(g) == \/ claim.id # None /\ claim.gate = g
           \/ \E m \in Mutations : mut[m].pc \in Leased /\ mut[m].lease = g
           \/ \E f \in Finishers : \/ fin[f].pc \in WithDrain /\ fin[f].drain = g
                                   \/ fin[f].pc \in Retained /\ fin[f].lease = g

\* What a step can do to gate g.
GateMove(g) ==
  /\ gates'[g] # gates[g] => Used(g)
  /\ gates[g].retiring => gates'[g].retiring
  /\ gates'[g].drainer => gates[g].drainer \/ \E f \in Finishers : Drain(f)
  /\ gates[g].drainer /\ ~gates'[g].drainer =>
       \E f \in Finishers : /\ fin[f].pc \in WithDrain /\ fin[f].drain = g
                            /\ fin'[f].pc \notin WithDrain
  /\ gates'[g].admission = "ReopenPending" =>
       \/ gates[g].admission = "ReopenPending"
       \/ \E f \in Finishers : fin[f].pc \in WithDrain /\ fin[f].drain = g
  /\ gates[g].admission \in Sticky => gates'[g].admission \in Sticky
  /\ gates'[g].admission = "Open" => gates[g].admission = "Open"
  /\ ClosedOK(gates[g]) => ClosedOK(gates'[g])
  /\ \A x \in gates'[g].active :
       \/ x \in gates[g].active
       \/ x \in Mutations /\ MutationAdmit(x) /\ claim.gate = g
       \/ x \in Finishers /\ Retain(x) /\ claim.gate = g
  /\ \A x \in gates[g].active :
       \/ x \in gates'[g].active
       \/ x \in Mutations /\ x \notin Finishers /\ mut'[x].pc \notin Leased
       \/ x \in Finishers /\ x \notin Mutations /\ fin'[x].pc \notin Retained

\* Every step changes every gate in one of these ways only: closing, draining, failing
\* and retiring are the only writes to a ClaimMutationState.
LEMMA GateMoves ==
  ASSUME TypeOK, [Next]_vars
  PROVE  \A g \in Gates : GateMove(g)
<1> USE GateAssumption
<1>t. KernelTypeOK /\ MutTypeOK /\ FinTypeOK
  BY DEF TypeOK
<1>c. /\ \A m \in Mutations : mut[m].pc \in Leased => mut[m].lease \in Gates
      /\ \A f \in Finishers : fin[f].pc \in Retained => fin[f].lease \in Gates
      /\ \A f \in Finishers : fin[f].pc \in WithDrain => fin[f].drain \in Gates
  BY <1>t DEF MutTypeOK, FinTypeOK
<1>b. \A g \in Gates : gates[g].drainer \in BOOLEAN /\ gates[g].retiring \in BOOLEAN
  BY <1>t DEF KernelTypeOK, GateStates
<1> DEFINE Goal == \A g \in Gates : GateMove(g)
<1>1. ASSUME UNCHANGED gates PROVE Goal
  BY <1>1 DEF GateMove
<1>o. ASSUME NEW g \in Gates, Only(g), GateMove(g) PROVE Goal
  BY <1>o DEF Only, GateMove
<1> HIDE DEF Goal
<1>2. ASSUME claim.id # None, RetireClaim PROVE Goal
  <2>1. claim.gate \in Gates
    BY <1>t, <1>2, OwnerType
  <2>2. Used(claim.gate)
    BY <1>2 DEF Used
  <2>3. GateMove(claim.gate)
    BY <1>t, <1>b, <1>2, <2>1, <2>2, RetireEffect DEF GateMove, ClosedOK, Sticky
  <2> QED BY <1>t, <1>o, <1>2, <2>1, <2>3, RetireEffect
<1>3. ASSUME NEW g \in Gates, Used(g), NEW x, DropLease(x, g),
             \/ x \in Mutations /\ x \notin Finishers /\ mut'[x].pc \notin Leased
             \/ x \in Finishers /\ x \notin Mutations /\ fin'[x].pc \notin Retained
      PROVE Goal
  <2>1. GateMove(g)
    BY <1>t, <1>b, <1>3, DropLeaseEffect DEF GateMove, ClosedOK, Sticky
  <2> QED BY <1>t, <1>o, <1>3, <2>1, DropLeaseEffect
<1>4. ASSUME NEW g \in Gates, Used(g), FailSession(g) PROVE Goal
  <2>1. GateMove(g)
    BY <1>t, <1>b, <1>4, FailEffect DEF GateMove, ClosedOK, Sticky
  <2> QED BY <1>t, <1>o, <1>4, <2>1, FailEffect
<1>5. ASSUME NEW x, claim.id # None, gates' = [gates EXCEPT ![claim.gate] = Enter(@, x)],
             (x \in Mutations /\ MutationAdmit(x)) \/ (x \in Finishers /\ Retain(x))
      PROVE Goal
  <2> DEFINE g == claim.gate
  <2>1. /\ g \in Gates /\ Only(g) /\ gates'[g].active = gates[g].active \cup {x}
        /\ gates'[g].drainer = gates[g].drainer /\ gates'[g].retiring = gates[g].retiring
        /\ gates'[g].admission = gates[g].admission
    BY <1>t, <1>5, EnterEffect
  <2>2. Used(g)
    BY <1>5 DEF Used
  <2>3. GateMove(g)
    BY <1>5, <2>1, <2>2 DEF GateMove, ClosedOK
  <2> QED BY <1>o, <2>1, <2>3
<1>6. ASSUME NEW r \in Registrations, Register(r) \/ Deregister(r) \/ Claim(r) PROVE Goal
  BY <1>t, <1>1, <1>2, <1>6, DeregisterCases DEF Register, Claim
<1>7. ASSUME Release \/ Cancel \/ FlushTerminal \/ FlushFails \/ Shutdown \/ Quiesce PROVE Goal
  BY <1>1, <1>2, <1>7
     DEF Release, Valid, Cancel, FlushTerminal, FlushFails, Shutdown, Quiesce
<1>8. ASSUME NEW p \in Publishers, PublishStage(p) \/ PublishEnd(p) PROVE Goal
  BY <1>1, <1>8 DEF PublishStage, PublishEnd
<1>9. ASSUME NEW m \in Domains, DomainStage(m) \/ DomainRefused(m) PROVE Goal
  BY <1>1, <1>9 DEF DomainStage, DomainRefused
<1>10. ASSUME NEW m \in Mutations, MutationAdmit(m) PROVE Goal
  BY <1>5, <1>10 DEF MutationAdmit, Admits, Valid
<1>11. ASSUME NEW m \in Mutations, MutationStep(m) PROVE Goal
  <2>1. mut[m].pc \in Leased
    BY <1>11 DEF MutationStep, MutationSpawn, MutationStore, DomainInstall, DomainUnknown,
                 MutationEnd, Leased
  <2>u. Used(mut[m].lease)
    BY <2>1 DEF Used
  <2>2. CASE MutationEnd(m)
    <3>1. m \notin Finishers /\ mut'[m].pc \notin Leased
      BY <2>2, MutationEffect DEF Mutations, Leased
    <3> QED BY <1>c, <1>3, <2>1, <2>u, <2>2, <3>1 DEF MutationEnd
  <2>3. CASE ~MutationEnd(m)
    <3>1. UNCHANGED gates \/ FailSession(mut[m].lease)
      BY <1>11, <2>3 DEF MutationStep, MutationSpawn, MutationStore, DomainInstall, DomainUnknown
    <3> QED BY <1>c, <1>1, <1>4, <2>1, <2>u, <3>1
  <2> QED BY <2>2, <2>3
<1>12. ASSUME NEW f \in Finishers, Drain(f) PROVE Goal
  <2>1. claim.gate \in Gates /\ Only(claim.gate)
    BY <1>t, <1>12, DrainEffect
  <2>2. ~gates[claim.gate].drainer /\ gates[claim.gate].admission # "Failed"
    BY <1>12 DEF Drain, Ending
  <2>u. Used(claim.gate)
    BY <1>12 DEF Drain, Valid, Used
  <2>3. GateMove(claim.gate)
    BY <1>t, <1>b, <1>12, <2>1, <2>2, <2>u, DrainEffect DEF GateMove, ClosedOK, Sticky
  <2> QED BY <1>o, <2>1, <2>3
<1>13. ASSUME NEW f \in Finishers,
              Drained(f) \/ FinishAdmit(f) \/ FinishStage(f) \/ FinishSpawn(f)
       PROVE Goal
  BY <1>1, <1>13 DEF Drained, FinishAdmit, FinishStage, FinishSpawn
<1>14. ASSUME NEW f \in Finishers, PublishTerminal(f) \/ TerminalAdmit(f) \/ FinishAbandon(f)
       PROVE Goal
  <2>1. fin[f].pc \in WithDrain /\ fin[f].drain \in Gates
    BY <1>c, <1>14 DEF PublishTerminal, TerminalAdmit, FinishAbandon, WithDrain, Draining
  <2>2. fin'[f].pc \notin WithDrain
    BY <1>14, FinisherEffect DEF WithDrain, Draining
  <2>u. Used(fin[f].drain)
    BY <2>1 DEF Used
  <2>3. CASE PublishTerminal(f)
    <3>1. GateMove(fin[f].drain)
      BY <1>t, <1>b, <2>1, <2>2, <2>u, <2>3, PublishTerminalEffect DEF GateMove, ClosedOK, Sticky
    <3> QED BY <1>t, <1>o, <2>1, <2>3, <3>1, PublishTerminalEffect
  <2>4. CASE TerminalAdmit(f)
    <3>1. GateMove(fin[f].drain)
      BY <1>t, <1>b, <2>1, <2>2, <2>u, <2>4, TerminalAdmitEffect DEF GateMove, ClosedOK, Sticky
    <3> QED BY <1>t, <1>o, <2>1, <2>4, <3>1, TerminalAdmitEffect
  <2>5. CASE FinishAbandon(f)
    <3>1. DropDrain(fin[f].drain)
      BY <2>5 DEF FinishAbandon
    <3>2. GateMove(fin[f].drain)
      BY <1>t, <1>b, <2>1, <2>2, <2>u, <3>1, DropDrainEffect DEF GateMove, ClosedOK, Sticky
    <3> QED BY <1>t, <1>o, <2>1, <3>1, <3>2, DropDrainEffect
  <2> QED BY <1>14, <2>3, <2>4, <2>5
<1>15. ASSUME NEW f \in Finishers, Retain(f) PROVE Goal
  BY <1>5, <1>15 DEF Retain, Valid
<1>16. ASSUME NEW f \in Finishers, FinishStore(f) PROVE Goal
  <2>1. fin[f].lease \in Gates /\ (UNCHANGED gates \/ FailSession(fin[f].lease))
    BY <1>c, <1>16 DEF FinishStore, Retained
  <2>2. Used(fin[f].lease)
    BY <1>16 DEF FinishStore, Retained, Used
  <2> QED BY <1>1, <1>4, <2>1, <2>2
<1>17. ASSUME NEW f \in Finishers, FinishRefused(f) \/ FinishEnd(f) \/ FinishInstall(f) PROVE Goal
  <2>1. fin[f].lease \in Gates
    BY <1>c, <1>17 DEF FinishRefused, FinishEnd, FinishInstall, Retained
  <2>2. f \notin Mutations /\ fin'[f].pc \notin Retained
    BY <1>17, FinisherEffect DEF Mutations, Retained
  <2>u. Used(fin[f].lease)
    BY <1>17 DEF FinishRefused, FinishEnd, FinishInstall, Retained, Used
  <2>3. CASE FinishInstall(f)
    <3>1. GateMove(fin[f].lease)
      BY <1>t, <1>b, <2>1, <2>2, <2>u, <2>3, InstallEffect DEF GateMove, ClosedOK
    <3> QED BY <1>t, <1>o, <2>1, <2>3, <3>1, InstallEffect
  <2>4. CASE FinishRefused(f) \/ FinishEnd(f)
    BY <1>3, <2>1, <2>2, <2>u, <2>4 DEF FinishRefused, FinishEnd
  <2> QED BY <1>17, <2>3, <2>4
<1>18. ASSUME UNCHANGED vars PROVE Goal
  BY <1>1, <1>18 DEF vars
<1>19. Goal
  BY <1>6, <1>7, <1>8, <1>9, <1>10, <1>11, <1>12, <1>13, <1>14, <1>15, <1>16, <1>17, <1>18
     DEF Next, FinishTask
<1> QED BY <1>19 DEF Goal

\* The calls that held leases of the claim's gate end with this step.
Emptied == \A x \in gates[claim.gate].active :
             \/ x \in Mutations /\ x \notin Finishers /\ mut'[x].pc \notin Leased
             \/ x \in Finishers /\ x \notin Mutations /\ fin'[x].pc \notin Retained

Cleared == claim' = NoClaim /\ UNCHANGED freshGates
           /\ (live' => Current(claim.gate) /\ Emptied)

Issued == /\ Claimable
          /\ claim'.id \in freshClaims /\ claim'.id \notin freshClaims'
          /\ claim'.gate \in freshGates /\ freshGates' = freshGates \ {claim'.gate}
          /\ reg[claim'.reg] = "on" /\ UNCHANGED <<reg, live, terminal, stored, gates>>

Replaced == /\ Reopened(claim.gate) /\ Emptied /\ gates[claim.gate].admission \notin Sticky
            /\ \/ ~gates[claim.gate].drainer /\ gates[claim.gate].admission = "ReopenPending"
               \/ \E f \in Finishers : /\ fin[f].pc \in WithDrain /\ fin[f].drain = claim.gate
                                       /\ fin'[f].pc \notin WithDrain

Installed == /\ claim.id # None /\ claim'.id = claim.id /\ claim'.reg = claim.reg
             /\ UNCHANGED <<freshGates, live>>
             /\ \/ \E p \in Publishers : /\ pub[p].pc = "staged" /\ Valid(pub[p].claim)
                                         /\ claim'.gate = pub[p].staged
                \/ \E m \in Domains : /\ mut[m].pc \in Leased /\ Current(mut[m].lease)
                                      /\ claim'.gate = mut[m].staged

\* What a step can do to the claim.
ClaimMove == \/ UNCHANGED <<claim, freshGates>>
             \/ Cleared \/ Issued \/ Replaced \/ Installed

\* Every step clears, issues, reopens or reinstalls the claim, or leaves it alone.
LEMMA ClaimMoves ==
  ASSUME TypeOK, [Next]_vars
  PROVE  ClaimMove
<1> USE GateAssumption
<1>t. KernelTypeOK /\ MutTypeOK /\ FinTypeOK
  BY DEF TypeOK
<1>1. ASSUME UNCHANGED <<claim, freshGates>> PROVE ClaimMove
  BY <1>1 DEF ClaimMove
<1>2. ASSUME claim.id # None, live, RetireClaim, UNCHANGED <<live, freshGates>> PROVE ClaimMove
  <2>1. UNCHANGED claim \/ (gates[claim.gate].active = {} /\ claim' = NoClaim)
    BY <1>t, <1>2, RetireEffect
  <2> QED BY <1>1, <1>2, <2>1 DEF ClaimMove, Cleared, Current, Emptied
<1>3. ASSUME NEW r \in Registrations, Register(r) \/ Deregister(r) PROVE ClaimMove
  <2>1. CASE Register(r)
    BY <1>1, <2>1 DEF Register
  <2>2. CASE Deregister(r) /\ live
    BY <1>t, <1>1, <1>2, <2>2, DeregisterCases DEF Deregister
  <2>3. CASE Deregister(r) /\ ~live
    BY <1>1, <2>3 DEF Deregister
  <2> QED BY <1>3, <2>1, <2>2, <2>3
<1>4. ASSUME NEW r \in Registrations, Claim(r) PROVE ClaimMove
  <2>1. CASE Claimable
    <3>1. PICK c \in freshClaims, g \in freshGates :
            /\ claim' = [id |-> c, reg |-> r, gate |-> g]
            /\ freshClaims' = freshClaims \ {c} /\ freshGates' = freshGates \ {g}
      BY <1>4, <2>1 DEF Claim
    <3>2. UNCHANGED <<reg, live, terminal, stored, gates>> /\ reg[r] = "on"
      BY <1>4 DEF Claim
    <3>3. claim'.id = c /\ claim'.reg = r /\ claim'.gate = g
      BY <3>1
    <3> QED BY <2>1, <3>1, <3>2, <3>3 DEF ClaimMove, Issued
  <2>2. CASE ~Claimable
    BY <1>1, <1>4, <2>2 DEF Claim
  <2> QED BY <2>1, <2>2
<1>5. CASE Release
  BY <1>2, <1>5 DEF Release, Valid
<1>6. ASSUME Cancel \/ FlushFails \/ Shutdown PROVE ClaimMove
  BY <1>1, <1>6 DEF Cancel, FlushFails, Shutdown
<1>7. ASSUME FlushTerminal \/ Quiesce \/ \E f \in Finishers : FinishInstall(f) PROVE ClaimMove
  <2>1. claim' = NoClaim /\ UNCHANGED freshGates /\ ~live'
    BY <1>7 DEF FlushTerminal, Quiesce, FinishInstall
  <2> QED BY <2>1 DEF ClaimMove, Cleared
<1>8. ASSUME NEW p \in Publishers, PublishStage(p) \/ PublishEnd(p) PROVE ClaimMove
  <2>1. CASE PublishStage(p)
    BY <1>1, <2>1 DEF PublishStage
  <2>2. CASE PublishEnd(p) /\ Valid(pub[p].claim) /\ claim' = [claim EXCEPT !.gate = pub[p].staged]
    <3>1. claim \in Owners /\ claim.id # None
      BY <1>t, <2>2, OwnerType DEF Valid
    <3>2. claim'.id = claim.id /\ claim'.reg = claim.reg /\ claim'.gate = pub[p].staged
      BY <2>2, <3>1 DEF Owners
    <3>3. pub[p].pc = "staged" /\ UNCHANGED <<freshGates, live>>
      BY <2>2 DEF PublishEnd, kernel
    <3> QED BY <2>2, <3>1, <3>2, <3>3 DEF ClaimMove, Installed
  <2>3. CASE PublishEnd(p) /\ UNCHANGED claim
    BY <1>1, <2>3 DEF PublishEnd
  <2> QED BY <1>8, <2>1, <2>2, <2>3 DEF PublishEnd
<1>9. ASSUME NEW m \in Domains, DomainStage(m) \/ DomainRefused(m) PROVE ClaimMove
  BY <1>1, <1>9 DEF DomainStage, DomainRefused
<1>10. ASSUME NEW m \in Mutations,
              \/ MutationAdmit(m) \/ MutationSpawn(m) \/ MutationStore(m) \/ DomainUnknown(m)
       PROVE ClaimMove
  BY <1>1, <1>10 DEF MutationAdmit, MutationSpawn, MutationStore, DomainUnknown
<1>11. ASSUME NEW m \in Mutations, DomainInstall(m) PROVE ClaimMove
  <2>1. m \in Domains /\ mut[m].pc \in Leased /\ UNCHANGED <<freshGates, live>>
    BY <1>11 DEF DomainInstall, Leased
  <2>2. CASE Current(mut[m].lease) /\ claim' = [claim EXCEPT !.gate = mut[m].staged]
    <3>1. claim \in Owners /\ claim.id # None
      BY <1>t, <2>2, OwnerType DEF Current
    <3>2. claim'.id = claim.id /\ claim'.reg = claim.reg /\ claim'.gate = mut[m].staged
      BY <2>2, <3>1 DEF Owners
    <3> QED BY <2>1, <2>2, <3>1, <3>2 DEF ClaimMove, Installed
  <2>3. CASE UNCHANGED claim
    BY <1>1, <2>1, <2>3
  <2> QED BY <1>11, <2>2, <2>3 DEF DomainInstall
<1>12. ASSUME NEW g \in Gates, NEW x, DropLease(x, g), UNCHANGED live,
              \/ x \in Mutations /\ x \notin Finishers /\ mut'[x].pc \notin Leased
              \/ x \in Finishers /\ x \notin Mutations /\ fin'[x].pc \notin Retained
       PROVE ClaimMove
  <2>1. CASE UNCHANGED <<claim, freshGates>>
    BY <1>1, <2>1
  <2>2. CASE /\ Current(g) /\ gates[g].active \subseteq {x} /\ claim' = NoClaim
             /\ UNCHANGED freshGates
    <3>1. Current(claim.gate) /\ Emptied
      BY <1>12, <2>2 DEF Current, Emptied
    <3> QED BY <2>2, <3>1 DEF ClaimMove, Cleared
  <2>3. CASE /\ Reopened(g) /\ gates[g].active \subseteq {x}
             /\ gates[g].admission = "ReopenPending" /\ ~gates[g].drainer
    <3>1. claim.gate = g
      BY <2>3 DEF Reopened, Current
    <3>2. Emptied
      BY <1>12, <2>3, <3>1 DEF Emptied
    <3> QED BY <2>3, <3>1, <3>2 DEF ClaimMove, Replaced, Sticky
  <2> QED BY <1>t, <1>12, <2>1, <2>2, <2>3, DropLeaseEffect
<1>13. ASSUME NEW m \in Mutations, MutationEnd(m) PROVE ClaimMove
  <2>1. mut[m].lease \in Gates /\ DropLease(m, mut[m].lease) /\ UNCHANGED live
    BY <1>t, <1>13 DEF MutationEnd, MutTypeOK, Leased
  <2>2. m \notin Finishers /\ mut'[m].pc \notin Leased
    BY <1>13, MutationEffect DEF Mutations, Leased
  <2> QED BY <1>12, <2>1, <2>2
<1>14. ASSUME NEW f \in Finishers,
              \/ Drain(f) \/ Drained(f) \/ FinishAdmit(f) \/ FinishStage(f) \/ FinishSpawn(f)
              \/ PublishTerminal(f) \/ Retain(f) \/ TerminalAdmit(f) \/ FinishStore(f)
       PROVE ClaimMove
  BY <1>1, <1>14
     DEF Drain, Drained, FinishAdmit, FinishStage, FinishSpawn, PublishTerminal, Retain,
         TerminalAdmit, FinishStore
<1>15. ASSUME NEW f \in Finishers, FinishRefused(f) \/ FinishEnd(f) PROVE ClaimMove
  <2>1. fin[f].lease \in Gates /\ DropLease(f, fin[f].lease) /\ UNCHANGED live
    BY <1>t, <1>15 DEF FinishRefused, FinishEnd, FinTypeOK, Retained
  <2>2. f \notin Mutations /\ fin'[f].pc \notin Retained
    BY <1>15, FinisherEffect DEF Mutations, Retained
  <2> QED BY <1>12, <2>1, <2>2
<1>16. ASSUME NEW f \in Finishers, FinishAbandon(f) PROVE ClaimMove
  <2> DEFINE g == fin[f].drain
  <2>1. fin[f].pc \in WithDrain /\ g \in Gates /\ DropDrain(g)
    BY <1>t, <1>16 DEF FinishAbandon, FinTypeOK, WithDrain
  <2>2. fin'[f].pc \notin WithDrain
    BY <1>16, FinisherEffect DEF WithDrain, Draining
  <2>3. CASE Reopened(g) /\ gates[g].active = {} /\ gates[g].admission \notin Sticky
    <3>1. claim.gate = g
      BY <2>3 DEF Reopened, Current
    <3>2. Emptied
      BY <2>3, <3>1 DEF Emptied
    <3> QED BY <2>1, <2>2, <2>3, <3>1, <3>2 DEF ClaimMove, Replaced
  <2> QED BY <1>t, <1>1, <2>1, <2>3, DropDrainEffect
<1>17. CASE UNCHANGED vars
  BY <1>1, <1>17 DEF vars
<1> QED
  BY <1>3, <1>4, <1>5, <1>6, <1>7, <1>8, <1>9, <1>10, <1>11, <1>13, <1>14, <1>15, <1>16, <1>17
     DEF Next, MutationStep, FinishTask

\* What a step can do to the Turn, the Session, the Store and the unissued identities.
LEMMA TurnMoves ==
  ASSUME TypeOK, [Next]_vars
  PROVE  /\ live' => live
         /\ live /\ ~live' => FlushTerminal \/ Quiesce \/ \E f \in Finishers : FinishInstall(f)
         /\ terminal => terminal'
         /\ terminal' => terminal \/ \E f \in Finishers : PublishTerminal(f)
         /\ stored' => stored \/ FlushTerminal \/ \E f \in Finishers : FinishStore(f)
         /\ (failed => failed') /\ (accepting' => accepting)
         /\ cancelled => cancelled'
         /\ freshClaims' \subseteq freshClaims
         /\ \A r \in Registrations : /\ reg[r] # "new" => reg'[r] # "new"
                                     /\ reg'[r] = "on" => reg[r] # "off"
<1> DEFINE
      Goal == /\ live' => live
              /\ live /\ ~live' => FlushTerminal \/ Quiesce \/ \E f \in Finishers : FinishInstall(f)
              /\ terminal => terminal'
              /\ terminal' => terminal \/ \E f \in Finishers : PublishTerminal(f)
              /\ stored' => stored \/ FlushTerminal \/ \E f \in Finishers : FinishStore(f)
              /\ (failed => failed') /\ (accepting' => accepting)
              /\ cancelled => cancelled'
              /\ freshClaims' \subseteq freshClaims
              /\ \A r \in Registrations : /\ reg[r] # "new" => reg'[r] # "new"
                                          /\ reg'[r] = "on" => reg[r] # "off"
<1>0. failed \in BOOLEAN /\ reg \in [Registrations -> {"new", "on", "off"}]
  BY DEF TypeOK, KernelTypeOK
<1>1. ASSUME UNCHANGED <<reg, live, terminal, stored, accepting, cancelled, freshClaims>>,
             failed => failed'
      PROVE Goal
  BY <1>1
<1>2. ASSUME NEW g, FailSession(g) PROVE failed => failed'
  BY <1>2 DEF FailSession
<1>3. ASSUME NEW r \in Registrations, Register(r) \/ Deregister(r) \/ Claim(r) PROVE Goal
  BY <1>0, <1>3 DEF Register, Deregister, Claim
<1>4. ASSUME Release \/ Cancel \/ FlushTerminal \/ FlushFails \/ Shutdown \/ Quiesce PROVE Goal
  BY <1>0, <1>4 DEF Release, Cancel, FlushTerminal, FlushFails, Shutdown, Quiesce
<1>5. ASSUME NEW p \in Publishers, PublishStage(p) \/ PublishEnd(p) PROVE Goal
  BY <1>1, <1>5 DEF PublishStage, PublishEnd, kernel
<1>6. ASSUME NEW m \in Domains, DomainStage(m) \/ DomainRefused(m) PROVE Goal
  BY <1>1, <1>6 DEF DomainStage, DomainRefused, kernel
<1>7. ASSUME NEW m \in Mutations, MutationAdmit(m) \/ MutationStep(m) PROVE Goal
  BY <1>1, <1>2, <1>7
     DEF MutationAdmit, MutationStep, MutationSpawn, MutationStore, DomainInstall,
         DomainUnknown, MutationEnd, kernel
<1>8. ASSUME NEW f \in Finishers,
             \/ Drain(f) \/ Drained(f) \/ FinishAdmit(f) \/ FinishStage(f) \/ FinishSpawn(f)
             \/ Retain(f) \/ TerminalAdmit(f) \/ FinishRefused(f) \/ FinishEnd(f)
             \/ FinishAbandon(f)
      PROVE Goal
  BY <1>1, <1>8
     DEF Drain, Drained, FinishAdmit, FinishStage, FinishSpawn, Retain, TerminalAdmit,
         FinishRefused, FinishEnd, FinishAbandon, kernel
<1>9. ASSUME NEW f \in Finishers, PublishTerminal(f) \/ FinishStore(f) \/ FinishInstall(f) PROVE Goal
  <2>1. CASE PublishTerminal(f)
    BY <2>1 DEF PublishTerminal
  <2>2. CASE FinishStore(f)
    <3>1. UNCHANGED <<reg, live, terminal, accepting, cancelled, freshClaims>>
      BY <2>2 DEF FinishStore
    <3>2. failed => failed'
      BY <1>2, <2>2 DEF FinishStore
    <3> QED BY <2>2, <3>1, <3>2
  <2>3. CASE FinishInstall(f)
    BY <2>3 DEF FinishInstall
  <2> QED BY <1>9, <2>1, <2>2, <2>3
<1>10. ASSUME UNCHANGED vars PROVE Goal
  BY <1>1, <1>10 DEF vars
<1>11. Goal
  <2> HIDE DEF Goal
  <2> QED BY <1>3, <1>4, <1>5, <1>6, <1>7, <1>8, <1>9, <1>10 DEF Next, FinishTask
<1> QED BY <1>11

-----------------------------------------------------------------------------
(* The invariants.                                                         *)

\* Where the gates that calls refer to lie.
LEMMA CallTypes ==
  ASSUME TypeOK
  PROVE  /\ \A m \in Mutations : mut[m].pc \in Leased =>
              mut[m].lease \in Gates /\ mut[m].claim \in Claims
         /\ \A m \in Domains : mut[m].pc = "staged" =>
              mut[m].staged \in Gates /\ mut[m].claim \in Claims
         /\ \A f \in Finishers : fin[f].pc \in Retained =>
              fin[f].lease \in Gates /\ fin[f].claim \in Claims
         /\ \A f \in Finishers : fin[f].pc \in WithDrain =>
              fin[f].drain \in Gates /\ fin[f].claim \in Claims
         /\ \A p \in Publishers : pub[p].pc = "staged" =>
              pub[p].staged \in Gates /\ pub[p].claim \in Claims
<1>1. MutTypeOK /\ FinTypeOK /\ PubTypeOK
  BY DEF TypeOK
<1>2. "idle" \notin Retained /\ "idle" \notin WithDrain
  BY DEF Retained, WithDrain, Draining
<1> QED BY <1>1, <1>2 DEF MutTypeOK, FinTypeOK, PubTypeOK

\* The lease count covers every holder: it only loses the holder that ends.
LEMMA LeaseNext ==
  ASSUME TypeOK, LeaseIsCounted, [Next]_vars
  PROVE  LeaseIsCounted'
<1> USE GateAssumption DEF LeaseIsCounted
<1>t. KernelTypeOK
  BY DEF TypeOK
<1>1. ASSUME NEW m \in Mutations, mut'[m].pc \in Leased PROVE m \in gates'[mut'[m].lease].active
  <2>0. m \notin Finishers
    BY DEF Mutations
  <2>1. CASE MutationAdmit(m)
    <3>1. gates'[claim.gate].active = gates[claim.gate].active \cup {m}
      BY <1>t, <2>1, EnterEffect DEF MutationAdmit, Admits, Valid
    <3> QED BY <2>1, <3>1, MutationEffect
  <2>2. CASE mut[m].pc \in Leased /\ mut'[m].lease = mut[m].lease
    <3>1. mut[m].lease \in Gates
      BY <2>2, CallTypes
    <3>2. GateMove(mut[m].lease)
      BY <3>1, GateMoves
    <3> QED BY <1>1, <2>0, <2>2, <3>2 DEF GateMove
  <2> QED BY <1>1, <2>1, <2>2, CallMoves
<1>2. ASSUME NEW f \in Finishers, fin'[f].pc \in Retained PROVE f \in gates'[fin'[f].lease].active
  <2>0. f \notin Mutations
    BY DEF Mutations
  <2>1. CASE Retain(f)
    <3>1. gates'[claim.gate].active = gates[claim.gate].active \cup {f}
      BY <1>t, <2>1, EnterEffect DEF Retain, Valid
    <3> QED BY <2>1, <3>1, FinisherEffect
  <2>2. CASE fin[f].pc \in Retained /\ fin'[f].lease = fin[f].lease
    <3>1. fin[f].lease \in Gates
      BY <2>2, CallTypes
    <3>2. GateMove(fin[f].lease)
      BY <3>1, GateMoves
    <3> QED BY <1>2, <2>0, <2>2, <3>2 DEF GateMove
  <2> QED BY <1>2, <2>1, <2>2, CallMoves
<1> QED BY <1>1, <1>2

\* A gate is closed by a drain or by retirement, and a drain closes it.
LEMMA ClosedNext ==
  ASSUME TypeOK, GateIsClosed, [Next]_vars
  PROVE  GateIsClosed'
<1>1. ASSUME NEW g \in Gates PROVE ClosedOK(gates'[g])
  BY GateMoves DEF GateMove, ClosedOK, GateIsClosed
<1> QED BY <1>1 DEF GateIsClosed, ClosedOK

\* Claim identities are issued once.
LEMMA IssuedNext ==
  ASSUME TypeOK, ClaimIsIssued, [Next]_vars
  PROVE  ClaimIsIssued'
<1> USE GateAssumption
<1>f. freshClaims' \subseteq freshClaims /\ freshClaims \subseteq Claims
  BY TurnMoves DEF TypeOK, KernelTypeOK
<1>1. claim'.id \notin freshClaims'
  <2>1. CASE claim' = NoClaim
    BY <1>f, <2>1 DEF NoClaim
  <2>2. CASE claim'.id = claim.id
    BY <1>f, <2>2 DEF ClaimIsIssued
  <2>3. CASE Issued
    BY <2>3 DEF Issued
  <2> QED BY <2>1, <2>2, <2>3, ClaimMoves DEF ClaimMove, Cleared, Replaced, Reopened, Installed
<1>2. ASSUME NEW m \in Domains, mut'[m].pc = "staged" PROVE mut'[m].claim \notin freshClaims'
  <2>1. m \in Mutations
    BY DEF Mutations
  <2>2. CASE DomainStage(m)
    BY <1>f, <2>1, <2>2, MutationEffect DEF ClaimIsIssued
  <2>3. CASE mut'[m] = mut[m]
    BY <1>f, <1>2, <2>3 DEF ClaimIsIssued
  <2> QED BY <1>2, <2>1, <2>2, <2>3, CallMoves
<1>3. ASSUME NEW f \in Finishers, fin'[f].pc \in WithDrain PROVE fin'[f].claim \notin freshClaims'
  <2>1. CASE Drain(f)
    BY <1>f, <2>1, FinisherEffect DEF ClaimIsIssued
  <2> QED BY <1>f, <1>3, <2>1, CallMoves DEF ClaimIsIssued
<1>4. ASSUME NEW p \in Publishers, pub'[p].pc = "staged" PROVE pub'[p].claim \notin freshClaims'
  <2>1. CASE PublishStage(p)
    BY <1>f, <2>1, PublisherEffect DEF ClaimIsIssued
  <2> QED BY <1>f, <1>4, <2>1, CallMoves DEF ClaimIsIssued
<1> QED BY <1>1, <1>2, <1>3, <1>4 DEF ClaimIsIssued

\* A gate that is being drained is not drained again.
LEMMA ExclusiveNext ==
  ASSUME TypeOK, DrainIsExclusive, [Next]_vars
  PROVE  DrainIsExclusive'
<1>t. KernelTypeOK
  BY DEF TypeOK
<1>d. ASSUME NEW f \in Finishers, Drain(f)
      PROVE /\ fin'[f].drain = claim.gate /\ ~gates[claim.gate].drainer
            /\ gates'[claim.gate].drainer /\ fin[f].pc = "idle"
            /\ \A e \in Finishers : e # f => fin'[e] = fin[e]
  <2>1. fin'[f].drain = claim.gate /\ \A e \in Finishers : e # f => fin'[e] = fin[e]
    BY <1>d, FinisherEffect DEF OnlyFinisher
  <2>2. gates'[claim.gate].drainer
    BY <1>t, <1>d, DrainEffect
  <2> QED BY <1>d, <2>1, <2>2 DEF Drain, Ending
<1>1. ASSUME NEW f \in Finishers, fin'[f].pc \in WithDrain PROVE gates'[fin'[f].drain].drainer
  <2>1. CASE Drain(f)
    BY <1>d, <2>1
  <2>2. CASE fin[f].pc \in WithDrain /\ fin'[f].drain = fin[f].drain
    <3>1. GateMove(fin[f].drain)
      BY <2>2, CallTypes, GateMoves
    <3> QED BY <1>1, <2>2, <3>1 DEF GateMove, DrainIsExclusive
  <2> QED BY <1>1, <2>1, <2>2, CallMoves
<1>2. ASSUME NEW f \in Finishers, NEW e \in Finishers, f # e,
             fin'[f].pc \in WithDrain, fin'[e].pc \in WithDrain, fin'[f].drain = fin'[e].drain
      PROVE FALSE
  <2>1. "idle" \notin WithDrain
    BY DEF WithDrain, Draining
  <2>2. CASE Drain(f)
    <3>1. fin'[e] = fin[e] /\ ~gates[fin[e].drain].drainer
      BY <1>d, <1>2, <2>2
    <3> QED BY <1>2, <3>1 DEF DrainIsExclusive
  <2>3. CASE Drain(e)
    <3>1. fin'[f] = fin[f] /\ ~gates[fin[f].drain].drainer
      BY <1>d, <1>2, <2>3
    <3> QED BY <1>2, <3>1 DEF DrainIsExclusive
  <2>4. CASE ~Drain(f) /\ ~Drain(e)
    BY <1>2, <2>4, CallMoves DEF DrainIsExclusive
  <2> QED BY <2>2, <2>3, <2>4
<1> QED BY <1>1, <1>2 DEF DrainIsExclusive

\* An installation puts back the gate that the claim has.
LEMMA SameGate ==
  ASSUME StageBinds, Installed
  PROVE  claim'.id = claim.id /\ claim'.reg = claim.reg /\ claim'.gate = claim.gate
BY DEF StageBinds, Installed, Binds, Valid, Current

\* The gate of a draining claim is the gate that is drained.
LEMMA DrainBindsNext ==
  ASSUME TypeOK, ClaimIsIssued, DrainIsExclusive, StageBinds, DrainBinds, [Next]_vars
  PROVE  DrainBinds'
<1> SUFFICES ASSUME NEW f \in Finishers, fin'[f].pc \in WithDrain,
                    live', claim'.id = fin'[f].claim
             PROVE  claim'.gate = fin'[f].drain
  BY DEF DrainBinds, Binds
<1> USE GateAssumption
<1>1. CASE Drain(f)
  BY <1>1, FinisherEffect DEF Drain
<1>2. CASE /\ fin[f].pc \in WithDrain /\ fin'[f].claim = fin[f].claim
           /\ fin'[f].drain = fin[f].drain
  <2>1. /\ live /\ fin[f].claim \in Claims /\ fin[f].claim \notin freshClaims
        /\ claim.id = fin[f].claim => claim.gate = fin[f].drain
    BY <1>2, TurnMoves, CallTypes DEF ClaimIsIssued, DrainBinds, Binds
  <2>2. CASE UNCHANGED claim \/ Installed
    BY <1>2, <2>1, <2>2, SameGate
  <2>3. ~Cleared
    BY <1>2, <2>1 DEF Cleared, NoClaim
  <2>4. ~Issued
    BY <1>2, <2>1 DEF Issued
  <2>5. ~Replaced
    <3> SUFFICES ASSUME Replaced PROVE FALSE
      OBVIOUS
    <3>1. claim.gate = fin[f].drain /\ gates[fin[f].drain].drainer
      BY <1>2, <2>1 DEF Replaced, Reopened, DrainIsExclusive
    <3>2. PICK e \in Finishers : /\ fin[e].pc \in WithDrain /\ fin[e].drain = claim.gate
                                 /\ fin'[e].pc \notin WithDrain
      BY <3>1 DEF Replaced
    <3> QED BY <1>2, <3>1, <3>2 DEF DrainIsExclusive
  <2> QED BY <2>2, <2>3, <2>4, <2>5, ClaimMoves DEF ClaimMove
<1> QED BY <1>1, <1>2, CallMoves

\* While a copy is staged, no drain starts and none can reopen the gate.
LEMMA StagedStays ==
  ASSUME TypeOK, ClaimIsIssued, DrainIsExclusive, StageBinds, [Next]_vars,
         \A f \in Finishers : ~Drain(f),
         NEW c \in Claims, c \notin freshClaims, NEW g, Binds(c, g), Fixed(c)
  PROVE  Binds(c, g)' /\ Fixed(c)'
<1> SUFFICES ASSUME live', claim'.id = c
             PROVE  /\ claim'.gate = g /\ ~gates'[claim'.gate].drainer
                    /\ gates'[claim'.gate].admission # "ReopenPending"
  BY DEF Binds, Fixed
<1> USE GateAssumption
<1>1. live /\ ~Cleared /\ ~Issued
  <2>1. live
    BY TurnMoves
  <2>2. ~Cleared
    BY DEF Cleared, NoClaim
  <2>3. ~Issued
    BY DEF Issued
  <2> QED BY <2>1, <2>2, <2>3
<1>2. ~Replaced
  BY DEF Replaced, Reopened, Current, Fixed, DrainIsExclusive
<1>3. claim.id = c /\ claim'.gate = claim.gate
  BY <1>1, <1>2, ClaimMoves, SameGate DEF ClaimMove
<1>4. /\ claim.gate = g /\ ~gates[g].drainer /\ gates[g].admission # "ReopenPending"
  BY <1>1, <1>3 DEF Binds, Fixed
<1>5. g \in Gates
  BY <1>3, <1>4, OwnerType DEF TypeOK
<1>6. GateMove(g)
  BY <1>5, GateMoves
<1> QED BY <1>3, <1>4, <1>6 DEF GateMove, DrainIsExclusive

\* The gate of a claim with a staged copy is the copy's gate.
LEMMA StageBindsNext ==
  ASSUME ~Overlap, TypeOK, GateIsClosed, ClaimIsIssued, DrainIsExclusive, StageBinds,
         [Next]_vars
  PROVE  StageBinds'
<1> USE GateAssumption
<1>t. KernelTypeOK
  BY DEF TypeOK
<1>s. ASSUME MayStage
      PROVE /\ claim.gate \in Gates /\ ~gates[claim.gate].drainer
            /\ gates[claim.gate].admission # "ReopenPending"
  <2>1. gates[claim.gate].admission = "Open" /\ claim.id # None
    BY <1>s DEF MayStage, Valid
  <2> QED BY <1>t, <2>1, OwnerType DEF GateIsClosed
<1>1. ASSUME NEW m \in Domains, mut'[m].pc = "staged"
      PROVE Binds(mut[m].claim, mut[m].staged)' /\ Fixed(mut[m].claim)'
  <2>0. m \in Mutations
    BY DEF Mutations
  <2>1. CASE DomainStage(m)
    <3>1. UNCHANGED <<live, claim, gates>>
      BY <2>1 DEF DomainStage, kernel
    <3>2. mut'[m].claim = claim.id /\ mut'[m].staged = claim.gate
      BY <2>0, <2>1, MutationEffect
    <3>3. ~gates[claim.gate].drainer /\ gates[claim.gate].admission # "ReopenPending"
      BY <1>s, <2>1 DEF DomainStage
    <3> QED BY <3>1, <3>2, <3>3 DEF Binds, Fixed
  <2>2. CASE mut'[m] = mut[m]
    <3>1. mut[m].pc = "staged"
      BY <1>1, <2>2
    <3>2. \A f \in Finishers : ~Drain(f)
      BY <3>1 DEF Drain, MayDrain
    <3>3. /\ mut[m].claim \in Claims /\ mut[m].claim \notin freshClaims
          /\ Binds(mut[m].claim, mut[m].staged) /\ Fixed(mut[m].claim)
      BY <3>1, CallTypes DEF ClaimIsIssued, StageBinds
    <3>4. \A c \in Claims : \A g : c = mut[m].claim /\ g = mut[m].staged => Binds(c, g)' /\ Fixed(c)'
      BY <3>2, <3>3, StagedStays
    <3> QED BY <2>2, <3>3, <3>4 DEF Binds, Fixed
  <2> QED BY <1>1, <2>0, <2>1, <2>2, CallMoves
<1>2. ASSUME NEW p \in Publishers, pub'[p].pc = "staged"
      PROVE Binds(pub[p].claim, pub[p].staged)' /\ Fixed(pub[p].claim)'
  <2>1. CASE PublishStage(p)
    <3>1. UNCHANGED <<live, claim, gates>>
      BY <2>1 DEF PublishStage, kernel
    <3>2. pub'[p].claim = claim.id /\ pub'[p].staged = claim.gate
      BY <2>1, PublisherEffect
    <3>3. ~gates[claim.gate].drainer /\ gates[claim.gate].admission # "ReopenPending"
      BY <1>s, <2>1 DEF PublishStage
    <3> QED BY <3>1, <3>2, <3>3 DEF Binds, Fixed
  <2>2. CASE pub'[p] = pub[p]
    <3>1. pub[p].pc = "staged"
      BY <1>2, <2>2
    <3>2. \A f \in Finishers : ~Drain(f)
      BY <3>1 DEF Drain, MayDrain
    <3>3. /\ pub[p].claim \in Claims /\ pub[p].claim \notin freshClaims
          /\ Binds(pub[p].claim, pub[p].staged) /\ Fixed(pub[p].claim)
      BY <3>1, CallTypes DEF ClaimIsIssued, StageBinds
    <3>4. \A c \in Claims : \A g : c = pub[p].claim /\ g = pub[p].staged => Binds(c, g)' /\ Fixed(c)'
      BY <3>2, <3>3, StagedStays
    <3> QED BY <2>2, <3>3, <3>4 DEF Binds, Fixed
  <2> QED BY <1>2, <2>1, <2>2, CallMoves
<1>3. ASSUME NEW m \in Domains, mut'[m].pc \in Leased PROVE mut'[m].staged = mut'[m].lease
  <2>0. m \in Mutations /\ m \notin Agents
    BY DEF Mutations
  <2>1. CASE MutationAdmit(m)
    <3>1. mut[m].pc = "staged" /\ Valid(mut[m].claim)
      BY <2>0, <2>1 DEF MutationAdmit, Admits
    <3>2. claim.gate = mut[m].staged
      BY <3>1 DEF StageBinds, Binds, Valid
    <3> QED BY <2>0, <2>1, <3>2, MutationEffect
  <2> QED BY <1>3, <2>0, <2>1, CallMoves DEF StageBinds
<1> QED BY <1>1, <1>2, <1>3 DEF StageBinds

\* A lease keeps the claim: only the drop of the last lease, and the removal of the
\* Turn, clear or replace the claim it was taken under.
LEMMA KeepsNext ==
  ASSUME TypeOK, LeaseIsCounted, StageBinds, LeaseKeepsClaim, [Next]_vars
  PROVE  LeaseKeepsClaim'
<1> USE GateAssumption
<1>s. ASSUME live', claim.id # None, NEW x \in gates[claim.gate].active,
             ~(x \in Mutations /\ x \notin Finishers /\ mut'[x].pc \notin Leased),
             ~(x \in Finishers /\ x \notin Mutations /\ fin'[x].pc \notin Retained)
      PROVE claim'.id = claim.id /\ claim'.gate = claim.gate
  <2>0. ~Emptied
    BY <1>s DEF Emptied
  <2>1. ~Cleared /\ ~Replaced
    BY <1>s, <2>0 DEF Cleared, Replaced
  <2>2. claim # NoClaim
    BY <1>s DEF NoClaim
  <2>3. ~Issued
    BY <2>2 DEF Issued, Claimable
  <2> QED BY <2>1, <2>3, ClaimMoves, SameGate DEF ClaimMove
<1>1. ASSUME live', NEW m \in Mutations, mut'[m].pc \in Leased
      PROVE claim'.id = mut'[m].claim /\ claim'.gate = mut'[m].lease
  <2>1. CASE MutationAdmit(m)
    BY <2>1, MutationEffect DEF MutationAdmit
  <2>2. CASE /\ mut[m].pc \in Leased /\ mut'[m].claim = mut[m].claim
             /\ mut'[m].lease = mut[m].lease
    <3>1. claim.id = mut[m].claim /\ claim.gate = mut[m].lease /\ mut[m].claim \in Claims
      BY <1>1, <2>2, TurnMoves, CallTypes DEF LeaseKeepsClaim
    <3>2. m \in gates[claim.gate].active
      BY <2>2, <3>1 DEF LeaseIsCounted
    <3>3. m \notin Finishers
      BY DEF Mutations
    <3> QED BY <1>1, <1>s, <2>2, <3>1, <3>2, <3>3
  <2> QED BY <1>1, <2>1, <2>2, CallMoves
<1>2. ASSUME live', NEW f \in Finishers, fin'[f].pc \in Retained
      PROVE claim'.id = fin'[f].claim /\ claim'.gate = fin'[f].lease
  <2>1. CASE Retain(f)
    BY <2>1, FinisherEffect DEF Retain, Valid
  <2>2. CASE /\ fin[f].pc \in Retained /\ fin'[f].claim = fin[f].claim
             /\ fin'[f].lease = fin[f].lease
    <3>1. claim.id = fin[f].claim /\ claim.gate = fin[f].lease /\ fin[f].claim \in Claims
      BY <1>2, <2>2, TurnMoves, CallTypes DEF LeaseKeepsClaim
    <3>2. f \in gates[claim.gate].active
      BY <2>2, <3>1 DEF LeaseIsCounted
    <3>3. f \notin Mutations
      BY DEF Mutations
    <3> QED BY <1>2, <1>s, <2>2, <3>1, <3>2, <3>3
  <2> QED BY <1>2, <2>1, <2>2, CallMoves
<1> QED BY <1>1, <1>2 DEF LeaseKeepsClaim

\* Between two states an ending stays where it is or takes one of its own steps.
LEMMA FinisherActs ==
  ASSUME TypeOK, [Next]_vars, NEW f \in Finishers
  PROVE  \/ fin'[f] = fin[f]
         \/ Drain(f) \/ Drained(f) \/ FinishAdmit(f) \/ FinishStage(f) \/ PublishTerminal(f)
         \/ Retain(f) \/ FinishAbandon(f) \/ FinishTask(f)
<1>1. ASSUME NEW e \in Finishers,
             \/ Drain(e) \/ Drained(e) \/ FinishAdmit(e) \/ FinishStage(e) \/ PublishTerminal(e)
             \/ Retain(e) \/ FinishAbandon(e) \/ FinishTask(e)
      PROVE OnlyFinisher(e)
  BY <1>1, FinisherEffect, FinisherMoves DEF FinishTask
<1>2. ASSUME NEW m \in Mutations, MutationAdmit(m) \/ MutationStep(m) PROVE UNCHANGED fin
  BY <1>2, MutationEffect DEF MutationStep, OnlyMutation
<1>3. ASSUME \/ \E r \in Registrations : Register(r) \/ Deregister(r) \/ Claim(r)
             \/ Release \/ Cancel \/ FlushTerminal \/ FlushFails \/ Shutdown \/ Quiesce
             \/ \E p \in Publishers : PublishStage(p) \/ PublishEnd(p)
             \/ \E m \in Domains : DomainStage(m) \/ DomainRefused(m)
      PROVE UNCHANGED fin
  BY <1>3 DEF Register, Deregister, Claim, Release, Cancel, FlushTerminal, FlushFails, Shutdown,
              Quiesce, PublishStage, PublishEnd, DomainStage, DomainRefused
<1>4. CASE UNCHANGED vars
  BY <1>4 DEF vars
<1>5. CASE Next
  <2>1. \/ UNCHANGED fin
        \/ \E e \in Finishers :
             /\ \/ Drain(e) \/ Drained(e) \/ FinishAdmit(e) \/ FinishStage(e)
                \/ PublishTerminal(e) \/ Retain(e) \/ FinishAbandon(e) \/ FinishTask(e)
             /\ OnlyFinisher(e)
    BY <1>1, <1>2, <1>3, <1>5 DEF Next
  <2> QED BY <2>1 DEF OnlyFinisher
<1> QED BY <1>4, <1>5

\* The positions of an ending: how each set of them is entered and left.
LEMMA FinisherPaths ==
  ASSUME TypeOK, [Next]_vars, NEW f \in Finishers
  PROVE  /\ fin'[f].pc \in {"drained", "admitted", "staged"} =>
              \/ Drained(f)
              \/ /\ fin[f].pc \in {"drained", "admitted", "staged"}
                 /\ fin'[f].drain = fin[f].drain
         /\ fin'[f].pc = "staged" => FinishStage(f) \/ fin'[f] = fin[f]
         /\ fin'[f].pc \in {"retained", "spawned"} =>
              \/ Retain(f)
              \/ /\ fin[f].pc \in {"retained", "spawned"} /\ fin'[f].drain = fin[f].drain
                 /\ fin'[f].lease = fin[f].lease
         /\ fin'[f].pc \in {"committing", "installing", "failed"} =>
              \/ TerminalAdmit(f)
              \/ /\ fin[f].pc \in {"committing", "installing", "failed"}
                 /\ fin'[f].lease = fin[f].lease
         /\ fin[f].pc = "retained" /\ fin'[f].pc \in Retained =>
              FinishSpawn(f) \/ fin'[f] = fin[f]
         /\ fin[f].pc = "installing" =>
              FinishInstall(f) \/ FinishEnd(f) \/ fin'[f] = fin[f]
<1> USE DEF Retained
<1>1. CASE fin'[f] = fin[f]
  BY <1>1
<1>2. CASE Drain(f)
  BY <1>2, FinisherEffect DEF Drain
<1>3. CASE Drained(f) \/ FinishAdmit(f) \/ FinishStage(f) \/ FinishSpawn(f) \/ FinishStore(f)
  BY <1>3, FinisherMoves
<1>4. CASE PublishTerminal(f) \/ FinishAbandon(f) \/ FinishInstall(f) \/ FinishEnd(f)
  <2>1. fin'[f].pc = "idle"
    BY <1>4, FinisherEffect
  <2>2. fin[f].pc = "installing" => FinishInstall(f) \/ FinishEnd(f)
    BY <1>4 DEF PublishTerminal, FinishAbandon, Draining
  <2> QED BY <2>1, <2>2
<1>5. CASE Retain(f)
  <2>1. fin'[f].pc = "retained" /\ fin[f].pc = "staged"
    BY <1>5, FinisherEffect DEF Retain
  <2> QED BY <1>5, <2>1
<1>6. CASE FinishRefused(f)
  <2>1. fin'[f].pc = "refused" /\ fin[f].pc = "retained"
    BY <1>6, FinisherEffect DEF FinishRefused
  <2> QED BY <2>1
<1>7. CASE TerminalAdmit(f)
  <2>1. fin'[f].pc = "committing" /\ fin[f].pc = "spawned"
    BY <1>7, FinisherEffect DEF TerminalAdmit
  <2> QED BY <1>7, <2>1
<1> QED
  BY <1>1, <1>2, <1>3, <1>4, <1>5, <1>6, <1>7, FinisherActs DEF FinishTask

\* A terminal commit enters an empty gate that nothing else can enter.
LEMMA AloneNext ==
  ASSUME TypeOK, GateIsClosed, DrainIsExclusive, DrainBinds, FinisherIsAlone, [Next]_vars
  PROVE  FinisherIsAlone'
<1> USE GateAssumption
<1>t. KernelTypeOK
  BY DEF TypeOK
\* What an ending that retains finds.
<1>r. ASSUME NEW f \in Finishers, Retain(f)
      PROVE /\ fin[f].pc \in WithDrain /\ claim.gate = fin[f].drain
            /\ gates[claim.gate].active = {} /\ gates[claim.gate].admission # "Open"
  <2>1. fin[f].pc \in WithDrain /\ Valid(fin[f].claim)
    BY <1>r DEF Retain, WithDrain, Draining
  <2>2. claim.gate = fin[f].drain
    BY <2>1 DEF DrainBinds, Binds, Valid
  <2> QED BY <1>r, <2>1, <2>2 DEF Retain
\* What a mutation that is admitted finds.
<1>m. ASSUME NEW m, MutationAdmit(m) PROVE gates[claim.gate].admission = "Open"
  BY <1>m DEF MutationAdmit, Admits
<1>1. ASSUME NEW g \in Gates, NEW f \in Finishers, f \in gates'[g].active
      PROVE gates'[g].active = {f} /\ gates'[g].admission # "Open"
  <2>0. GateMove(g) /\ f \notin Mutations
    BY GateMoves DEF Mutations
  <2>1. CASE f \in gates[g].active
    <3>1. gates[g].active = {f} /\ gates[g].admission # "Open"
      BY <2>1 DEF FinisherIsAlone
    <3>2. gates'[g].admission # "Open"
      BY <2>0, <3>1 DEF GateMove
    <3>3. ASSUME NEW x \in gates'[g].active PROVE x = f
      <4>1. CASE x \in gates[g].active
        BY <3>1, <4>1
      <4>2. CASE MutationAdmit(x) /\ claim.gate = g
        BY <1>m, <3>1, <4>2
      <4>3. CASE x \in Finishers /\ Retain(x) /\ claim.gate = g
        BY <1>r, <3>1, <4>3
      <4> QED BY <2>0, <3>3, <4>1, <4>2, <4>3 DEF GateMove
    <3> QED BY <1>1, <3>2, <3>3
  <2>2. CASE Retain(f) /\ claim.gate = g
    <3>1. /\ gates'[g].active = gates[g].active \cup {f}
          /\ gates'[g].admission = gates[g].admission
      BY <1>t, <2>2, EnterEffect DEF Retain, Valid
    <3> QED BY <1>r, <2>2, <3>1
  <2> QED BY <1>1, <2>0, <2>1, <2>2 DEF GateMove
<1>2. ASSUME NEW f \in Finishers, fin'[f].pc \in {"drained", "admitted", "staged"}
      PROVE gates'[fin'[f].drain].active = {}
  <2>1. CASE Drained(f)
    <3>1. fin'[f].drain = fin[f].drain
      BY <2>1, FinisherMoves
    <3> QED BY <2>1, <3>1 DEF Drained
  <2>2. CASE /\ fin[f].pc \in {"drained", "admitted", "staged"}
             /\ fin'[f].drain = fin[f].drain
    <3>1. fin[f].pc \in WithDrain
      BY <2>2 DEF WithDrain, Draining
    <3>2. /\ gates[fin[f].drain].active = {} /\ gates[fin[f].drain].admission # "Open"
          /\ GateMove(fin[f].drain)
      BY <2>2, <3>1, CallTypes, GateMoves DEF FinisherIsAlone, DrainIsExclusive, GateIsClosed
    <3>3. ASSUME NEW x \in gates'[fin[f].drain].active PROVE FALSE
      <4>1. CASE MutationAdmit(x) /\ claim.gate = fin[f].drain
        BY <1>m, <3>2, <4>1
      <4>2. CASE x \in Finishers /\ Retain(x) /\ claim.gate = fin[f].drain
        <5>1. x = f
          BY <1>r, <3>1, <4>2 DEF DrainIsExclusive
        <5> QED BY <1>2, <4>2, <5>1, FinisherEffect
      <4> QED BY <3>2, <3>3, <4>1, <4>2 DEF GateMove
    <3> QED BY <2>2, <3>3
  <2> QED BY <1>2, <2>1, <2>2, FinisherPaths
<1>3. ASSUME NEW f \in Finishers, fin'[f].pc \in {"retained", "spawned"}
      PROVE fin'[f].lease = fin'[f].drain
  <2>1. CASE Retain(f)
    BY <1>r, <2>1, FinisherEffect
  <2> QED BY <1>3, <2>1, FinisherPaths DEF FinisherIsAlone
<1> QED BY <1>1, <1>2, <1>3 DEF FinisherIsAlone

\* A terminal is published only when no call holds a lease of the claim.
LEMMA PublishAlone ==
  ASSUME LeaseIsCounted, LeaseKeepsClaim, DrainBinds, FinisherIsAlone,
         NEW e \in Finishers, PublishTerminal(e)
  PROVE  /\ live /\ fin[e].pc = "admitted" /\ claim.id = fin[e].claim /\ claim.gate = fin[e].drain
         /\ \A m \in Mutations : mut[m].pc \notin Leased
         /\ \A f \in Finishers : fin[f].pc \notin Retained
<1>1. fin[e].pc = "admitted" /\ live /\ claim.id = fin[e].claim
  BY DEF PublishTerminal, Valid
<1>2. fin[e].pc \in WithDrain
  BY <1>1 DEF WithDrain, Draining
<1>3. claim.gate = fin[e].drain /\ gates[claim.gate].active = {}
  BY <1>1, <1>2 DEF DrainBinds, Binds, FinisherIsAlone
<1> QED BY <1>1, <1>3 DEF LeaseIsCounted, LeaseKeepsClaim

\* A terminal commit that has started finds its Turn, which has no other terminal.
LEMMA LiveNext ==
  ASSUME TypeOK, LeaseIsCounted, ClaimIsIssued, DrainIsExclusive, DrainBinds, StageBinds,
         LeaseKeepsClaim, FinisherIsAlone, FinisherIsLive, [Next]_vars
  PROVE  FinisherIsLive'
<1> USE GateAssumption
<1>1. ASSUME NEW f \in Finishers, fin'[f].pc = "staged", live', claim'.id = fin'[f].claim
      PROVE ~terminal'
  <2>1. CASE FinishStage(f)
    BY <2>1 DEF FinishStage, kernel
  <2>2. CASE fin'[f] = fin[f]
    <3>1. fin[f].pc = "staged" /\ fin[f].pc \in WithDrain
      BY <1>1, <2>2 DEF WithDrain, Draining
    <3>2. live /\ fin[f].claim \in Claims /\ fin[f].claim \notin freshClaims
      BY <1>1, <3>1, TurnMoves, CallTypes DEF ClaimIsIssued
    <3>3. ~Cleared
      BY <1>1, <2>2, <3>2 DEF Cleared, NoClaim
    <3>4. ~Issued
      BY <1>1, <2>2, <3>2 DEF Issued
    <3>5. claim.id = fin[f].claim
      BY <1>1, <2>2, <3>3, <3>4, ClaimMoves DEF ClaimMove, Replaced, Reopened, Installed
    <3>6. ~terminal /\ claim.gate = fin[f].drain
      BY <3>1, <3>2, <3>5 DEF FinisherIsLive, DrainBinds, Binds
    <3>7. ASSUME NEW e \in Finishers, PublishTerminal(e) PROVE FALSE
      <4>1. fin[e].pc = "admitted" /\ fin[e].drain = fin[f].drain
        BY <3>6, <3>7, PublishAlone
      <4>2. fin[e].pc \in WithDrain
        BY <4>1 DEF WithDrain, Draining
      <4> QED BY <3>1, <4>1, <4>2 DEF DrainIsExclusive
    <3> QED BY <3>6, <3>7, TurnMoves
  <2> QED BY <1>1, <2>1, <2>2, FinisherPaths
<1>2. ASSUME NEW f \in Finishers, fin'[f].pc \in Retained PROVE ~terminal'
  <2>1. CASE Retain(f)
    BY <2>1 DEF Retain, Valid, FinisherIsLive, kernel
  <2>2. CASE fin[f].pc \in Retained
    BY <2>2, PublishAlone, TurnMoves DEF FinisherIsLive
  <2> QED BY <1>2, <2>1, <2>2, CallMoves
<1>3. ASSUME NEW f \in Finishers, fin'[f].pc \in Retained
      PROVE live' \/ (fin'[f].pc = "retained" /\ ~accepting')
  <2>1. CASE Retain(f)
    BY <2>1 DEF Retain, Valid, kernel
  <2>2. CASE fin[f].pc \in Retained /\ live
    <3>1. ~FlushTerminal
      BY <2>2 DEF FlushTerminal, FinisherIsLive
    <3>2. CASE Quiesce
      BY <2>2, <3>2 DEF Quiesce
    <3>3. ASSUME NEW e \in Finishers, FinishInstall(e) PROVE FALSE
      <4>1. e # f
        BY <1>3, <3>3, FinisherEffect DEF Retained
      <4>2. fin[e].pc \in Retained
        BY <3>3 DEF FinishInstall, Retained
      <4>3. e \in gates[claim.gate].active /\ f \in gates[claim.gate].active
        BY <2>2, <4>2 DEF LeaseKeepsClaim, LeaseIsCounted
      <4>4. claim.gate \in Gates
        BY <2>2, CallTypes DEF LeaseKeepsClaim
      <4> QED BY <4>1, <4>3, <4>4 DEF FinisherIsAlone
    <3> QED BY <2>2, <3>1, <3>2, <3>3, TurnMoves
  <2>3. CASE fin[f].pc \in Retained /\ ~live
    <3>1. fin[f].pc = "retained" /\ ~accepting /\ ~accepting'
      BY <2>3, TurnMoves DEF FinisherIsLive
    <3>2. ~FinishSpawn(f)
      BY <3>1 DEF FinishSpawn
    <3> QED BY <1>3, <3>1, <3>2, FinisherPaths
  <2> QED BY <1>3, <2>1, <2>2, <2>3, CallMoves
<1> QED BY <1>1, <1>2, <1>3 DEF FinisherIsLive

\* What a commit of the terminal to the Store finds.
LEMMA StoreAlone ==
  ASSUME TypeOK, LeaseIsCounted, LeaseKeepsClaim, FinisherIsAlone, FinisherIsLive, TerminalCloses,
         NEW f \in Finishers, FinishStore(f)
  PROVE  /\ live /\ claim.gate = fin[f].lease /\ claim.gate \in Gates /\ claim.id # None
         /\ gates[claim.gate].admission \in Sticky
         /\ \A m \in Mutations : mut[m].pc \notin Leased
<1> USE GateAssumption
<1>1. fin[f].pc = "committing"
  BY DEF FinishStore
<1>2. fin[f].pc \in Retained
  BY <1>1 DEF Retained
<1>3. live /\ claim.gate = fin[f].lease /\ claim.gate \in Gates /\ claim.id \in Claims
  BY <1>1, <1>2, CallTypes DEF FinisherIsLive, LeaseKeepsClaim
<1>4. gates[claim.gate].admission \in Sticky /\ gates[claim.gate].active = {f}
  BY <1>1, <1>2, <1>3 DEF TerminalCloses, LeaseIsCounted, FinisherIsAlone
<1>5. f \notin Mutations
  BY DEF Mutations
<1> QED BY <1>3, <1>4, <1>5 DEF LeaseKeepsClaim, LeaseIsCounted

\* A stored terminal is installed, or the Session fails.
LEMMA InstalledNext ==
  ASSUME TypeOK, LeaseIsCounted, LeaseKeepsClaim, FinisherIsAlone, FinisherIsLive, TerminalCloses,
         StoredTerminalIsInstalled, [Next]_vars
  PROVE  StoredTerminalIsInstalled'
<1> SUFFICES ASSUME stored', live', ~failed'
             PROVE  \E e \in Finishers : fin'[e].pc = "installing"
  BY DEF StoredTerminalIsInstalled
<1> USE GateAssumption
<1>1. live /\ ~failed /\ ~FlushTerminal
  BY TurnMoves DEF FlushTerminal
<1>2. CASE stored
  <2>1. PICK e \in Finishers : fin[e].pc = "installing"
    BY <1>1, <1>2 DEF StoredTerminalIsInstalled
  <2>2. fin[e].pc \in Retained
    BY <2>1 DEF Retained
  <2>3. claim.id = fin[e].claim
    BY <1>1, <2>2 DEF LeaseKeepsClaim
  <2>4. ~FinishInstall(e) /\ ~FinishEnd(e)
    BY <1>1, <2>1, <2>3 DEF FinishInstall, FinishEnd
  <2> QED BY <2>1, <2>4, FinisherPaths
<1>3. CASE ~stored
  <2>1. PICK f \in Finishers : FinishStore(f)
    BY <1>1, <1>3, TurnMoves
  <2>2. Current(fin[f].lease) /\ fin[f].lease \in Gates
    BY <2>1, StoreAlone DEF Current
  <2>3. ~FailSession(fin[f].lease)
    BY <2>2, FailEffect DEF TypeOK
  <2>4. fin' = [fin EXCEPT ![f].pc = "installing"]
    BY <1>3, <2>1, <2>3 DEF FinishStore
  <2> QED BY <2>4, FinisherEffect
<1> QED BY <1>2, <1>3

\* An admitted terminal closes the gate for good.
LEMMA ClosesNext ==
  ASSUME TypeOK, LeaseIsCounted, DrainBinds, StageBinds, LeaseKeepsClaim, FinisherIsAlone,
         FinisherIsLive, StoredTerminalIsInstalled, TerminalCloses, [Next]_vars
  PROVE  TerminalCloses'
<1> USE GateAssumption
<1>t. KernelTypeOK
  BY DEF TypeOK
<1>1. ASSUME NEW f \in Finishers, fin'[f].pc \in {"committing", "installing", "failed"}
      PROVE gates'[fin'[f].lease].admission \in Sticky
  <2>1. CASE TerminalAdmit(f)
    <3>1. fin[f].pc = "spawned"
      BY <2>1 DEF TerminalAdmit
    <3>2. fin[f].lease = fin[f].drain /\ fin[f].drain \in Gates
      BY <3>1, CallTypes DEF FinisherIsAlone, WithDrain
    <3>3. gates'[fin[f].drain].admission = "TerminalAdmitted"
      BY <1>t, <2>1, <3>2, TerminalAdmitEffect
    <3> QED BY <2>1, <3>2, <3>3, FinisherEffect DEF Sticky
  <2>2. CASE /\ fin[f].pc \in {"committing", "installing", "failed"}
             /\ fin'[f].lease = fin[f].lease
    <3>1. fin[f].lease \in Gates /\ gates[fin[f].lease].admission \in Sticky
      BY <2>2, CallTypes DEF TerminalCloses, Retained
    <3> QED BY <2>2, <3>1, GateMoves DEF GateMove
  <2> QED BY <1>1, <2>1, <2>2, FinisherPaths
<1>2. ASSUME live', claim'.id # None, stored' PROVE gates'[claim'.gate].admission \in Sticky
  <2>1. CASE stored
    <3>1. live /\ ~Cleared
      BY <1>2, TurnMoves DEF Cleared, NoClaim
    <3>2. ~Issued
      <4> SUFFICES ASSUME Issued PROVE FALSE
        OBVIOUS
      <4>1. claim.id = None /\ ~failed
        BY DEF Issued, Claimable, NoClaim
      <4>2. PICK e \in Finishers : fin[e].pc = "installing"
        BY <2>1, <3>1, <4>1 DEF StoredTerminalIsInstalled
      <4>3. fin[e].pc \in Retained
        BY <4>2 DEF Retained
      <4> QED BY <3>1, <4>1, <4>3, CallTypes DEF LeaseKeepsClaim
    <3>3. claim.id # None
      <4>1. claim'.id = claim.id
        BY <3>1, <3>2, ClaimMoves DEF ClaimMove, Replaced, Reopened, Installed
      <4> QED BY <1>2, <4>1
    <3>4. gates[claim.gate].admission \in Sticky
      BY <2>1, <3>1, <3>3 DEF TerminalCloses
    <3>5. ~Replaced
      BY <3>4 DEF Replaced
    <3>6. claim'.gate = claim.gate /\ claim.gate \in Gates
      BY <1>t, <3>1, <3>2, <3>3, <3>5, ClaimMoves, SameGate, OwnerType DEF ClaimMove
    <3> QED BY <3>4, <3>6, GateMoves DEF GateMove
  <2>2. CASE ~stored
    <3>1. PICK f \in Finishers : FinishStore(f)
      BY <1>2, <2>2, TurnMoves DEF FlushTerminal
    <3>2. UNCHANGED claim
      BY <3>1 DEF FinishStore
    <3>3. claim.gate \in Gates /\ gates[claim.gate].admission \in Sticky
      BY <3>1, StoreAlone
    <3> QED BY <3>2, <3>3, GateMoves DEF GateMove
  <2> QED BY <2>1, <2>2
<1>3. ASSUME live', claim'.id # None, terminal' PROVE gates'[claim'.gate].admission # "Open"
  <2>1. CASE terminal
    <3>1. live /\ ~Cleared
      BY <1>3, TurnMoves DEF Cleared, NoClaim
    <3>2. ~Issued /\ ~Replaced
      BY <2>1 DEF Issued, Claimable, Replaced, Reopened
    <3>3. claim'.id = claim.id /\ claim'.gate = claim.gate
      BY <3>1, <3>2, ClaimMoves, SameGate DEF ClaimMove
    <3>4. claim.gate \in Gates /\ gates[claim.gate].admission # "Open"
      BY <1>t, <1>3, <2>1, <3>1, <3>3, OwnerType DEF TerminalCloses
    <3> QED BY <3>3, <3>4, GateMoves DEF GateMove
  <2>2. CASE ~terminal
    <3>1. PICK e \in Finishers : PublishTerminal(e)
      BY <1>3, <2>2, TurnMoves
    <3>2. UNCHANGED claim /\ claim.gate = fin[e].drain
      BY <3>1, PublishAlone DEF PublishTerminal
    <3>3. claim.gate \in Gates
      BY <1>t, <1>3, <3>2, OwnerType
    <3>4. gates'[fin[e].drain].admission \in Sticky \cup {"ReopenPending"}
      BY <1>t, <3>1, <3>2, <3>3, PublishTerminalEffect
    <3> QED BY <3>2, <3>4 DEF Sticky
  <2> QED BY <2>1, <2>2
<1> QED BY <1>1, <1>2, <1>3 DEF TerminalCloses

\* No terminal is published or stored while a mutation holds a lease.
LEMMA AcrossNext ==
  ASSUME TypeOK, LeaseIsCounted, DrainBinds, LeaseKeepsClaim, FinisherIsAlone, FinisherIsLive,
         TerminalCloses, NoMutationAcrossTerminal, [Next]_vars
  PROVE  NoMutationAcrossTerminal'
<1> SUFFICES ASSUME NEW m \in Mutations, mut'[m].pc \in Leased PROVE ~terminal' /\ ~stored'
  BY DEF NoMutationAcrossTerminal
<1>1. CASE MutationAdmit(m)
  <2>1. /\ live /\ claim.id # None /\ gates[claim.gate].admission = "Open"
        /\ UNCHANGED <<terminal, stored>>
    BY <1>1 DEF MutationAdmit, Admits, Valid, kernel
  <2>2. ~terminal /\ ~stored
    BY <2>1 DEF TerminalCloses, Sticky
  <2> QED BY <2>1, <2>2
<1>2. CASE mut[m].pc \in Leased
  <2>1. ~terminal /\ ~stored
    BY <1>2 DEF NoMutationAcrossTerminal
  <2>2. \A e \in Finishers : ~PublishTerminal(e) /\ ~FinishStore(e)
    BY <1>2, PublishAlone, StoreAlone
  <2>3. ~FlushTerminal
    BY <2>1 DEF FlushTerminal
  <2> QED BY <2>1, <2>2, <2>3, TurnMoves
<1> QED BY <1>1, <1>2, CallMoves

\* Nothing touches a gate before it is allocated.
LEMMA FreshNext ==
  ASSUME TypeOK, StageBinds, GateIsFresh, [Next]_vars
  PROVE  GateIsFresh'
<1> USE GateAssumption
<1>t. KernelTypeOK
  BY DEF TypeOK
<1>f. freshGates' \subseteq freshGates /\ freshGates \subseteq Gates
  BY <1>t, ClaimMoves
     DEF KernelTypeOK, ClaimMove, Cleared, Issued, Replaced, Reopened, Installed
<1>1. ASSUME NEW g \in freshGates' PROVE gates'[g] = NewGate
  <2>1. g \in Gates /\ gates[g] = NewGate
    BY <1>f, <1>1 DEF GateIsFresh
  <2>2. ~Used(g)
    BY <1>f, <1>1 DEF Used, GateIsFresh
  <2> QED BY <2>1, <2>2, GateMoves DEF GateMove
<1>2. ASSUME claim'.id # None PROVE claim'.gate \notin freshGates' /\ reg'[claim'.reg] # "new"
  <2>1. ~Cleared
    BY <1>2 DEF Cleared, NoClaim
  <2>2. CASE Issued
    BY <2>2 DEF Issued
  <2>3. CASE ~Issued
    <3>1. claim'.id = claim.id /\ claim'.reg = claim.reg
      BY <2>1, <2>3, ClaimMoves DEF ClaimMove, Replaced, Reopened, Installed
    <3>2. claim.reg \in Registrations
      BY <1>t, <1>2, <3>1, OwnerType
    <3>3. reg'[claim'.reg] # "new"
      BY <1>2, <3>1, <3>2, TurnMoves DEF GateIsFresh
    <3>4. CASE Replaced
      BY <3>3, <3>4 DEF Replaced, Reopened
    <3>5. CASE ~Replaced
      <4>1. claim'.gate = claim.gate
        BY <2>1, <2>3, <3>5, ClaimMoves, SameGate DEF ClaimMove
      <4> QED BY <1>f, <1>2, <3>1, <3>3, <4>1 DEF GateIsFresh
    <3> QED BY <3>4, <3>5
  <2> QED BY <2>2, <2>3
<1>3. ASSUME NEW m \in Mutations, mut'[m].pc \in Leased PROVE mut'[m].lease \notin freshGates'
  <2>1. CASE MutationAdmit(m)
    <3>1. claim.id # None /\ mut'[m].lease = claim.gate
      BY <2>1, MutationEffect DEF MutationAdmit, Admits, Valid
    <3> QED BY <1>f, <3>1 DEF GateIsFresh
  <2> QED BY <1>f, <1>3, <2>1, CallMoves DEF GateIsFresh
<1>4. ASSUME NEW f \in Finishers, fin'[f].pc \in WithDrain PROVE fin'[f].drain \notin freshGates'
  <2>1. CASE Drain(f)
    <3>1. claim.id # None /\ fin'[f].drain = claim.gate
      BY <2>1, FinisherEffect DEF Drain, Valid
    <3> QED BY <1>f, <3>1 DEF GateIsFresh
  <2> QED BY <1>f, <1>4, <2>1, CallMoves DEF GateIsFresh
<1>5. ASSUME NEW f \in Finishers, fin'[f].pc \in Retained PROVE fin'[f].lease \notin freshGates'
  <2>1. CASE Retain(f)
    <3>1. claim.id # None /\ fin'[f].lease = claim.gate
      BY <2>1, FinisherEffect DEF Retain, Valid
    <3> QED BY <1>f, <3>1 DEF GateIsFresh
  <2> QED BY <1>f, <1>5, <2>1, CallMoves DEF GateIsFresh
<1> QED BY <1>1, <1>2, <1>3, <1>4, <1>5 DEF GateIsFresh

\* A gate that could be reopened.
Reopenable(gate) == /\ gate.admission = "ReopenPending" /\ gate.active = {}
                    /\ ~gate.drainer /\ ~gate.retiring

\* The step that makes the claim's gate reopenable reopens it.
LEMMA ReopenMoves ==
  ASSUME TypeOK, [Next]_vars, NEW g \in Gates, Current(g), live', ~terminal', ~cancelled',
         Reopenable(gates'[g])
  PROVE  gates'[g] = gates[g] \/ claim'.gate \in freshGates
<1> USE GateAssumption DEF Reopenable
<1>t. KernelTypeOK /\ MutTypeOK /\ FinTypeOK
  BY DEF TypeOK
<1>c. /\ \A m \in Mutations : mut[m].pc \in Leased => mut[m].lease \in Gates
      /\ \A f \in Finishers : fin[f].pc \in Retained => fin[f].lease \in Gates
      /\ \A f \in Finishers : fin[f].pc \in WithDrain => fin[f].drain \in Gates
  BY CallTypes
<1> DEFINE Goal == gates'[g] = gates[g] \/ claim'.gate \in freshGates
<1>l. ~terminal /\ ~cancelled /\ claim.id # None /\ claim.gate = g
  BY TurnMoves DEF Current
<1>1. ASSUME UNCHANGED gates PROVE Goal
  BY <1>1
<1>2. ASSUME RetireClaim PROVE Goal
  BY <1>t, <1>l, <1>2, RetireEffect DEF Sticky
<1>3. ASSUME NEW h \in Gates, NEW x, DropLease(x, h) PROVE Goal
  <2>1. CASE h = g
    <3>1. ~gates[g].retiring
      BY <1>t, <1>3, <2>1, DropLeaseEffect
    <3>2. CASE ~CanReopen(gates'[g], g)
      BY <1>l, <3>2 DEF CanReopen
    <3>3. CASE Reopened(g)
      BY <3>3 DEF Reopened
    <3> QED BY <1>t, <1>3, <2>1, <3>1, <3>2, <3>3, DropLeaseEffect
  <2>2. CASE h # g
    BY <1>t, <1>3, <2>2, DropLeaseEffect DEF Only
  <2> QED BY <2>1, <2>2
<1>4. ASSUME NEW h \in Gates, FailSession(h) PROVE Goal
  <2>1. CASE h = g
    <3>1. gates' = [gates EXCEPT ![g] = Fail(@)]
      BY <1>4, <2>1 DEF FailSession
    <3>2. gates'[g].admission = "Failed"
      <4>1. gates'[g] = Fail(gates[g]) /\ gates[g] \in GateStates
        BY <1>t, <3>1 DEF KernelTypeOK
      <4>2. Fail(gates[g]).admission = "Failed"
        BY <4>1, GateFields
      <4> QED BY <4>1, <4>2
    <3> QED BY <3>2
  <2>2. CASE h # g
    BY <1>t, <1>4, <2>2, FailEffect DEF Only
  <2> QED BY <2>1, <2>2
<1>5. ASSUME NEW x, gates' = [gates EXCEPT ![claim.gate] = Enter(@, x)] PROVE Goal
  <2>1. gates'[g].active = gates[g].active \cup {x}
    BY <1>t, <1>l, <1>5, EnterEffect
  <2> QED BY <2>1
<1> HIDE DEF Goal
<1>6. ASSUME NEW r \in Registrations, Register(r) \/ Deregister(r) \/ Claim(r) PROVE Goal
  BY <1>t, <1>1, <1>2, <1>6, DeregisterCases DEF Register, Claim
<1>7. ASSUME Release \/ Cancel \/ FlushTerminal \/ FlushFails \/ Shutdown \/ Quiesce PROVE Goal
  BY <1>1, <1>2, <1>7 DEF Release, Cancel, FlushTerminal, FlushFails, Shutdown, Quiesce
<1>8. ASSUME NEW p \in Publishers, PublishStage(p) \/ PublishEnd(p) PROVE Goal
  BY <1>1, <1>8 DEF PublishStage, PublishEnd
<1>9. ASSUME NEW m \in Domains, DomainStage(m) \/ DomainRefused(m) PROVE Goal
  BY <1>1, <1>9 DEF DomainStage, DomainRefused
<1>10. ASSUME NEW m \in Mutations, MutationAdmit(m) PROVE Goal
  BY <1>5, <1>10 DEF MutationAdmit
<1>11. ASSUME NEW m \in Mutations, MutationStep(m) PROVE Goal
  <2>1. mut[m].pc \in Leased
    BY <1>11 DEF MutationStep, MutationSpawn, MutationStore, DomainInstall, DomainUnknown,
                 MutationEnd, Leased
  <2>2. \/ UNCHANGED gates \/ FailSession(mut[m].lease) \/ DropLease(m, mut[m].lease)
    BY <1>11 DEF MutationStep, MutationSpawn, MutationStore, DomainInstall, DomainUnknown,
                 MutationEnd
  <2> QED BY <1>c, <1>1, <1>3, <1>4, <2>1, <2>2
<1>12. ASSUME NEW f \in Finishers, Drain(f) PROVE Goal
  <2>1. gates'[g].drainer
    BY <1>t, <1>l, <1>12, DrainEffect
  <2> QED BY <2>1
<1>13. ASSUME NEW f \in Finishers,
              Drained(f) \/ FinishAdmit(f) \/ FinishStage(f) \/ FinishSpawn(f)
       PROVE Goal
  BY <1>1, <1>13 DEF Drained, FinishAdmit, FinishStage, FinishSpawn
<1>14. ASSUME NEW f \in Finishers, PublishTerminal(f) PROVE Goal
  BY <1>14 DEF PublishTerminal
<1>15. ASSUME NEW f \in Finishers, TerminalAdmit(f) PROVE Goal
  <2>1. fin[f].drain \in Gates
    BY <1>c, <1>15 DEF TerminalAdmit, WithDrain
  <2>2. Only(fin[f].drain) /\ gates'[fin[f].drain].admission = "TerminalAdmitted"
    BY <1>t, <1>15, <2>1, TerminalAdmitEffect
  <2> QED BY <2>2 DEF Only, Goal
<1>16. ASSUME NEW f \in Finishers, Retain(f) PROVE Goal
  BY <1>5, <1>16 DEF Retain
<1>17. ASSUME NEW f \in Finishers, FinishAbandon(f) PROVE Goal
  <2>1. fin[f].drain \in Gates /\ DropDrain(fin[f].drain)
    BY <1>c, <1>17 DEF FinishAbandon, WithDrain
  <2>2. CASE fin[f].drain = g
    <3>1. CASE ~CanReopen(gates'[g], g)
      BY <1>l, <3>1 DEF CanReopen
    <3>2. CASE Reopened(g)
      BY <3>2 DEF Reopened, Goal
    <3> QED BY <1>t, <2>1, <2>2, <3>1, <3>2, DropDrainEffect
  <2>3. CASE fin[f].drain # g
    BY <1>t, <2>1, <2>3, DropDrainEffect DEF Only, Goal
  <2> QED BY <2>2, <2>3
<1>18. ASSUME NEW f \in Finishers, FinishStore(f) \/ FinishRefused(f) \/ FinishEnd(f) PROVE Goal
  <2>1. fin[f].lease \in Gates
    BY <1>c, <1>18 DEF FinishStore, FinishRefused, FinishEnd, Retained
  <2>2. UNCHANGED gates \/ FailSession(fin[f].lease) \/ DropLease(f, fin[f].lease)
    BY <1>18 DEF FinishStore, FinishRefused, FinishEnd
  <2> QED BY <1>1, <1>3, <1>4, <2>1, <2>2
<1>19. ASSUME NEW f \in Finishers, FinishInstall(f) PROVE Goal
  BY <1>19 DEF FinishInstall
<1>20. ASSUME UNCHANGED vars PROVE Goal
  BY <1>1, <1>20 DEF vars
<1>21. Goal
  BY <1>6, <1>7, <1>8, <1>9, <1>10, <1>11, <1>12, <1>13, <1>14, <1>15, <1>16, <1>17, <1>18,
     <1>19, <1>20
     DEF Next, FinishTask
<1> QED BY <1>21 DEF Goal

\* The claim's gate is never left reopenable.
LEMMA RestoredNext ==
  ASSUME TypeOK, TypeOK', GateIsClosed', StageBinds, GateIsFresh, AdmissionIsRestored, [Next]_vars
  PROVE  AdmissionIsRestored'
<1> DEFINE h == claim'.gate
<1> SUFFICES ASSUME Valid(claim.id)', ~terminal', ~cancelled', gates'[h].active = {},
                    ~gates'[h].drainer, gates'[h].admission \notin {"Open"} \cup Sticky
             PROVE  FALSE
  BY DEF AdmissionIsRestored
<1> USE GateAssumption
<1>v. live' /\ claim'.id # None /\ reg'[claim'.reg] = "on" /\ ~gates'[h].retiring
  BY DEF Valid
<1>h. h \in Gates /\ gates'[h].admission \in Admissions
  <2>1. KernelTypeOK'
    BY DEF TypeOK
  <2>2. claim' \in Owners
    BY <1>v, <2>1 DEF KernelTypeOK, NoClaim
  <2> QED BY <2>1, <2>2 DEF KernelTypeOK, Owners, GateStates
<1>1. gates'[h].admission = "ReopenPending"
  BY <1>v, <1>h DEF GateIsClosed, Admissions
<1>2. GateMove(h) /\ live
  BY <1>v, <1>h, GateMoves, TurnMoves
<1>3. ~Cleared
  BY <1>v DEF Cleared, NoClaim
<1>4. h \notin freshGates
  <2> SUFFICES ASSUME h \in freshGates PROVE FALSE
    OBVIOUS
  <2>1. gates[h] = NewGate
    BY DEF GateIsFresh
  <2>2. gates[h].admission = "Open"
    BY <2>1 DEF NewGate
  <2> QED BY <1>1, <1>2, <2>2 DEF GateMove, GateIsFresh
<1>5. ~Issued /\ ~Replaced
  BY <1>4 DEF Issued, Replaced, Reopened
<1>6. claim'.id = claim.id /\ claim'.reg = claim.reg /\ claim'.gate = claim.gate
  BY <1>3, <1>5, ClaimMoves, SameGate DEF ClaimMove
<1>7. Current(h) /\ Reopenable(gates'[h])
  BY <1>v, <1>1, <1>2, <1>6 DEF Current, Reopenable
<1>8. gates'[h] = gates[h]
  BY <1>h, <1>v, <1>4, <1>7, ReopenMoves
<1>9. Valid(claim.id)
  <2>1. claim.reg \in Registrations
    BY <1>v, <1>6, OwnerType DEF TypeOK
  <2>2. reg[claim.reg] = "on"
    <3>1. reg[claim.reg] # "new" /\ reg[claim.reg] # "off"
      BY <1>v, <1>6, <2>1, TurnMoves DEF GateIsFresh
    <3> QED BY <2>1, <3>1 DEF TypeOK, KernelTypeOK
  <2> QED BY <1>v, <1>2, <1>6, <1>8, <2>2 DEF Valid
<1>10. ~terminal /\ ~cancelled
  BY TurnMoves
<1> QED BY <1>1, <1>6, <1>8, <1>9, <1>10 DEF AdmissionIsRestored, Sticky

-----------------------------------------------------------------------------
(* The theorem.                                                            *)

\* The inductive invariant.
Inv == /\ TypeOK
       /\ LeaseIsCounted /\ GateIsClosed /\ ClaimIsIssued /\ DrainIsExclusive
       /\ DrainBinds /\ StageBinds /\ LeaseKeepsClaim
       /\ FinisherIsAlone /\ FinisherIsLive /\ StoredTerminalIsInstalled
       /\ TerminalCloses /\ NoMutationAcrossTerminal
       /\ GateIsFresh /\ AdmissionIsRestored

\* It holds initially, when nothing is claimed and no call is in progress ...
LEMMA InvInit == Init => Inv
<1> SUFFICES ASSUME Init PROVE Inv
  OBVIOUS
<1> USE GateAssumption
<1>1. TypeOK
  BY TypeInit
<1>2. /\ \A m \in Mutations : mut[m].pc = "idle"
      /\ \A f \in Finishers : fin[f].pc = "idle"
      /\ \A p \in Publishers : pub[p].pc = "idle"
  BY DEF Init, IdleMutation, IdleFinish, IdlePublish
<1>3. /\ "idle" \notin Leased /\ "idle" \notin Retained /\ "idle" \notin WithDrain
      /\ \A m \in Domains : m \in Mutations
  BY DEF Leased, Retained, WithDrain, Draining, Mutations
<1>4. claim.id = None /\ \A g \in Gates : gates[g] = NewGate
  BY DEF Init, NoClaim
<1>5. \A g \in Gates : /\ gates[g].admission = "Open" /\ gates[g].active = {}
                       /\ ~gates[g].drainer /\ ~gates[g].retiring
  BY <1>4 DEF NewGate
<1>6. ~stored /\ ~terminal /\ freshClaims = Claims /\ freshGates = Gates
  BY DEF Init
<1>7. LeaseIsCounted /\ LeaseKeepsClaim
  BY <1>2, <1>3 DEF LeaseIsCounted, LeaseKeepsClaim
<1>8. GateIsClosed /\ DrainIsExclusive /\ DrainBinds /\ StageBinds
  BY <1>2, <1>3, <1>5 DEF GateIsClosed, DrainIsExclusive, DrainBinds, StageBinds
<1>9. ClaimIsIssued /\ GateIsFresh
  BY <1>2, <1>3, <1>4, <1>6 DEF ClaimIsIssued, GateIsFresh
<1>10. FinisherIsAlone /\ FinisherIsLive
  BY <1>2, <1>3, <1>5 DEF FinisherIsAlone, FinisherIsLive
<1>11. StoredTerminalIsInstalled /\ TerminalCloses /\ NoMutationAcrossTerminal
  BY <1>2, <1>3, <1>6 DEF StoredTerminalIsInstalled, TerminalCloses, NoMutationAcrossTerminal
<1>12. AdmissionIsRestored
  BY <1>4 DEF AdmissionIsRestored, Valid
<1> QED BY <1>1, <1>7, <1>8, <1>9, <1>10, <1>11, <1>12 DEF Inv

\* ... and every step of a sequential client's system preserves it.
LEMMA InvNext == ASSUME ~Overlap, Inv, [Next]_vars PROVE Inv'
<1> USE DEF Inv
<1>1. TypeOK'
  BY TypeNext
<1>2. LeaseIsCounted' /\ GateIsClosed' /\ ClaimIsIssued' /\ DrainIsExclusive'
  BY LeaseNext, ClosedNext, IssuedNext, ExclusiveNext
<1>3. DrainBinds' /\ StageBinds' /\ LeaseKeepsClaim'
  BY DrainBindsNext, StageBindsNext, KeepsNext
<1>4. FinisherIsAlone' /\ FinisherIsLive'
  BY AloneNext, LiveNext
<1>5. StoredTerminalIsInstalled' /\ TerminalCloses' /\ NoMutationAcrossTerminal'
  BY InstalledNext, ClosesNext, AcrossNext
<1>6. GateIsFresh' /\ AdmissionIsRestored'
  BY <1>1, <1>2, FreshNext, RestoredNext
<1> QED BY <1>1, <1>2, <1>3, <1>4, <1>5, <1>6

\* With a client that publishes and ends a Turn one call after the other, the parts of
\* the invariant hold in every reachable state.
LEMMA InvHolds == ASSUME ~Overlap PROVE Spec => []Inv
<1>1. Inv /\ [Next]_vars => Inv'
  BY InvNext
<1> QED BY <1>1, InvInit, PTL DEF Spec

\* Retirement is deferred: a lease taken by a mutation or a terminal commit keeps the
\* claim and the gate it was taken under until it is dropped or the Turn is gone
\* (retire_claim, AgentMutationLease, reopen_drained_gate).
THEOREM LeasesKeepClaims == ASSUME ~Overlap PROVE Spec => []LeaseKeepsClaim
<1>1. Inv => LeaseKeepsClaim
  BY DEF Inv
<1> QED BY <1>1, InvHolds, PTL

\* The terminal fence: no terminal of the Turn is published or stored while a mutation
\* admitted before it is still running (drain_agent_mutations, retain_terminal_mutation).
THEOREM NoMutationSpansTerminal == ASSUME ~Overlap PROVE Spec => []NoMutationAcrossTerminal
<1>1. Inv => NoMutationAcrossTerminal
  BY DEF Inv
<1> QED BY <1>1, InvHolds, PTL

\* A terminal in the Store is removed from the resident Session or quarantines it,
\* also when the commit's answer was lost (reconcile_failed_ending, fail_session).
THEOREM StoredTerminalsAreInstalled == ASSUME ~Overlap PROVE Spec => []StoredTerminalIsInstalled
<1>1. Inv => StoredTerminalIsInstalled
  BY DEF Inv
<1> QED BY <1>1, InvHolds, PTL

\* A rejected or abandoned ending restores admission once its leases have drained
\* (TerminalMutationDrain::drop, AgentMutationLease::drop, reopen_drained_gate).
THEOREM AdmissionReturns == ASSUME ~Overlap PROVE Spec => []AdmissionIsRestored
<1>1. Inv => AdmissionIsRestored
  BY DEF Inv
<1> QED BY <1>1, InvHolds, PTL
=============================================================================
