--------------------------- MODULE ClaimGateProofs ---------------------------
(***************************************************************************)
(* Proofs about ClaimGate, for any number of executors, claims, gates and  *)
(* calls.                                                                  *)
(***************************************************************************)
EXTENDS ClaimGate, TLAPS

-----------------------------------------------------------------------------
(* Types.                                                                  *)

\* A claimed Turn has a well-typed owner.
LEMMA OwnerType ==
  ASSUME KernelTypeOK, claim.id # None
  PROVE  claim \in Owners /\ claim.id \in Claims /\ claim.gate \in Gates
         /\ claim.reg \in Registrations
BY DEF KernelTypeOK, NoClaim, Owners

\* Every operation on a gate returns a gate.
LEMMA GateType ==
  ASSUME NEW gate \in GateStates
  PROVE  /\ Retire(gate) \in GateStates /\ Undrained(gate) \in GateStates
         /\ Close(gate) \in GateStates /\ AdmitTerminal(gate) \in GateStates
         /\ Fail(gate) \in GateStates
         /\ \A x : Leave(gate, x) \in GateStates
         /\ \A x \in Holders : Enter(gate, x) \in GateStates
BY DEF GateStates, Retire, Undrained, Close, AdmitTerminal, Fail, Leave, Enter, Admissions, Sticky

\* Reopening a drained gate keeps the types of what it assigns.
LEMMA ReopenType ==
  ASSUME KernelTypeOK, NEW gate \in GateStates, NEW g, Reopen(gate, g)
  PROVE  /\ gates' \in [Gates -> GateStates] /\ freshGates' \subseteq Gates
         /\ claim' \in Owners \cup {NoClaim} /\ queued' \in BOOLEAN
<1>1. gates' \in [Gates -> GateStates] /\ queued' \in BOOLEAN
  BY DEF Reopen, KernelTypeOK
<1>2. CASE CanReopen(gate, g)
  <2>1. claim \in Owners
    BY <1>2, OwnerType DEF CanReopen, Current
  <2>2. PICK h \in freshGates : freshGates' = freshGates \ {h}
                                /\ claim' = [claim EXCEPT !.gate = h]
    BY <1>2 DEF Reopen
  <2> QED BY <1>1, <2>1, <2>2 DEF KernelTypeOK, Owners
<1>3. CASE ~CanReopen(gate, g)
  BY <1>1, <1>3 DEF Reopen, KernelTypeOK
<1> QED BY <1>2, <1>3

\* So does the drop of a lease ...
LEMMA DropLeaseType ==
  ASSUME KernelTypeOK, NEW x, NEW g \in Gates, DropLease(x, g)
  PROVE  /\ gates' \in [Gates -> GateStates] /\ freshGates' \subseteq Gates
         /\ claim' \in Owners \cup {NoClaim} /\ queued' \in BOOLEAN
<1> DEFINE gate == Leave(gates[g], x)
<1>1. gate \in GateStates /\ Retire(gate) \in GateStates
  BY GateType DEF KernelTypeOK
<1>2. CASE gate.active = {} /\ gate.retiring
  BY <1>1, <1>2 DEF DropLease, KernelTypeOK
<1>3. CASE ~(gate.active = {} /\ gate.retiring)
  <2>1. Reopen(gate, g)
    BY <1>3 DEF DropLease
  <2> QED BY <1>1, <2>1, ReopenType
<1> QED BY <1>2, <1>3

\* ... and of a drain ...
LEMMA DropDrainType ==
  ASSUME KernelTypeOK, NEW g \in Gates, DropDrain(g)
  PROVE  /\ gates' \in [Gates -> GateStates] /\ freshGates' \subseteq Gates
         /\ claim' \in Owners \cup {NoClaim} /\ queued' \in BOOLEAN
<1>1. Undrained(gates[g]) \in GateStates
  BY GateType DEF KernelTypeOK
<1> QED BY <1>1, ReopenType DEF DropDrain

\* ... and retirement ...
LEMMA RetireType ==
  ASSUME KernelTypeOK, claim.id # None, RetireClaim
  PROVE  /\ gates' \in [Gates -> GateStates] /\ queued' \in BOOLEAN
         /\ claim' \in Owners \cup {NoClaim}
<1>1. claim.gate \in Gates /\ Retire(gates[claim.gate]) \in GateStates
  BY GateType, OwnerType DEF KernelTypeOK
<1> QED BY <1>1 DEF RetireClaim, KernelTypeOK

\* ... and failure.
LEMMA FailType ==
  ASSUME KernelTypeOK, NEW g \in Gates, FailSession(g)
  PROVE  gates' \in [Gates -> GateStates] /\ failed' \in BOOLEAN
<1>1. Fail(gates[g]) \in GateStates
  BY GateType DEF KernelTypeOK
<1> QED BY <1>1 DEF FailSession, KernelTypeOK

\* Every variable has its type initially ...
LEMMA TypeInit == Init => TypeOK
<1> SUFFICES ASSUME Init PROVE TypeOK
  OBVIOUS
<1>1. KernelTypeOK
  <2>1. gates \in [Gates -> GateStates]
    BY DEF Init, GateStates, NewGate, Admissions
  <2> QED BY <2>1 DEF Init, KernelTypeOK
<1>2. MutTypeOK
  BY DEF Init, MutTypeOK, MutStates, IdleMutation, Leased, Mutations
<1>3. FinTypeOK
  BY DEF Init, FinTypeOK, FinStates, IdleFinish, WithDrain, Draining, Retained
<1>4. PubTypeOK
  BY DEF Init, PubTypeOK, PubStates, IdlePublish
<1> QED BY <1>1, <1>2, <1>3, <1>4 DEF TypeOK

\* ... and keeps it in every step.
LEMMA TypeNext == TypeOK /\ [Next]_vars => TypeOK'
<1> SUFFICES ASSUME TypeOK, [Next]_vars PROVE TypeOK'
  OBVIOUS
<1> USE GateAssumption DEF TypeOK
<1>1. ASSUME NEW r \in Registrations, Register(r) PROVE TypeOK'
  <2>1. KernelTypeOK'
    BY <1>1 DEF Register, KernelTypeOK
  <2> QED BY <1>1, <2>1 DEF Register, MutTypeOK, FinTypeOK, PubTypeOK
<1>2. ASSUME NEW r \in Registrations, Deregister(r) PROVE TypeOK'
  <2>1. KernelTypeOK'
    <3>1. CASE live /\ claim.reg = r
      <4>1. claim.id # None /\ RetireClaim
        BY <1>2, <3>1 DEF Deregister, KernelTypeOK, NoClaim, Owners
      <4> QED BY <1>2, <4>1, RetireType DEF Deregister, KernelTypeOK
    <3>2. CASE ~(live /\ claim.reg = r)
      BY <1>2, <3>2 DEF Deregister, KernelTypeOK
    <3> QED BY <3>1, <3>2
  <2> QED BY <1>2, <2>1 DEF Deregister, MutTypeOK, FinTypeOK, PubTypeOK
<1>3. ASSUME NEW r \in Registrations, Claim(r) PROVE TypeOK'
  <2>1. KernelTypeOK'
    <3>1. claim' \in Owners \cup {NoClaim}
      BY <1>3 DEF Claim, KernelTypeOK, Owners
    <3> QED BY <1>3, <3>1 DEF Claim, KernelTypeOK
  <2> QED BY <1>3, <2>1 DEF Claim, MutTypeOK, FinTypeOK, PubTypeOK
<1>4. ASSUME Release PROVE TypeOK'
  <2>1. KernelTypeOK'
    BY <1>4, RetireType DEF Release, KernelTypeOK, Valid
  <2> QED BY <1>4, <2>1 DEF Release, MutTypeOK, FinTypeOK, PubTypeOK
<1>5. ASSUME Cancel PROVE TypeOK'
  <2>1. KernelTypeOK'
    BY <1>5 DEF Cancel, KernelTypeOK
  <2> QED BY <1>5, <2>1 DEF Cancel, MutTypeOK, FinTypeOK, PubTypeOK
<1>6. ASSUME FlushTerminal PROVE TypeOK'
  <2>1. KernelTypeOK'
    BY <1>6 DEF FlushTerminal, KernelTypeOK
  <2> QED BY <1>6, <2>1 DEF FlushTerminal, MutTypeOK, FinTypeOK, PubTypeOK
<1>7. ASSUME FlushFails PROVE TypeOK'
  <2>1. KernelTypeOK'
    BY <1>7 DEF FlushFails, KernelTypeOK
  <2> QED BY <1>7, <2>1 DEF FlushFails, MutTypeOK, FinTypeOK, PubTypeOK
<1>8. ASSUME Shutdown PROVE TypeOK'
  <2>1. KernelTypeOK'
    BY <1>8 DEF Shutdown, KernelTypeOK
  <2> QED BY <1>8, <2>1 DEF Shutdown, MutTypeOK, FinTypeOK, PubTypeOK
<1>9. ASSUME Quiesce PROVE TypeOK'
  <2>1. KernelTypeOK'
    BY <1>9 DEF Quiesce, KernelTypeOK
  <2> QED BY <1>9, <2>1 DEF Quiesce, MutTypeOK, FinTypeOK, PubTypeOK
<1>10. ASSUME NEW p \in Publishers, PublishStage(p) PROVE TypeOK'
  <2>1. KernelTypeOK'
    BY <1>10 DEF PublishStage, KernelTypeOK, kernel, Writers
  <2>2. PubTypeOK'
    BY <1>10, OwnerType DEF PublishStage, PubTypeOK, PubStates, MayStage, Valid
  <2> QED BY <1>10, <2>1, <2>2 DEF PublishStage, MutTypeOK, FinTypeOK
<1>11. ASSUME NEW p \in Publishers, PublishEnd(p) PROVE TypeOK'
  <2>1. KernelTypeOK'
    <3>1. claim' \in Owners \cup {NoClaim}
      <4>1. CASE Valid(pub[p].claim) /\ claim' = [claim EXCEPT !.gate = pub[p].staged]
        <5>1. claim \in Owners /\ pub[p].staged \in Gates
          BY <1>11, <4>1, OwnerType DEF Valid, PublishEnd, PubTypeOK
        <5> QED BY <4>1, <5>1 DEF Owners
      <4> QED BY <1>11, <4>1 DEF PublishEnd, KernelTypeOK
    <3> QED BY <1>11, <3>1 DEF PublishEnd, KernelTypeOK, kernel
  <2>2. PubTypeOK'
    BY <1>11 DEF PublishEnd, PubTypeOK, PubStates, IdlePublish
  <2> QED BY <1>11, <2>1, <2>2 DEF PublishEnd, MutTypeOK, FinTypeOK
<1>12. ASSUME NEW m \in Domains, DomainStage(m) PROVE TypeOK'
  <2>1. KernelTypeOK'
    BY <1>12 DEF DomainStage, KernelTypeOK, kernel, Writers
  <2>2. MutTypeOK'
    BY <1>12, OwnerType DEF DomainStage, MutTypeOK, MutStates, Leased, MayStage, Valid, IdleMutation, Mutations
  <2> QED BY <1>12, <2>1, <2>2 DEF DomainStage, FinTypeOK, PubTypeOK
<1>13. ASSUME NEW m \in Domains, DomainRefused(m) PROVE TypeOK'
  <2>1. KernelTypeOK'
    BY <1>13 DEF DomainRefused, KernelTypeOK, kernel
  <2>2. MutTypeOK'
    BY <1>13 DEF DomainRefused, MutTypeOK, MutStates, Leased, IdleMutation, Mutations
  <2> QED BY <1>13, <2>1, <2>2 DEF DomainRefused, FinTypeOK, PubTypeOK
<1>14. ASSUME NEW m \in Mutations, MutationAdmit(m) PROVE TypeOK'
  <2>1. KernelTypeOK'
    <3>1. claim.gate \in Gates /\ Enter(gates[claim.gate], m) \in GateStates
      BY <1>14, OwnerType, GateType DEF MutationAdmit, Admits, Valid, KernelTypeOK, Holders
    <3> QED BY <1>14, <3>1 DEF MutationAdmit, KernelTypeOK, kernel
  <2>2. MutTypeOK'
    <3>1. claim.id \in Claims /\ claim.gate \in Gates
      BY <1>14, OwnerType DEF MutationAdmit, Admits, Valid
    <3> QED BY <1>14, <3>1, ZenonT(60) DEF MutationAdmit, MutTypeOK, MutStates, Leased, Mutations
  <2> QED BY <1>14, <2>1, <2>2 DEF MutationAdmit, FinTypeOK, PubTypeOK
<1>15. ASSUME NEW m \in Mutations, MutationSpawn(m) PROVE TypeOK'
  <2>1. KernelTypeOK'
    BY <1>15 DEF MutationSpawn, KernelTypeOK, kernel
  <2>2. MutTypeOK'
    BY <1>15 DEF MutationSpawn, MutTypeOK, MutStates, Leased, Mutations
  <2> QED BY <1>15, <2>1, <2>2 DEF MutationSpawn, FinTypeOK, PubTypeOK
<1>16. ASSUME NEW m \in Mutations, MutationStore(m) PROVE TypeOK'
  <2>1. KernelTypeOK'
    BY <1>16 DEF MutationStore, KernelTypeOK, kernel
  <2>2. MutTypeOK'
    BY <1>16 DEF MutationStore, MutTypeOK, MutStates, Leased, Mutations
  <2> QED BY <1>16, <2>1, <2>2 DEF MutationStore, FinTypeOK, PubTypeOK
<1>17. ASSUME NEW m \in Mutations, DomainInstall(m) PROVE TypeOK'
  <2>1. KernelTypeOK'
    <3>1. mut[m].lease \in Gates /\ mut[m].staged \in Gates
      BY <1>17 DEF DomainInstall, MutTypeOK, Leased
    <3>2. CASE Current(mut[m].lease) /\ claim' = [claim EXCEPT !.gate = mut[m].staged]
               /\ UNCHANGED <<gates, failed>>
      <4>1. claim' \in Owners
        BY <3>1, <3>2, OwnerType DEF Current, Owners
      <4> QED BY <1>17, <3>2, <4>1 DEF DomainInstall, KernelTypeOK
    <3>3. CASE FailSession(mut[m].lease) /\ UNCHANGED claim
      BY <1>17, <3>1, <3>3, FailType DEF DomainInstall, KernelTypeOK
    <3> QED BY <1>17, <3>2, <3>3 DEF DomainInstall
  <2>2. MutTypeOK'
    BY <1>17 DEF DomainInstall, MutTypeOK, MutStates, Leased, Mutations
  <2> QED BY <1>17, <2>1, <2>2 DEF DomainInstall, FinTypeOK, PubTypeOK
<1>18. ASSUME NEW m \in Mutations, DomainUnknown(m) PROVE TypeOK'
  <2>1. KernelTypeOK'
    <3>1. mut[m].lease \in Gates
      BY <1>18 DEF DomainUnknown, MutTypeOK, Leased
    <3> QED BY <1>18, <3>1, FailType DEF DomainUnknown, KernelTypeOK
  <2>2. MutTypeOK'
    BY <1>18 DEF DomainUnknown, MutTypeOK, MutStates, Leased, Mutations
  <2> QED BY <1>18, <2>1, <2>2 DEF DomainUnknown, FinTypeOK, PubTypeOK
<1>19. ASSUME NEW m \in Mutations, MutationEnd(m) PROVE TypeOK'
  <2>1. KernelTypeOK'
    <3>1. mut[m].lease \in Gates
      BY <1>19 DEF MutationEnd, MutTypeOK, Leased
    <3> QED BY <1>19, <3>1, DropLeaseType DEF MutationEnd, KernelTypeOK
  <2>2. MutTypeOK'
    BY <1>19 DEF MutationEnd, MutTypeOK, MutStates, Leased, IdleMutation, Mutations
  <2> QED BY <1>19, <2>1, <2>2 DEF MutationEnd, FinTypeOK, PubTypeOK
<1>20. ASSUME NEW f \in Finishers, Drain(f) PROVE TypeOK'
  <2>1. KernelTypeOK'
    <3>1. claim.gate \in Gates /\ Close(gates[claim.gate]) \in GateStates
      BY <1>20, OwnerType, GateType DEF Drain, Valid, KernelTypeOK
    <3> QED BY <1>20, <3>1 DEF Drain, KernelTypeOK, kernel
  <2>2. FinTypeOK'
    BY <1>20, OwnerType DEF Drain, FinTypeOK, FinStates, WithDrain, Draining, Retained, Valid, IdleFinish
  <2> QED BY <1>20, <2>1, <2>2 DEF Drain, MutTypeOK, PubTypeOK
<1>21. ASSUME NEW f \in Finishers, Drained(f) PROVE TypeOK'
  <2>1. KernelTypeOK'
    BY <1>21 DEF Drained, KernelTypeOK, kernel
  <2>2. FinTypeOK'
    BY <1>21 DEF Drained, FinTypeOK, FinStates, WithDrain, Draining, Retained
  <2> QED BY <1>21, <2>1, <2>2 DEF Drained, MutTypeOK, PubTypeOK
<1>22. ASSUME NEW f \in Finishers, FinishAdmit(f) PROVE TypeOK'
  <2>1. KernelTypeOK'
    BY <1>22 DEF FinishAdmit, KernelTypeOK, kernel
  <2>2. FinTypeOK'
    BY <1>22 DEF FinishAdmit, FinTypeOK, FinStates, WithDrain, Draining, Retained
  <2> QED BY <1>22, <2>1, <2>2 DEF FinishAdmit, MutTypeOK, PubTypeOK
<1>23. ASSUME NEW f \in Finishers, FinishStage(f) PROVE TypeOK'
  <2>1. KernelTypeOK'
    BY <1>23 DEF FinishStage, KernelTypeOK, kernel
  <2>2. FinTypeOK'
    BY <1>23 DEF FinishStage, FinTypeOK, FinStates, WithDrain, Draining, Retained
  <2> QED BY <1>23, <2>1, <2>2 DEF FinishStage, MutTypeOK, PubTypeOK
<1>24. ASSUME NEW f \in Finishers, PublishTerminal(f) PROVE TypeOK'
  <2>1. KernelTypeOK'
    <3>1. fin[f].drain \in Gates /\ Undrained(gates[fin[f].drain]) \in GateStates
      BY <1>24, GateType DEF PublishTerminal, FinTypeOK, WithDrain, Draining, KernelTypeOK
    <3> QED BY <1>24, <3>1 DEF PublishTerminal, KernelTypeOK
  <2>2. FinTypeOK'
    BY <1>24 DEF PublishTerminal, FinTypeOK, FinStates, WithDrain, Draining, Retained, IdleFinish
  <2> QED BY <1>24, <2>1, <2>2 DEF PublishTerminal, MutTypeOK, PubTypeOK
<1>25. ASSUME NEW f \in Finishers, Retain(f) PROVE TypeOK'
  <2>1. KernelTypeOK'
    <3>1. claim.gate \in Gates /\ Enter(gates[claim.gate], f) \in GateStates
      BY <1>25, OwnerType, GateType DEF Retain, Valid, KernelTypeOK, Holders
    <3> QED BY <1>25, <3>1 DEF Retain, KernelTypeOK, kernel
  <2>2. FinTypeOK'
    <3>1. claim.gate \in Gates
      BY <1>25, OwnerType DEF Retain, Valid
    <3> QED BY <1>25, <3>1, ZenonT(60) DEF Retain, FinTypeOK, FinStates, WithDrain, Draining, Retained
  <2> QED BY <1>25, <2>1, <2>2 DEF Retain, MutTypeOK, PubTypeOK
<1>26. ASSUME NEW f \in Finishers, FinishSpawn(f) PROVE TypeOK'
  <2>1. KernelTypeOK'
    BY <1>26 DEF FinishSpawn, KernelTypeOK, kernel
  <2>2. FinTypeOK'
    BY <1>26 DEF FinishSpawn, FinTypeOK, FinStates, WithDrain, Draining, Retained
  <2> QED BY <1>26, <2>1, <2>2 DEF FinishSpawn, MutTypeOK, PubTypeOK
<1>27. ASSUME NEW f \in Finishers, FinishRefused(f) PROVE TypeOK'
  <2>1. KernelTypeOK'
    <3>1. fin[f].lease \in Gates
      BY <1>27 DEF FinishRefused, FinTypeOK, Retained
    <3> QED BY <1>27, <3>1, DropLeaseType DEF FinishRefused, KernelTypeOK
  <2>2. FinTypeOK'
    BY <1>27, ZenonT(60) DEF FinishRefused, FinTypeOK, FinStates, WithDrain, Draining, Retained
  <2> QED BY <1>27, <2>1, <2>2 DEF FinishRefused, MutTypeOK, PubTypeOK
<1>28. ASSUME NEW f \in Finishers, FinishAbandon(f) PROVE TypeOK'
  <2>1. KernelTypeOK'
    <3>1. fin[f].drain \in Gates
      BY <1>28 DEF FinishAbandon, FinTypeOK, WithDrain
    <3> QED BY <1>28, <3>1, DropDrainType DEF FinishAbandon, KernelTypeOK
  <2>2. FinTypeOK'
    BY <1>28 DEF FinishAbandon, FinTypeOK, FinStates, WithDrain, Draining, Retained, IdleFinish
  <2> QED BY <1>28, <2>1, <2>2 DEF FinishAbandon, MutTypeOK, PubTypeOK
<1>29. ASSUME NEW f \in Finishers, TerminalAdmit(f) PROVE TypeOK'
  <2>1. KernelTypeOK'
    <3>1. fin[f].drain \in Gates /\ AdmitTerminal(gates[fin[f].drain]) \in GateStates
      BY <1>29, GateType DEF TerminalAdmit, FinTypeOK, WithDrain, KernelTypeOK
    <3> QED BY <1>29, <3>1 DEF TerminalAdmit, KernelTypeOK, kernel
  <2>2. FinTypeOK'
    BY <1>29, ZenonT(60) DEF TerminalAdmit, FinTypeOK, FinStates, WithDrain, Draining, Retained
  <2> QED BY <1>29, <2>1, <2>2 DEF TerminalAdmit, MutTypeOK, PubTypeOK
<1>30. ASSUME NEW f \in Finishers, FinishStore(f) PROVE TypeOK'
  <2>1. KernelTypeOK'
    <3>1. fin[f].lease \in Gates
      BY <1>30 DEF FinishStore, FinTypeOK, Retained
    <3>2. gates' \in [Gates -> GateStates] /\ failed' \in BOOLEAN /\ stored' \in BOOLEAN
      BY <1>30, <3>1, FailType DEF FinishStore, KernelTypeOK
    <3> QED BY <1>30, <3>2 DEF FinishStore, KernelTypeOK
  <2>2. FinTypeOK'
    <3>1. PICK q \in {"installing", "failed"} : fin' = [fin EXCEPT ![f].pc = q]
      BY <1>30 DEF FinishStore
    <3> QED BY <1>30, <3>1 DEF FinishStore, FinTypeOK, FinStates, WithDrain, Draining, Retained
  <2> QED BY <1>30, <2>1, <2>2 DEF FinishStore, MutTypeOK, PubTypeOK
<1>31. ASSUME NEW f \in Finishers, FinishInstall(f) PROVE TypeOK'
  <2>1. KernelTypeOK'
    <3>1. fin[f].lease \in Gates /\ Leave(gates[fin[f].lease], f) \in GateStates
      BY <1>31, GateType DEF FinishInstall, FinTypeOK, Retained, KernelTypeOK
    <3> QED BY <1>31, <3>1 DEF FinishInstall, KernelTypeOK
  <2>2. FinTypeOK'
    BY <1>31 DEF FinishInstall, FinTypeOK, FinStates, WithDrain, Draining, Retained, IdleFinish
  <2> QED BY <1>31, <2>1, <2>2 DEF FinishInstall, MutTypeOK, PubTypeOK
<1>32. ASSUME NEW f \in Finishers, FinishEnd(f) PROVE TypeOK'
  <2>1. KernelTypeOK'
    <3>1. fin[f].lease \in Gates
      BY <1>32 DEF FinishEnd, FinTypeOK, Retained
    <3> QED BY <1>32, <3>1, DropLeaseType DEF FinishEnd, KernelTypeOK
  <2>2. FinTypeOK'
    BY <1>32 DEF FinishEnd, FinTypeOK, FinStates, WithDrain, Draining, Retained, IdleFinish
  <2> QED BY <1>32, <2>1, <2>2 DEF FinishEnd, MutTypeOK, PubTypeOK
<1>33. CASE UNCHANGED vars
  BY <1>33 DEF vars, KernelTypeOK, MutTypeOK, FinTypeOK, PubTypeOK
<1> QED
  BY <1>1, <1>2, <1>3, <1>4, <1>5, <1>6, <1>7, <1>8, <1>9, <1>10, <1>11, <1>12, <1>13, <1>14, <1>15, <1>16, <1>17, <1>18, <1>19, <1>20, <1>21, <1>22, <1>23, <1>24, <1>25, <1>26, <1>27, <1>28, <1>29, <1>30, <1>31, <1>32, <1>33
     DEF Next, MutationStep, FinishTask

\* Every variable of the gate protocol keeps its type, and every call in progress
\* has recorded the claim and the gates it works with, however the calls on a
\* claimed Turn interleave (mutation.rs, turn_state.rs, ending.rs).
THEOREM TypeCorrect == Spec => []TypeOK
BY TypeInit, TypeNext, PTL DEF Spec

-----------------------------------------------------------------------------
(* The claim queue.                                                        *)

\* Reopening replaces the gate of a claim and clears no claim.
LEMMA ReopenKeepsClaim ==
  ASSUME KernelTypeOK, NEW gate, NEW g, Reopen(gate, g), claim' = NoClaim
  PROVE  claim = NoClaim
<1>1. CASE CanReopen(gate, g)
  <2>1. claim.id # None /\ claim \in Owners
    BY <1>1, OwnerType DEF CanReopen, Current
  <2>2. PICK h \in freshGates : claim' = [claim EXCEPT !.gate = h]
    BY <1>1 DEF Reopen
  <2> QED BY <2>1, <2>2 DEF NoClaim, Owners
<1>2. CASE ~CanReopen(gate, g)
  BY <1>2 DEF Reopen
<1> QED BY <1>1, <1>2

\* The drop of a lease clears a claim only while it requeues the Turn.
LEMMA DropLeaseQueues ==
  ASSUME KernelTypeOK, NEW x, NEW g, DropLease(x, g), UNCHANGED <<live, terminal, failed>>,
         UnclaimedIsQueued
  PROVE  UnclaimedIsQueued'
<1> DEFINE gate == Leave(gates[g], x)
<1>1. CASE gate.active = {} /\ gate.retiring
  BY <1>1 DEF DropLease, UnclaimedIsQueued
<1>2. CASE ~(gate.active = {} /\ gate.retiring)
  <2>1. Reopen(gate, g)
    BY <1>2 DEF DropLease
  <2>2. claim' = NoClaim => claim = NoClaim
    BY <2>1, ReopenKeepsClaim
  <2> QED BY <2>1, <2>2 DEF Reopen, UnclaimedIsQueued
<1> QED BY <1>1, <1>2

\* No step strands a Turn outside the claim queue.
LEMMA QueueNext == TypeOK /\ UnclaimedIsQueued /\ [Next]_vars => UnclaimedIsQueued'
<1> SUFFICES ASSUME TypeOK, UnclaimedIsQueued, [Next]_vars PROVE UnclaimedIsQueued'
  OBVIOUS
<1>t. KernelTypeOK /\ MutTypeOK /\ PubTypeOK
  BY DEF TypeOK
<1>1. ASSUME NEW r \in Registrations, Deregister(r) \/ Claim(r) PROVE UnclaimedIsQueued'
  <2>1. CASE Deregister(r)
    BY <2>1 DEF Deregister, RetireClaim, UnclaimedIsQueued
  <2>2. CASE Claim(r) /\ Claimable
    <3>1. PICK c \in freshClaims, g \in freshGates : claim' = [id |-> c, reg |-> r, gate |-> g]
      BY <2>2 DEF Claim
    <3> QED BY <1>t, <3>1, GateAssumption DEF KernelTypeOK, NoClaim, UnclaimedIsQueued
  <2>3. CASE Claim(r) /\ ~Claimable
    BY <2>3 DEF Claim, Claimable, UnclaimedIsQueued
  <2> QED BY <1>1, <2>1, <2>2, <2>3
<1>2. CASE Release
  BY <1>2 DEF Release, RetireClaim, UnclaimedIsQueued
<1>3. ASSUME FlushTerminal \/ FlushFails \/ Quiesce PROVE UnclaimedIsQueued'
  BY <1>3 DEF FlushTerminal, FlushFails, Quiesce, UnclaimedIsQueued
<1>4. ASSUME NEW p \in Publishers, PublishEnd(p) PROVE UnclaimedIsQueued'
  <2>1. CASE Valid(pub[p].claim) /\ claim' = [claim EXCEPT !.gate = pub[p].staged]
    <3>1. claim'.id # None
      BY <1>t, <2>1, OwnerType DEF Valid, Owners
    <3> QED BY <3>1 DEF NoClaim, UnclaimedIsQueued
  <2> QED BY <1>4, <2>1 DEF PublishEnd, kernel, UnclaimedIsQueued
<1>5. ASSUME NEW m \in Mutations, DomainInstall(m) PROVE UnclaimedIsQueued'
  <2>1. CASE Current(mut[m].lease) /\ claim' = [claim EXCEPT !.gate = mut[m].staged]
    <3>1. claim'.id # None
      BY <1>t, <2>1, OwnerType DEF Current, Owners
    <3> QED BY <3>1 DEF NoClaim, UnclaimedIsQueued
  <2>2. CASE FailSession(mut[m].lease) /\ UNCHANGED claim
    BY <1>5, <2>2 DEF DomainInstall, FailSession, UnclaimedIsQueued
  <2> QED BY <1>5, <2>1, <2>2 DEF DomainInstall
<1>6. ASSUME NEW m \in Mutations, DomainUnknown(m) PROVE UnclaimedIsQueued'
  BY <1>6 DEF DomainUnknown, FailSession, UnclaimedIsQueued
<1>7. ASSUME NEW m \in Mutations, MutationEnd(m) PROVE UnclaimedIsQueued'
  BY <1>t, <1>7, DropLeaseQueues DEF MutationEnd
<1>8. ASSUME NEW f \in Finishers, FinishRefused(f) \/ FinishEnd(f) PROVE UnclaimedIsQueued'
  BY <1>t, <1>8, DropLeaseQueues DEF FinishRefused, FinishEnd
<1>9. ASSUME NEW f \in Finishers, FinishAbandon(f) PROVE UnclaimedIsQueued'
  <2>1. Reopen(Undrained(gates[fin[f].drain]), fin[f].drain)
    BY <1>9 DEF FinishAbandon, DropDrain
  <2>2. claim' = NoClaim => claim = NoClaim
    BY <1>t, <2>1, ReopenKeepsClaim
  <2> QED BY <1>9, <2>1, <2>2 DEF FinishAbandon, Reopen, UnclaimedIsQueued
<1>10. ASSUME NEW f \in Finishers, PublishTerminal(f) \/ FinishStore(f) \/ FinishInstall(f)
       PROVE UnclaimedIsQueued'
  BY <1>10 DEF PublishTerminal, FinishStore, FailSession, FinishInstall, UnclaimedIsQueued
<1>11. ASSUME UNCHANGED <<live, terminal, failed, claim, queued>> PROVE UnclaimedIsQueued'
  BY <1>11 DEF UnclaimedIsQueued
<1>12. ASSUME NEW r \in Registrations, Register(r) PROVE UnclaimedIsQueued'
  BY <1>11, <1>12 DEF Register
<1>13. ASSUME Cancel \/ Shutdown PROVE UnclaimedIsQueued'
  BY <1>11, <1>13 DEF Cancel, Shutdown
<1>14. ASSUME NEW p \in Publishers, PublishStage(p) PROVE UnclaimedIsQueued'
  BY <1>11, <1>14 DEF PublishStage, kernel
<1>15. ASSUME NEW m \in Domains, DomainStage(m) \/ DomainRefused(m) PROVE UnclaimedIsQueued'
  BY <1>11, <1>15 DEF DomainStage, DomainRefused, kernel
<1>16. ASSUME NEW m \in Mutations, MutationAdmit(m) \/ MutationSpawn(m) \/ MutationStore(m)
       PROVE UnclaimedIsQueued'
  BY <1>11, <1>16 DEF MutationAdmit, MutationSpawn, MutationStore, kernel
<1>17. ASSUME NEW f \in Finishers,
              \/ Drain(f) \/ Drained(f) \/ FinishAdmit(f) \/ FinishStage(f)
              \/ Retain(f) \/ FinishSpawn(f) \/ TerminalAdmit(f)
       PROVE UnclaimedIsQueued'
  BY <1>11, <1>17
     DEF Drain, Drained, FinishAdmit, FinishStage, Retain, FinishSpawn, TerminalAdmit, kernel
<1>18. CASE UNCHANGED vars
  BY <1>11, <1>18 DEF vars
<1> QED
  BY <1>1, <1>2, <1>3, <1>4, <1>5, <1>6, <1>7, <1>8, <1>9, <1>10, <1>12, <1>13, <1>14,
     <1>15, <1>16, <1>17, <1>18
     DEF Next, MutationStep, FinishTask

\* A Turn that is neither executed, terminal nor quarantined waits in the claim queue:
\* retiring a claim early, late or after a failed ending strands no Turn
\* (retire_claim, deregister_executor, release, the drop of a lease).
THEOREM NoTurnIsStranded == Spec => []UnclaimedIsQueued
<1>1. Init => UnclaimedIsQueued
  BY DEF Init, UnclaimedIsQueued
<1> QED BY <1>1, TypeCorrect, QueueNext, PTL DEF Spec
=============================================================================
