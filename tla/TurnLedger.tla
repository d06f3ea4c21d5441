----------------------------- MODULE TurnLedger -----------------------------
(***************************************************************************)
(* What a Session durably promises about its Turns, without saying how:    *)
(* a ledger of accepted Turns, the cancellations requested of them and     *)
(* their outcomes.  Turns end in the order of their acceptance, each once, *)
(* and Cancelled is the outcome of exactly the Turns whose cancellation    *)
(* was recorded before they ended.                                         *)
(*                                                                         *)
(* One step is one atomic Store commit: it may record several acceptances  *)
(* and cancellations, and at most one outcome.                             *)
(***************************************************************************)
EXTENDS Naturals, Sequences

CONSTANTS Turns, Outcomes

VARIABLES
  accepted,    \* Turns in acceptance order
  cancelled,   \* Turns with a recorded cancellation request
  ended        \* <<turn, outcome>> in the order the Turns ended

ledger == <<accepted, cancelled, ended>>

Extends(new, old) ==
  /\ Len(new) >= Len(old)
  /\ \A i \in DOMAIN old : new[i] = old[i]

OpenIn(acc, fin) == {acc[i] : i \in (Len(fin) + 1)..Len(acc)}

Init == accepted = <<>> /\ cancelled = {} /\ ended = <<>>

\* New Turns are accepted at most once.
AcceptTurns ==
  /\ Extends(accepted', accepted)
  /\ \A i, j \in DOMAIN accepted' : i # j => accepted'[i] # accepted'[j]

\* Only Turns that had not ended may become cancelled.
RequestCancellations ==
  /\ cancelled \subseteq cancelled'
  /\ cancelled' \ cancelled \subseteq OpenIn(accepted', ended)

\* The oldest open Turn may end, as Cancelled exactly when that was requested.
EndOldest ==
  \/ ended' = ended
  \/ /\ Extends(ended', ended)
     /\ Len(ended') = Len(ended) + 1
     /\ Len(ended') <= Len(accepted')
     /\ LET last == ended'[Len(ended')]
        IN /\ last.turn = accepted'[Len(ended')]
           /\ last.outcome \in Outcomes
           /\ (last.outcome = "Cancelled") <=> (last.turn \in cancelled')

Commit == AcceptTurns /\ RequestCancellations /\ EndOldest

Spec == Init /\ [][Commit]_ledger
=============================================================================
