----------------------------- MODULE MCClaimGate -----------------------------
(* ClaimGate for model checking: identities of one kind are interchangeable. *)
EXTENDS ClaimGate, TLC

MCSymmetry ==
  UNION {Permutations(Registrations), Permutations(Claims), Permutations(Gates),
         Permutations(Agents), Permutations(Finishers)}
=============================================================================
