--------------------------- MODULE MCFactPipeline ---------------------------
(* FactPipeline for TLC.  Direct Turns are interchangeable: no operation      *)
(* tells one from another except by its Facts.                                *)
EXTENDS FactPipeline, TLC

DirectTurnSymmetry == Permutations(Turns \ ActivationTurns)
=============================================================================
