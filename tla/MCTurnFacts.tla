----------------------------- MODULE MCTurnFacts -----------------------------
(* TurnFacts with one Tool of every kind: a parallel-safe and an exclusive    *)
(* Callable, a coordinator, an application Tool and the report helper.        *)
EXTENDS TurnFacts, TLC

MCToolNames == {"read", "write", "run", "app", "report"}
MCRole ==
    [n \in MCToolNames |-> CASE n \in {"read", "write"} -> "callable"
                             [] n = "run" -> "coordinator"
                             [] OTHER -> "unavailable"]

IdSymmetry == Permutations(EffectIds) \cup Permutations(CallIds)
=============================================================================
