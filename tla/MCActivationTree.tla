-------------------------- MODULE MCActivationTree --------------------------
(* ActivationTree on one chain: a root, its child and its grandchild.        *)
EXTENDS ActivationTree

MCSessions == {"root", "child", "grand"}

MCParent ==
    [s \in MCSessions |-> CASE s = "root" -> NoSession
                            [] s = "child" -> "root"
                            [] s = "grand" -> "child"]
=============================================================================
