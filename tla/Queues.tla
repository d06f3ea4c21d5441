------------------------------- MODULE Queues -------------------------------
(***************************************************************************)
(* Vec::retain and VecDeque::retain: the entries of a queue that stay, in  *)
(* their order.                                                            *)
(***************************************************************************)
EXTENDS Naturals, Sequences, FiniteSets

(* The entries of a queue at the positions K, in their order.                *)
Position(K, n) == CHOOSE i \in K : Cardinality({j \in K : j <= i}) = n
Kept(queue, K) == [n \in 1..Cardinality(K) |-> queue[Position(K, n)]]

(* The entries of a queue that are in S.                                     *)
Only(queue, S) == Kept(queue, {i \in DOMAIN queue : queue[i] \in S})
=============================================================================
