----------------------------- MODULE MCPayments -----------------------------
(* The finite instances of Payments that TLC checks. *)
EXTENDS Payments, TLC

HandlerSymmetry == Permutations(Handler)

\* Two abandoned card payments would only repeat each other.
LiveInit == NotedInit /\ Cardinality({p \in Payment : method[p] = "CARD"}) <= 1

LiveSpec == LiveInit /\ [][NotedNext]_<<vars, crossed>> /\ Fairness
=============================================================================
