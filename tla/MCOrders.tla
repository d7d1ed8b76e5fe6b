------------------------------ MODULE MCOrders ------------------------------
(* The finite instances of Orders that TLC checks. *)
EXTENDS Orders, TLC

Symmetric == Permutations(Handler)
=============================================================================
