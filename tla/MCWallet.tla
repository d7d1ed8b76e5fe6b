------------------------------ MODULE MCWallet ------------------------------
(* The finite instances of Wallet that TLC checks. *)
EXTENDS Wallet, TLC

CONSTANTS p1, p2, t1, s1, g1

MCAmount == [m \in Movement |-> IF m \in {t1, p1} THEN 2 ELSE 1]

HandlerSymmetry == Permutations(Handler)
=============================================================================
