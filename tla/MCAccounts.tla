----------------------------- MODULE MCAccounts -----------------------------
(* The finite instances of Accounts that TLC checks. *)
EXTENDS Accounts, TLC

Symmetric == Permutations(Request)
=============================================================================
