------------------------------- MODULE Ledger -------------------------------
(***************************************************************************)
(* What a wallet promises, with locks, requests and retries left out: its  *)
(* balance changes only by postings, each posting happens at most once,    *)
(* and the balance never goes below zero.                                  *)
(***************************************************************************)
EXTENDS Integers

CONSTANTS
  Key,        \* idempotency keys of wallet_transactions
  Delta(_)    \* what the posting of a key adds to the balance

VARIABLES
  balance,
  posted      \* keys posted so far

vars == <<balance, posted>>

Init ==
  /\ balance = 0
  /\ posted = {}

Post(key) ==
  /\ key \notin posted
  /\ balance + Delta(key) >= 0
  /\ balance' = balance + Delta(key)
  /\ posted' = posted \union {key}

Next == \E key \in Key : Post(key)

Spec == Init /\ [][Next]_vars
=============================================================================
