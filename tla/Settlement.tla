----------------------------- MODULE Settlement -----------------------------
(***************************************************************************)
(* What the payment subsystem promises, with every mechanism left out.     *)
(* The provider takes the money for a payment, and some time after that    *)
(* the side effects the payment was for (a contribution, an order, a       *)
(* wallet credit, ...) run exactly once.  Nothing is ever granted for      *)
(* money that was not taken.                                               *)
(***************************************************************************)
EXTENDS Naturals

CONSTANT Payment

VARIABLES
  charged,   \* payments the provider took the full amount for
  effects    \* how many times the side effects of a payment have run

vars == <<charged, effects>>

Init ==
  /\ charged = {}
  /\ effects = [p \in Payment |-> 0]

Charge(p) ==
  /\ charged' = charged \union {p}
  /\ UNCHANGED effects

Grant(p) ==
  /\ p \in charged
  /\ effects[p] = 0
  /\ effects' = [effects EXCEPT ![p] = 1]
  /\ UNCHANGED charged

Next == \E p \in Payment : Charge(p) \/ Grant(p)

Spec == Init /\ [][Next]_vars
=============================================================================
