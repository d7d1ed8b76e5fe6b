--------------------------- MODULE MCReservations ---------------------------
(* The finite instances of Reservations that TLC checks. *)
EXTENDS Reservations, TLC

CONSTANTS p1, p2, o1

MCBuyer  == o1 :> p1
MCWanted == o1 :> 2

RequestSymmetry == Permutations(Request)
=============================================================================
