----------------------------- MODULE MCCircles -----------------------------
(* The finite instances of Circles that TLC checks. *)
EXTENDS Circles, TLC

CONSTANTS ann, ben, cem

Everybody == << <<ann, ben>>, <<ben, cem>>, <<ann, cem>> >>

Apart    == [friends |-> 5, circles |-> 0, known |-> <<>>]
Together == [friends |-> 0, circles |-> 4, known |-> Everybody]
Mixed    == [friends |-> 1, circles |-> 2, known |-> Everybody]
Starts   == {Apart, Together, Mixed}

Symmetric == Permutations(User) \union Permutations(Request)
=============================================================================
