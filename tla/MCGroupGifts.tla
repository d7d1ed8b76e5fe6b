---------------------------- MODULE MCGroupGifts ----------------------------
(* The finite instances of GroupGifts that TLC checks. *)
EXTENDS GroupGifts, TLC

Symmetric == Permutations(Person) \union Permutations(Handler) \union Permutations(Key)

\* No request reads who the members are, and no property asks: states that
\* differ in them alone are one.
Seen == <<gift, shares, history, received, proc, highest>>
=============================================================================
