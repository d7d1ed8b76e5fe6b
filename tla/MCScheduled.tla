---------------------------- MODULE MCScheduled ----------------------------
(* The finite instance of Scheduled that TLC checks. *)
EXTENDS Scheduled, FiniteSetsExt, TLC

CONSTANTS free, paid, wish, reminder,
          MaxCalls  \* bound: what is asked for, an item counting as two requests

MCDue == free :> 1 @@ paid :> 1 @@ wish :> 1 @@ reminder :> 1

\* Two items, or one item with two requests about it: openings that overlap, a
\* repetition of the call that sent it, a deletion.
Calls == 2 * Cardinality({i \in Item : row[i].is # "none"})
         + Cardinality(unsending \union {i \in Item : row[i].is = "deleted"})
         + MapThenSumSet(LAMBDA g : opening[g], Gift) + repeats[free]

FewCallsSpec == Init /\ [][Next /\ Calls' <= MaxCalls]_vars /\ Fairness
=============================================================================
