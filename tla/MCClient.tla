------------------------------ MODULE MCClient ------------------------------
(* The app at every screen; losses, events and sessions from some of them.   *)
EXTENDS Client, AdminPages, FiniteSets

CONSTANTS ann, ben

(* opens: links followed; doors: the same while nobody is signed in; taps:    *)
(* pushes tapped.                                                             *)
Still == [opens |-> 0, doors |-> 0, taps |-> 0, presses |-> 0, events |-> 0,
          losses |-> 0, ends |-> 0]
From(screens, held, may) ==
  [screen : screens, held : {held}, budget : {may}]

Moving == From(DOMAIN AppScreen, {},
               [Still EXCEPT !.opens = 1, !.doors = 1, !.presses = 1])
Losing == From(DOMAIN AppScreen, {}, [Still EXCEPT !.presses = 1, !.losses = 1])
Managing ==
  From(Nav, {}, [Still EXCEPT !.opens = 1, !.presses = 1, !.losses = 1])
Listening == {"home", "notifications", "orders", "wallet"}
             \cup {s \in DOMAIN AppScreen : Screen[s].hears # {}}
Hearing ==
  From(Listening, {},
       [Still EXCEPT !.presses = 2, !.events = 1, !.losses = 1])
  \cup From(Listening, {}, [Still EXCEPT !.taps = 1, !.events = 1])
Paying == From({"product/[id]", "wish/send", "digital-gift/send"}, {},
               [Still EXCEPT !.presses = 2, !.losses = 3])
Leaving == From({"profile"}, {}, [Still EXCEPT !.doors = 2, !.presses = 3])
Restarts == From({"settings/account"}, {"me", "home"},
                 [Still EXCEPT !.doors = 1, !.presses = 2, !.ends = 1])
Starts == Moving \cup Losing \cup Hearing \cup Paying \cup Leaving \cup Restarts
          \cup Managing

Symmetry == Permutations(User)
=============================================================================
