------------------------------- MODULE Client -------------------------------
(* The mobile app between its person and the API: the stack of screens, React *)
(* Query's cache with its reads in flight, the calls that presses make and    *)
(* their retries, realtime events, the copy of the cache on disk, and signing *)
(* in and out (src/apps/mobile/src/lib and the screens of module Screens).    *)
(* The admin dashboard uses the same library in a browser; its pages run here *)
(* too, without its sessions.  What the screens and pages are is data: the    *)
(* tables of modules Screens and AdminPages, given to the constants.          *)
(*                                                                            *)
(* The API is one clock that ticks with every change; a view is as new as the *)
(* tick at which the API read it.  Navigation and React Query themselves are  *)
(* libraries, modelled by what the screens rely on.  A screen below the top   *)
(* of the stack stays mounted.                                                *)
EXTENDS Naturals, Sequences

CONSTANTS
  User,
  Nobody,
  Screen,      \* name |-> what the screen reads, waits for, calls, opens, ...
  Sidebar,     \* the pages that take the place of the one before
  Links,       \* where a push leads
  Owed,        \* <<screen, call, view>>: what a person expects to see anew
  Persisted,   \* the views that are written to disk
  Retries,     \* how often a failed mutation is repeated; the code has 3
  Start        \* where a run begins: the screen, the views held from earlier
               \* ones, and the budgets

None == <<>>

(* What is open while nobody is signed in, and the calls that charge money    *)
(* for a screen's one key.  Money sent with a wish is one of them; the wish   *)
(* itself has no key.                                                         *)
SignedOutScreens ==
  {"welcome", "sign-in", "sign-up", "verify", "forgot-password",
   "invite/[code]", "wishlist-share/[slug]"}
Charges == {"order place", "wish with money", "digital gift send"}

(* What the tables of screens have to keep.  Links lead to screens, and a     *)
(* press to a screen or to a word that says what becomes of the one on top.   *)
(* A charge carries its screen's key, and money comes with a wish.  A call    *)
(* marks old what it owes, which no screen shows to somebody who is signed    *)
(* out.                                                                       *)
ScreensAssumption ==
  /\ SignedOutScreens \cup {"home", "onboarding/birthday"} \cup Links
       \subseteq DOMAIN Screen
  /\ \A s \in DOMAIN Screen :
       /\ Screen[s].opens \subseteq DOMAIN Screen
       /\ \A p \in Screen[s].presses :
            /\ p.to \subseteq DOMAIN Screen
                           \cup {"stay", "back", "close", "enter", "out"}
            /\ p.call \in Charges => p.key = "visit"
            /\ p.call = "wish with money" => "wish send" \in p.also
            /\ p.also \cap Charges = {}
            /\ \A o \in Owed : o[1] = s /\ o[2] = p.call => o[3] \in p.old
  /\ \A s \in SignedOutScreens, o \in Owed : o[3] \notin Screen[s].reads

ASSUME ClientAssumption ==
  /\ Nobody \notin User
  /\ Retries \in Nat
  /\ \A s \in Start :
       /\ s.screen \in DOMAIN Screen
       /\ s.budget \in [{"opens", "doors", "taps", "presses", "events",
                         "losses", "ends"} -> Nat]
  /\ ScreensAssumption

VARIABLES
  who,         \* whose tokens the app holds, or Nobody
  leaving,     \* sign-out waits for POST /auth/logout
  ended,       \* how the last session ended: "no", "forced" or "torn"
  stack,       \* the screens, the one on top last; visit numbers an opening
  cache,       \* view |-> what queryClient holds of it
  fetch,       \* view |-> the read in flight
  jobs,        \* the calls pressed and not finished
  disk,        \* the part of the cache in AsyncStorage
  clock,       \* the API's changes so far
  done,        \* <<visit, call>> |-> how often the API has done it
  atApi,       \* requests with a key that were looked up and not yet written
  told,        \* view |-> the last change the app learnt of, for the properties
  budget       \* what a run may still do

clientVars ==
  <<who, leaving, ended, stack, cache, fetch, jobs, disk, clock, done, atApi,
    told, budget>>
served == <<done, atApi>>

-----------------------------------------------------------------------------
(* What is on the screen.                                                     *)

Top == stack[Len(stack)]
Mounted(st) == UNION {Screen[st[i].screen].reads : i \in 1..Len(st)}
Loaded == DOMAIN cache

(* The part of f on S; and f, with what it lacks taken from g (TLC's f @@ g,  *)
(* which the provers do not know).                                            *)
Only(f, S) == [v \in DOMAIN f \cap S |-> f[v]]
Over(f, g) ==
  [v \in DOMAIN f \cup DOMAIN g |-> IF v \in DOMAIN f THEN f[v] ELSE g[v]]

(* useQuery asks for a view; a read of it that is on its way is given up when *)
(* there is already something to show, and joined when there is not.          *)
AskedOf(reads, views) ==
  IF who = Nobody THEN reads
  ELSE Over([v \in views |-> [by |-> who, got |-> None]], reads)

(* A plausible slip (cancelRefetch: false): the read on its way is joined.    *)
AskedJoins(reads, views) == AskedOf(reads, views \ DOMAIN reads)

Asked(reads, views) ==
  AskedOf(reads, {v \in views : v \notin DOMAIN reads \/ v \in Loaded})

(* Mounting a screen: what is absent or old is asked for, and what is 30      *)
(* seconds old as well.                                                       *)
OnMount(s, aged) ==
  {v \in Screen[s].reads \ DOMAIN fetch :
     v \in Loaded => cache[v].old \/ aged}

(* invalidateQueries: what is held becomes old, what is mounted is read anew. *)
Aged(views) ==
  [v \in Loaded |-> IF v \in views THEN [cache[v] EXCEPT !.old = TRUE]
                    ELSE cache[v]]
Renewed(views) == Asked(fetch, views \cap Mounted(stack))

-----------------------------------------------------------------------------
(* The views that a page which is loaded, was open and still is must now show *)
(* at this tick.                                                              *)
Tell(views, tick, st) ==
  Over([v \in views \cap Loaded \cap Mounted(stack) \cap Mounted(st) |-> tick],
       Only(told, Mounted(st)))

-----------------------------------------------------------------------------
(* Moving between screens.                                                    *)

Openings(b) == b.opens + b.doors + b.taps
Visit(s) == [screen |-> s, visit |-> Openings(budget)]
Turns == IF who = Nobody THEN "doors" ELSE "opens"

(* The screens become st, the top one newly mounted.                          *)
Mount(st, aged) ==
  /\ stack' = st
  /\ fetch' = Asked(fetch, OnMount(st[Len(st)].screen, aged))
  /\ told' = Only(told, Mounted(st))

(* A page of the dashboard's sidebar takes the place of the one before.       *)
Onto(s) == IF s \in Sidebar THEN <<Visit(s)>> ELSE Append(stack, Visit(s))

Open(s, aged, turn) ==
  /\ budget[turn] > 0
  /\ Mount(Onto(s), aged)
  /\ budget' = [budget EXCEPT ![turn] = @ - 1]
  /\ UNCHANGED <<who, leaving, ended, cache, jobs, disk, clock, served>>

Follow(s, aged) ==
  /\ s \in Screen[Top.screen].opens \ ({Top.screen} \cap Sidebar)
  /\ who = Nobody => s \in SignedOutScreens
  /\ Open(s, aged, Turns)

(* listenForNotificationTaps: a push is tapped.                               *)
TapPush(s, aged) ==
  /\ who # Nobody
  /\ s \in Links
  /\ Open(s, aged, "taps")

(* A screen that closes; Notifications marks the count of unread ones old.    *)
Closed(st) == SubSeq(st, 1, Len(st) - 1)
GoBack ==
  /\ Len(stack) > 1
  /\ LET views == Screen[Top.screen].leaves
     IN  /\ cache' = Aged(views)
         /\ fetch' = Asked(fetch, views \cap Mounted(Closed(stack)))
  /\ stack' = Closed(stack)
  /\ told' = Only(told, Mounted(stack'))
  /\ UNCHANGED <<who, leaving, ended, jobs, disk, clock, served, budget>>

-----------------------------------------------------------------------------
(* A read: the API answers it at one tick, the answer arrives at a later one. *)

Answer(v) ==
  /\ v \in DOMAIN fetch
  /\ fetch[v].got = None
  /\ fetch' = [fetch EXCEPT ![v].got = <<clock>>]
  /\ UNCHANGED <<who, leaving, ended, stack, cache, jobs, disk, clock, served,
                 told, budget>>

Arrive(v) ==
  /\ v \in DOMAIN fetch
  /\ fetch[v].got # None
  /\ LET entry == [seen |-> fetch[v].got[1], by |-> fetch[v].by,
                   old |-> FALSE, how |-> "read"]
     IN  cache' = Over([w \in {v} |-> entry], cache)
  /\ fetch' = Only(fetch, DOMAIN fetch \ {v})
  /\ UNCHANGED <<who, leaving, ended, stack, jobs, disk, clock, served, told,
                 budget>>

(* The read and its two repetitions failed: what is shown stays, old or not.  *)
Fail(v) ==
  /\ v \in DOMAIN fetch
  /\ budget.losses > 0
  /\ fetch' = Only(fetch, DOMAIN fetch \ {v})
  /\ budget' = [budget EXCEPT !.losses = @ - 1]
  /\ UNCHANGED <<who, leaving, ended, stack, cache, jobs, disk, clock, served,
                 told>>

(* Somebody else changed something, and the event reaches the socket: of a    *)
(* room that a mounted screen joined, or of the person's own (a notification, *)
(* a payment, a delivery).                                                    *)
Rooms == UNION {Screen[stack[i].screen].hears : i \in 1..Len(stack)}
OwnEvents == {{"notifications", "unread-count"},
              {"group-gift", "orders", "wallet"}, {"order", "orders"}}
Hear(views) ==
  /\ budget.events > 0
  /\ who # Nobody
  /\ clock' = clock + 1
  /\ cache' = Aged(views)
  /\ fetch' = Renewed(views)
  /\ told' = Tell(views, clock', stack)
  /\ budget' = [budget EXCEPT !.events = @ - 1]
  /\ UNCHANGED <<who, leaving, ended, stack, jobs, disk, served>>

-----------------------------------------------------------------------------
(* A press: a call of the API, its repetitions, and what follows its answer.  *)

Pressing(job) == <<job.at.visit, job.press.call>>

Press(p, u) ==
  /\ budget.presses > 0
  /\ p \in Screen[Top.screen].presses
  /\ Screen[Top.screen].waits \subseteq Loaded
  /\ IF who = Nobody
     THEN /\ "enter" \in p.to
          /\ \A j \in jobs : "enter" \in j.press.to => j.by = u
     ELSE u = who
  /\ p.once => \A j \in jobs : Pressing(j) # <<Top.visit, p.call>>
  /\ jobs' = jobs \cup
       {[id |-> budget.presses, press |-> p, at |-> Top, by |-> u,
         left |-> IF p.retried THEN Retries ELSE 0, out |-> FALSE, tick |-> None]}
  /\ budget' = [budget EXCEPT !.presses = @ - 1]
  /\ UNCHANGED <<who, leaving, ended, stack, cache, fetch, disk, clock, served,
                 told>>

Times(k) == IF k \in DOMAIN done THEN done[k] ELSE 0
Doing(calls) == Over([k \in calls |-> Times(k) + 1], done)
Keyed(job) == job.press.key = "visit"

(* The API takes a call without a key: it does it once more.                  *)
Serve(job) ==
  /\ job \in jobs /\ job.tick = None /\ ~Keyed(job)
  /\ clock' = clock + 1
  /\ done' = Doing({Pressing(job)})
  /\ jobs' = (jobs \ {job}) \cup {[job EXCEPT !.tick = <<clock'>>]}
  /\ UNCHANGED <<who, leaving, ended, stack, cache, fetch, disk, told, budget,
                 atApi>>

(* It takes a call with a key: what the call does without it (the wish that   *)
(* comes with money) is done once more, and the key is looked up.             *)
LookUp(job) ==
  LET also == {<<job.at.visit, c>> : c \in job.press.also}
  IN  /\ job \in jobs /\ job.tick = None /\ Keyed(job) /\ ~job.out
      /\ clock' = IF also = {} THEN clock ELSE clock + 1
      /\ done' = Doing(also)
      /\ atApi' = atApi \cup
           {[id |-> job.id, left |-> job.left, key |-> Pressing(job),
             found |-> Pressing(job) \in DOMAIN done]}
      /\ jobs' = (jobs \ {job}) \cup {[job EXCEPT !.out = TRUE]}
      /\ UNCHANGED <<who, leaving, ended, stack, cache, fetch, disk, told,
                     budget>>

(* A plausible slip: no unique index, what the look-up found decides.         *)
NotFound(req) == ~req.found

(* The index on the key takes one row, whatever was looked up before.         *)
NewKey(req) == req.key \notin DOMAIN done

(* The row is written and the call answered; a call whose key was found gets  *)
(* the answer of the first; and one that another overtook between its look-up *)
(* and its write is refused.  An answer reaches the attempt it belongs to.    *)
Attempt(job, req) ==
  /\ job.id = req.id /\ job.left = req.left /\ Pressing(job) = req.key
  /\ job.tick = None
Commit(req) ==
  LET new == ~req.found /\ NewKey(req)
  IN  /\ req \in atApi
      /\ atApi' = atApi \ {req}
      /\ clock' = IF new THEN clock + 1 ELSE clock
      /\ done' = IF new THEN Doing({req.key}) ELSE done
      /\ jobs' = IF req.found \/ new
                 THEN {IF Attempt(j, req) THEN [j EXCEPT !.tick = <<clock'>>]
                       ELSE j : j \in jobs}
                 ELSE jobs
      /\ UNCHANGED <<who, leaving, ended, stack, cache, fetch, disk, told,
                     budget>>

(* No answer: the call or its answer was lost, or the API is still at it.  A  *)
(* mutation is repeated.                                                      *)
Repeat(job) ==
  /\ job \in jobs /\ job.left > 0
  /\ budget.losses > 0
  /\ jobs' = (jobs \ {job}) \cup
       {[job EXCEPT !.left = @ - 1, !.out = FALSE, !.tick = None]}
  /\ budget' = [budget EXCEPT !.losses = @ - 1]
  /\ UNCHANGED <<who, leaving, ended, stack, cache, fetch, disk, clock, served,
                 told>>

(* onError: refused by the API, or the last repetition was lost.              *)
GiveUp(job) ==
  /\ job \in jobs
  /\ ~job.press.anyway
  /\ \/ /\ job.tick = None
        /\ UNCHANGED budget
     \/ /\ job.left = 0 /\ budget.losses > 0
        /\ budget' = [budget EXCEPT !.losses = @ - 1]
  /\ jobs' = jobs \ {job}
  /\ cache' = Aged(job.press.err)
  /\ fetch' = Renewed(job.press.err)
  /\ UNCHANGED <<who, leaving, ended, stack, disk, clock, served, told>>

(* setQueryData: the answer is written over what is held.                     *)
Written(held, p, job) ==
  LET entry == [seen |-> job.tick[1], by |-> job.by, old |-> FALSE,
                how |-> "press"]
      into == (p.puts \cap DOMAIN held) \cup p.makes
  IN  Over([v \in into |-> entry], held)

(* Where the app goes: router.back and router.replace act on the screen that  *)
(* is on top when the answer comes, a drawer's close on its page's drawer.    *)
Goes(to, st, from) ==
  CASE to = "stay" -> st
    [] to = "close" -> IF Len(st) > 1 /\ st[Len(st)].screen = from
                       THEN Closed(st) ELSE st
    [] to = "back" -> IF Len(st) > 1 THEN Closed(st) ELSE st
    [] OTHER -> Append(Closed(st), Visit(to))

Succeed(job, to, aged) ==
  LET p == job.press
      moves == to \in DOMAIN Screen /\ (who = Nobody => to \in SignedOutScreens)
      st == IF who = Nobody /\ ~moves THEN stack
            ELSE Goes(to, stack, job.at.screen)
      owed == {o[3] : o \in {o \in Owed : /\ o[1] = job.at.screen
                                          /\ o[2] = p.call}}
      marked == Written(Aged(p.old), p, job)
  IN  /\ job \in jobs /\ job.tick # None
      /\ to \in p.to \ {"enter", "out"}
      /\ moves => budget[Turns] > 0
      /\ budget' = IF moves THEN [budget EXCEPT ![Turns] = @ - 1] ELSE budget
      /\ stack' = st
      /\ cache' = marked
      /\ fetch' = LET renewed == Renewed(p.old)
                  IN  IF moves
                      THEN Asked(renewed,
                             {v \in Screen[to].reads \ DOMAIN renewed :
                                v \in DOMAIN marked =>
                                  marked[v].old \/ aged})
                      ELSE renewed
      /\ told' = Tell(owed, job.tick[1], st)
      /\ jobs' = jobs \ {job}
      /\ UNCHANGED <<who, leaving, ended, disk, clock, served>>

-----------------------------------------------------------------------------
(* Sessions.                                                                  *)

(* The Gate leaves the screens for the welcome page, or for the home page;    *)
(* where it goes nothing of the earlier screens is open.                      *)
Alone(s) == <<Visit(s)>>

Enter(job, s) ==
  /\ job \in jobs /\ job.tick # None
  /\ "enter" \in job.press.to
  /\ s \in {"home", "onboarding/birthday"}
  /\ who' = job.by
  /\ jobs' = jobs \ {job}
  /\ stack' = Alone(s)
  /\ fetch' = Over([v \in OnMount(s, FALSE) |-> [by |-> job.by, got |-> None]],
                   fetch)
  /\ told' = None
  /\ UNCHANGED <<leaving, ended, cache, disk, clock, served, budget>>

(* Signing out asks the API to end the session first.                         *)
AskToLeave(job) ==
  /\ job \in jobs
  /\ "out" \in job.press.to
  /\ job.tick # None \/ job.press.anyway
  /\ jobs' = jobs \ {job}
  /\ leaving' = TRUE
  /\ UNCHANGED <<who, ended, stack, cache, fetch, disk, clock, served, told,
                 budget>>

(* A plausible slip: the tokens go and the queries stay.                      *)
SignOutKeepsTheQueries ==
  /\ leaving
  /\ leaving' = FALSE
  /\ who' = Nobody
  /\ ended' = "clearing"
  /\ stack' = Alone("welcome")
  /\ told' = None
  /\ UNCHANGED <<cache, fetch, jobs, disk, clock, served, budget>>

SignOut ==
  /\ leaving
  /\ leaving' = FALSE
  /\ who' = Nobody
  /\ cache' = None
  /\ fetch' = None
  /\ ended' = "clearing"
  /\ stack' = Alone("welcome")
  /\ told' = None
  /\ UNCHANGED <<jobs, disk, clock, served, budget>>

(* refreshSession was refused: the listener ends the session, the queries     *)
(* stay.                                                                      *)
EndSession ==
  /\ who # Nobody
  /\ budget.ends > 0
  /\ who' = Nobody
  /\ ended' = "forced"
  /\ stack' = Alone("welcome")
  /\ told' = None
  /\ budget' = [budget EXCEPT !.ends = @ - 1]
  /\ UNCHANGED <<leaving, cache, fetch, jobs, disk, clock, served>>

(* The persister writes at most every two seconds, some time after a change;  *)
(* a run without a restart to come needs no disk.                             *)
Persist ==
  /\ budget.ends > 0
  /\ disk # Only(cache, Persisted)
  /\ disk' = Only(cache, Persisted)
  /\ ended' = IF ended = "clearing" THEN "no" ELSE ended
  /\ UNCHANGED <<who, leaving, stack, cache, fetch, jobs, clock, served, told,
                 budget>>

(* The app is killed and started again: the refresh token brings the session  *)
(* back, the disk the queries.  Calls that were waiting are gone.             *)
Restart ==
  /\ budget.ends > 0
  /\ budget' = [budget EXCEPT !.ends = @ - 1]
  /\ leaving' = FALSE
  /\ stack' = Alone(IF who = Nobody THEN "welcome" ELSE "home")
  /\ cache' = disk
  /\ fetch' = IF who = Nobody THEN None
              ELSE [v \in {v \in Screen["home"].reads :
                             v \in DOMAIN disk => disk[v].old}
                    |-> [by |-> who, got |-> None]]
  /\ jobs' = {}
  /\ told' = None
  /\ ended' = IF ended = "clearing" THEN "torn" ELSE ended
  /\ UNCHANGED <<who, disk, clock, served>>

-----------------------------------------------------------------------------
ClientInit ==
  \E s \in Start, u \in User :
    /\ who = u
    /\ leaving = FALSE /\ ended = "no"
    /\ stack = <<[screen |-> s.screen, visit |-> Openings(s.budget) + 1]>>
    /\ cache = [v \in Screen[s.screen].reads \cup s.held |->
                  [seen |-> 0, by |-> u, old |-> FALSE, how |-> "read"]]
    /\ fetch = None /\ jobs = {} /\ disk = None
    /\ clock = 0 /\ done = None /\ atApi = {} /\ told = None
    /\ budget = s.budget

ClientNext ==
  \/ \E s \in Screen[Top.screen].opens, aged \in BOOLEAN : Follow(s, aged)
  \/ \E s \in Links, aged \in BOOLEAN : TapPush(s, aged)
  \/ GoBack
  \/ \E v \in DOMAIN fetch : Answer(v) \/ Arrive(v) \/ Fail(v)
  \/ \E views \in OwnEvents \cup {{v} : v \in Rooms} : Hear(views)
  \/ \E p \in Screen[Top.screen].presses, u \in User : Press(p, u)
  \/ \E req \in atApi : Commit(req)
  \/ \E j \in jobs : \/ Serve(j) \/ LookUp(j) \/ Repeat(j) \/ GiveUp(j)
                     \/ AskToLeave(j)
                     \/ \E to \in j.press.to, aged \in BOOLEAN :
                          Succeed(j, to, aged)
                     \/ \E s \in {"home", "onboarding/birthday"} : Enter(j, s)
  \/ SignOut
  \/ EndSession
  \/ Persist
  \/ Restart

ClientSpec == ClientInit /\ [][ClientNext]_clientVars

-----------------------------------------------------------------------------
(* Properties.                                                                *)

(* One opening of a screen that pays charges once at most, however often its  *)
(* button is pressed, however many answers are lost and however its requests  *)
(* overlap at the API; when the app has an answer, it has charged once; and   *)
(* money never goes without its wish, which is sent anew by each repetition   *)
(* (app/product/[id].tsx, wish/send.tsx, digital-gift/send.tsx).              *)
OneVisitOneCharge ==
  /\ \A k \in DOMAIN done : k[2] \in Charges => done[k] <= 1
  /\ \A j \in jobs :
       j.press.call \in Charges /\ j.tick # None => Times(Pressing(j)) = 1
  /\ \A k \in DOMAIN done :
       k[2] = "wish with money" => Times(<<k[1], "wish send">>) >= 1

(* A page that is open and loaded does not pass for fresh while it is older   *)
(* than a change the app learnt of, by the answer to its own call or by a     *)
(* realtime event: it is marked old, or newer.  A late answer written over    *)
(* the page (setQueryData of an RSVP) is not excluded; and a page that the    *)
(* answer itself opens may join a read that a closed one left on its way.     *)
NotBehind ==
  \A v \in DOMAIN told :
    \/ v \notin Loaded
    \/ cache[v].how = "press"
    \/ cache[v].old
    \/ cache[v].seen >= told[v]

(* What was read for one person is not there when another one is signed in,   *)
(* unless the API ended the session of the first or the app was killed before *)
(* the cleared cache reached the disk (auth.tsx signOut, query.tsx).          *)
NobodyElsesPages ==
  who # Nobody =>
    \A v \in Loaded : \/ cache[v].by = who
                      \/ cache[v].how = "press"
                      \/ ended \in {"forced", "torn"}
=============================================================================
