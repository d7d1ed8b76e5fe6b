------------------------------ MODULE Friends ------------------------------
(***************************************************************************)
(* Friendships, blocks and what they open (friend.service.ts,              *)
(* access.service.ts, parts of user.service.ts, auth.service.ts,           *)
(* birthday.service.ts, global.service.ts, memory.service.ts and           *)
(* wishlist.service.ts): requests and their answers, invitations, the      *)
(* calendar entry each friend gets on the other's calendar, who may see    *)
(* what somebody shares, and who may be congratulated by strangers.        *)
(*                                                                         *)
(* A request is a record in req; its steps lie between the awaits of the   *)
(* code, and most of them write a row by its id whatever it has become     *)
(* since it was read.  A request may die at any step.                      *)
(***************************************************************************)
EXTENDS Integers, FiniteSets

CONSTANTS
  User,     \* active accounts
  MaxRows,  \* bound: rows of friendships ever made
  Invite,   \* bound: rows of invites
  Request,  \* requests that run concurrently
  Cap,      \* people one may cheer in a day before strangers are out of reach
  Nobody    \* no user, no row

ASSUME FriendsAssumption ==
  /\ IsFiniteSet(User) /\ Cap \in Nat /\ MaxRows \in Nat
  /\ Nobody \notin User \union Invite

VARIABLES
  row,      \* friendships
  linked,   \* <<owner, friend>>: a linked entry on the owner's calendar
  blocked,  \* <<blocker, blocked>>
  shares,   \* what each person set: visibility, and celebrateGlobally
  invite,   \* rows of invites
  req,      \* requests in progress
  calls,    \* bound: operations that may still start
  saw,      \* <<viewer, owner>>: what the owner shares was shown
  reached,  \* <<from, to>>: a cheer, a wish or a digital gift arrived
  agreed,   \* <<u, v>>: u asked v, answered yes, or gave or took an invitation
  shared,   \* who ever shared with everyone, and who ever asked for cheers
  passed    \* pairs that a request or an invitation led past a block

social == <<row, linked, blocked, shares, invite, saw, reached, agreed, shared, passed>>

Row == 1 .. MaxRows
Pair(u, v) == {u, v}
Pairs == {Pair(u, v) : u, v \in User}
Visibility == {"public", "friends", "private"}
Idle == [pc |-> "idle", by |-> Nobody, to |-> Nobody, row |-> 0]

FriendsTypeOK ==
  /\ row \in [Row -> [from : User \union {Nobody}, to : User \union {Nobody},
                      is : {"none", "pending", "accepted", "declined", "cancelled", "gone"}]]
  /\ linked \union blocked \union saw \union reached \union agreed \subseteq User \X User
  /\ shares \in [User -> [seen : Visibility, cheers : BOOLEAN]]
  /\ invite \in [Invite -> [by : User \union {Nobody}, is : {"none", "open", "taken"},
                            entry : {"none", "manual", "linked"}]]
  /\ shared \in [seen : SUBSET User, cheers : SUBSET User]
  /\ passed \subseteq Pairs

NoRow == [from |-> Nobody, to |-> Nobody, is |-> "none"]

\* Who was friends with whom, and is on whose calendar, at the start.
FriendsInit(friends) ==
  /\ row = [i \in Row |-> IF i \in DOMAIN friends
                           THEN [from |-> friends[i][1], to |-> friends[i][2],
                                 is |-> "accepted"]
                           ELSE NoRow]
  /\ agreed = UNION {{<<p[1], p[2]>>, <<p[2], p[1]>>} :
                       p \in {friends[i] : i \in DOMAIN friends}}
  /\ linked = agreed
  /\ blocked = {} /\ saw = {} /\ reached = {}
  /\ shares = [u \in User |-> [seen |-> "friends", cheers |-> FALSE]]
  /\ invite = [k \in Invite |-> [by |-> Nobody, is |-> "none", entry |-> "none"]]
  /\ shared = [seen |-> {}, cheers |-> {}]
  /\ passed = {}

-----------------------------------------------------------------------------
(***************************************************************************)
(* What the code asks of the rows.                                         *)
(***************************************************************************)
Exists(i)  == row[i].is \notin {"none", "gone"}
Rows(u, v) == {i \in Row : Exists(i) /\ Pair(row[i].from, row[i].to) = Pair(u, v)}

Fresh(i)   == row[i].is = "none" /\ \A j \in 1 .. i - 1 : row[j].is # "none"

AreFriends(u, v) == u = v \/ \E i \in Rows(u, v) : row[i].is = "accepted"

\* Slip: only one's own blocks count.
BlockedByMe(u, v) == <<u, v>> \in blocked

IsBlockedEitherWay(u, v) == <<u, v>> \in blocked \/ <<v, u>> \in blocked

\* viewerContext and canSee.
CanSee(u, v) ==
  \/ u = v
  \/ /\ ~IsBlockedEitherWay(u, v)
     /\ \/ shares[v].seen = "public"
        \/ shares[v].seen = "friends" /\ AreFriends(u, v)

Begin(r, pc, u, v, i) ==
  /\ calls' = calls - 1
  /\ req' = [req EXCEPT ![r] = [pc |-> pc, by |-> u, to |-> v, row |-> i]]
Once == calls' = calls - 1 /\ UNCHANGED req

At(r, pc)  == req[r].pc = pc
Go(r, pc)  == req' = [req EXCEPT ![r].pc = pc] /\ UNCHANGED calls
End(r)     == req' = [req EXCEPT ![r] = Idle] /\ UNCHANGED calls
Both(u, v) == {<<u, v>>, <<v, u>>}

-----------------------------------------------------------------------------
(***************************************************************************)
(* Asking for a friendship.                                                *)
(***************************************************************************)
\* sendFriendRequest up to the row it finds between the two, in whichever
\* direction: one that waits for the asker is accepted instead.
SendFriendRequest(r, u, v) ==
  /\ u # v /\ ~IsBlockedEitherWay(u, v)
  /\ Begin(r, "look", u, v, 0)
  /\ UNCHANGED social

\* Slip: a second tap on a request of one's own accepts it.
AskedBefore(i, u) == row[i].is = "pending"

TheyAsked(i, u) == row[i].is = "pending" /\ row[i].from # u

Look(r) ==
  LET u == req[r].by  v == req[r].to IN
  /\ At(r, "look")
  /\ \/ /\ Rows(u, v) = {} /\ Go(r, "ask")
     \/ \E i \in Rows(u, v) :
          /\ req' = [req EXCEPT ![r] =
               IF TheyAsked(i, u) THEN [@ EXCEPT !.pc = "accept", !.row = i]
               ELSE IF row[i].is \in {"accepted", "pending"} THEN Idle
               ELSE [@ EXCEPT !.pc = "ask", !.row = i]]
          /\ UNCHANGED calls
  /\ UNCHANGED social

\* The row is created, or the old one is turned into this request; the
\* unique key on the two people, in this order, refuses a second one.
Ask(r) ==
  LET u == req[r].by  v == req[r].to  i == req[r].row IN
  /\ At(r, "ask")
  /\ \/ /\ \/ i \in Row /\ ~Exists(i)
           \/ \E j \in Rows(u, v) \ {i} : row[j].from = u
        /\ UNCHANGED <<row, agreed>>
     \/ /\ \A j \in Rows(u, v) \ {i} : row[j].from # u
        /\ \E k \in Row :
             /\ IF i = 0 THEN Fresh(k) ELSE k = i /\ Exists(i)
             /\ row' = [row EXCEPT ![k] = [from |-> u, to |-> v, is |-> "pending"]]
        /\ agreed' = agreed \union {<<u, v>>}
  /\ End(r)
  /\ UNCHANGED <<linked, blocked, shares, invite, saw, reached, shared, passed>>

RespondToFriendRequest(r, u, i) ==
  /\ row[i].is = "pending" /\ row[i].to = u
  /\ \E pc \in {"accept", "decline"} : Begin(r, pc, u, row[i].from, i)
  /\ UNCHANGED social

CancelFriendRequest(r, u, i) ==
  /\ row[i].is = "pending" /\ row[i].from = u
  /\ Begin(r, "cancel", u, row[i].to, i)
  /\ UNCHANGED social

\* The status is written by id; the row may be gone by then.
Update(r, pc, is) ==
  LET i == req[r].row IN
  /\ At(r, pc)
  /\ row' = IF Exists(i) THEN [row EXCEPT ![i].is = is] ELSE row
  /\ UNCHANGED <<linked, blocked, shares, invite, saw, reached, shared, passed>>

Decline(r) == Update(r, "decline", "declined") /\ End(r) /\ UNCHANGED agreed
Cancel(r)  == Update(r, "cancel", "cancelled") /\ End(r) /\ UNCHANGED agreed

\* acceptFriendship: the status first, the calendars in the next step.
Accept(r) ==
  /\ Update(r, "accept", "accepted")
  /\ IF Exists(req[r].row)
       THEN Go(r, "mirror") /\ agreed' = agreed \union {<<req[r].by, req[r].to>>}
       ELSE End(r) /\ UNCHANGED agreed

\* mirrorCalendarEntry, for those whose birthday is not private.
Mirrored(S) == linked \union {e \in S : shares[e[2]].seen # "private"}

MirrorBoth(r) ==
  /\ At(r, "mirror")
  /\ linked' = Mirrored(Both(req[r].by, req[r].to))
  /\ End(r)
  /\ UNCHANGED <<row, blocked, shares, invite, saw, reached, agreed, shared, passed>>

\* updateFriendship makes the entry if there is none.
UpdateFriendship(r, u, v) ==
  /\ u # v /\ AreFriends(u, v)
  /\ Begin(r, "entry", u, v, 0)
  /\ UNCHANGED social
MirrorOne(r) ==
  /\ At(r, "entry")
  /\ linked' = Mirrored({<<req[r].by, req[r].to>>})
  /\ End(r)
  /\ UNCHANGED <<row, blocked, shares, invite, saw, reached, agreed, shared, passed>>

-----------------------------------------------------------------------------
(***************************************************************************)
(* Ending one.                                                             *)
(***************************************************************************)
Without(S) ==
  [i \in Row |-> IF i \in S THEN [NoRow EXCEPT !.is = "gone"] ELSE row[i]]

\* removeFriend; the entries stay as contacts of their own, unlinked one by one.
RemoveFriend(r, u, v) ==
  LET S == {i \in Rows(u, v) : row[i].is = "accepted"} IN
  /\ S # {} /\ Begin(r, "unlink mine", u, v, 0)
  /\ row' = Without(S)
  /\ UNCHANGED <<linked, blocked, shares, invite, saw, reached, agreed, shared, passed>>

Unlink(r) ==
  /\ \/ /\ At(r, "unlink mine") /\ Go(r, "unlink theirs")
        /\ linked' = linked \ {<<req[r].by, req[r].to>>}
     \/ /\ At(r, "unlink theirs") /\ End(r)
        /\ linked' = linked \ {<<req[r].to, req[r].by>>}
  /\ UNCHANGED <<row, blocked, shares, invite, saw, reached, agreed, shared, passed>>

\* The transaction of blockUser.  Requests that looked for a block before it
\* go on.
BlockUser(u, v) ==
  /\ u # v /\ Once
  /\ blocked' = blocked \union {<<u, v>>}
  /\ row' = Without(Rows(u, v))
  /\ passed' = passed \union
       {Pair(u, v) : r \in {r \in Request : Pair(req[r].by, req[r].to) = Pair(u, v)
                                             /\ req[r].pc \in {"look", "ask"}}}
  /\ UNCHANGED <<linked, shares, invite, saw, reached, agreed, shared>>

UnblockUser(u, v) ==
  /\ <<u, v>> \in blocked /\ Once
  /\ blocked' = blocked \ {<<u, v>>}
  /\ UNCHANGED <<row, linked, shares, invite, saw, reached, agreed, shared, passed>>

-----------------------------------------------------------------------------
(***************************************************************************)
(* Invitations.                                                            *)
(***************************************************************************)
\* For somebody on the inviter's calendar, or for anybody.
CreateInvite(u, k) ==
  /\ invite[k].is = "none" /\ Once
  /\ \E entry \in {"none", "manual"} :
       invite' = [invite EXCEPT ![k] = [by |-> u, is |-> "open", entry |-> entry]]
  /\ UNCHANGED <<row, linked, blocked, shares, saw, reached, agreed, shared, passed>>

RedeemInvite(r, u, k) ==
  /\ invite[k].is = "open" /\ invite[k].by # u
  /\ Begin(r, "redeem", u, invite[k].by, k)
  /\ UNCHANGED social

\* Its transaction asks neither whether the invitation was taken meanwhile
\* nor whether one of the two blocked the other.
Redeem(r) ==
  LET u == req[r].by  v == req[r].to  k == req[r].row
      links == invite[k].entry = "manual"
  IN
  /\ At(r, "redeem") /\ End(r)
  /\ \/ links /\ <<v, u>> \in linked /\ UNCHANGED social
     \/ /\ ~(links /\ <<v, u>> \in linked)
        /\ invite' = [invite EXCEPT ![k].is = "taken",
                        ![k].entry = IF links THEN "linked" ELSE @]
        /\ linked' = IF links THEN linked \union {<<v, u>>} ELSE linked
        /\ \/ \E i \in Rows(u, v) : row' = [row EXCEPT ![i].is = "accepted"]
           \/ /\ Rows(u, v) = {}
              /\ \E i \in Row :
                   /\ Fresh(i)
                   /\ row' = [row EXCEPT ![i] = [from |-> v, to |-> u, is |-> "accepted"]]
        /\ agreed' = agreed \union Both(u, v)
        /\ passed' = IF IsBlockedEitherWay(u, v) THEN passed \union {Pair(u, v)}
                     ELSE passed
        /\ UNCHANGED <<blocked, shares, saw, reached, shared>>

-----------------------------------------------------------------------------
(***************************************************************************)
(* Sharing, looking and congratulating.                                    *)
(***************************************************************************)
UpdatePrivacy(u) ==
  /\ Once
  /\ \E seen \in Visibility, cheers \in BOOLEAN :
       /\ shares' = [shares EXCEPT ![u] = [seen |-> seen, cheers |-> cheers]]
       /\ shared' = [seen   |-> IF seen = "public" THEN shared.seen \union {u}
                                ELSE shared.seen,
                     cheers |-> IF cheers THEN shared.cheers \union {u}
                                ELSE shared.cheers]
  /\ UNCHANGED <<row, linked, blocked, invite, saw, reached, agreed, passed>>

\* A profile, a wishlist, an album or a gift history: the rule first, the
\* rows afterwards.
ReadTheirs(r, u, v) ==
  /\ u # v /\ CanSee(u, v)
  /\ Begin(r, "show", u, v, 0)
  /\ UNCHANGED social
Show(r) ==
  /\ At(r, "show") /\ End(r)
  /\ saw' = saw \union {<<req[r].by, req[r].to>>}
  /\ UNCHANGED <<row, linked, blocked, shares, invite, reached, agreed, shared, passed>>

\* cheer looks for a block, then assertCanReach asks who they are to each other.
Cheer(r, u, v) ==
  /\ u # v /\ ~IsBlockedEitherWay(u, v)
  /\ Begin(r, "reach", u, v, 0)
  /\ UNCHANGED social

\* Whoever asked for it is an adult with a verified account.
CanReach(u, v) ==
  \/ AreFriends(u, v)
  \/ shares[v].cheers /\ Cardinality({w \in User : <<u, w>> \in reached}) < Cap

AssertCanReach(r) ==
  /\ At(r, "reach")
  /\ IF CanReach(req[r].by, req[r].to) THEN Go(r, "cheer") ELSE End(r)
  /\ UNCHANGED social

CheerOn(r) ==
  /\ At(r, "cheer") /\ End(r)
  /\ reached' = reached \union {<<req[r].by, req[r].to>>}
  /\ UNCHANGED <<row, linked, blocked, shares, invite, saw, agreed, shared, passed>>

\* The process dies between two awaits.
Die(r) ==
  /\ req[r] # Idle /\ calls > 0 /\ calls' = calls - 1
  /\ req' = [req EXCEPT ![r] = Idle]
  /\ UNCHANGED social

StartFriends ==
  \/ \E r \in {r \in Request : req[r] = Idle} :
       \/ \E u, v \in User :
            \/ SendFriendRequest(r, u, v) \/ RemoveFriend(r, u, v)
            \/ UpdateFriendship(r, u, v) \/ ReadTheirs(r, u, v) \/ Cheer(r, u, v)
       \/ \E u \in User, i \in Row :
            RespondToFriendRequest(r, u, i) \/ CancelFriendRequest(r, u, i)
       \/ \E u \in User, k \in Invite : RedeemInvite(r, u, k)
  \/ \E u, v \in User : BlockUser(u, v) \/ UnblockUser(u, v)
  \/ \E u \in User, k \in Invite : CreateInvite(u, k)
  \/ \E u \in User : UpdatePrivacy(u)

FriendsNext ==
  \/ calls > 0 /\ StartFriends
  \/ \E r \in Request :
       \/ Look(r) \/ Ask(r) \/ Accept(r) \/ Decline(r) \/ Cancel(r)
       \/ MirrorBoth(r) \/ MirrorOne(r) \/ Unlink(r) \/ Redeem(r)
       \/ Show(r) \/ AssertCanReach(r) \/ CheerOn(r) \/ Die(r)

-----------------------------------------------------------------------------
(***************************************************************************)
(* Properties.                                                             *)
(***************************************************************************)
Consent(u, v) == Both(u, v) \subseteq agreed

\* Two people are friends, and one is linked on the other's calendar, only
\* after both agreed to it; what is shared with friends was shown, and cheers
\* came, only between such people, or where somebody asked everyone.
OnlyByConsent ==
  /\ \A i \in Row : row[i].is = "accepted" => Consent(row[i].from, row[i].to)
  /\ \A e \in linked : Consent(e[1], e[2])
  /\ \A e \in saw : Consent(e[1], e[2]) \/ e[2] \in shared.seen
  /\ \A e \in reached : Consent(e[1], e[2]) \/ e[2] \in shared.cheers

\* Of two people one of whom blocked the other, no friendship and no request
\* is left, unless a request that ran during the block, or an invitation,
\* made it: blockUser and the checks of everything else leave no other way.
BlockedStayApart ==
  \A e \in blocked : Rows(e[1], e[2]) # {} => Pair(e[1], e[2]) \in passed
=============================================================================
