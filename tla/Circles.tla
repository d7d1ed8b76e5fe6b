------------------------------ MODULE Circles ------------------------------
(***************************************************************************)
(* Circles of people around a birthday, on top of the friendships of       *)
(* module Friends: who is in a group gift (groupGift.service.ts, whose     *)
(* money is the subject of module GroupGifts), in a surprise               *)
(* (surprise.service.ts), at an event (event.service.ts), in the chat of   *)
(* each and in one-to-one chats (chat.service.ts), who listens to their    *)
(* realtime rooms (realtime/socket.ts), and who gets to know of what.      *)
(*                                                                         *)
(* A circle is the row of any of the four, with its conversation if it has *)
(* one.  People are invited one at a time.  What a request reads and       *)
(* cannot change any more (the organiser, the beneficiary) takes no step.  *)
(***************************************************************************)
EXTENDS Friends, Sequences

CONSTANTS
  Circle,  \* bound: gifts, surprises, events and one-to-one chats
  Start    \* bounds: operations on friendships and on circles that a
           \* behaviour has, and who is friends with whom at the start

ASSUME CirclesAssumption ==
  \A s \in Start : s.friends \in Nat /\ s.circles \in Nat /\ s.known \in Seq(User \X User)

VARIABLES
  circle,   \* the row, and its guests or members
  seat,     \* conversation_members, by circle
  room,     \* who listens to its conversation's room
  page,     \* who listens to the room of the gift or event itself
  heard,    \* who got to know of it
  insiders, \* who was ever let into it
  moves     \* bound: operations on circles that may still start

around == <<circle, seat, room, page, heard, insiders>>
vars == <<social, around, req, calls, moves>>

Kind == {"gift", "surprise", "event", "direct"}
NoCircle == [kind |-> "none", host |-> Nobody, for |-> Nobody, guests |-> {},
             paid |-> {}, chat |-> FALSE, revealed |-> FALSE, over |-> FALSE]

\* Where a request may stand between two awaits.
Step == {"idle", "look", "ask", "accept", "decline", "cancel", "mirror", "entry",
         "unlink mine", "unlink theirs", "redeem", "show", "reach", "cheer",
         "find chat", "new chat", "invite", "leave", "leave chat", "join page",
         "join chat", "say"}

TypeOK ==
  /\ FriendsTypeOK
  /\ req \in [Request -> [pc : Step, by : User \union {Nobody}, to : User \union {Nobody},
                          row : Row \union {0, Nobody} \union Invite \union Circle]]
  /\ calls \in Nat /\ moves \in Nat
  /\ circle \in [Circle -> [kind : Kind \union {"none"}, host : User \union {Nobody},
                            for : User \union {Nobody}, guests : SUBSET User,
                            paid : SUBSET User, chat : BOOLEAN,
                            revealed : BOOLEAN, over : BOOLEAN]]
  /\ seat \in [Circle -> [User -> {"never", "in", "left"}]]
  /\ \A f \in {room, page, heard, insiders} : f \in [Circle -> SUBSET User]

Init ==
  /\ \E s \in Start :
       /\ calls = s.friends /\ moves = s.circles /\ FriendsInit(s.known)
  /\ req = [r \in Request |-> Idle]
  /\ circle = [c \in Circle |-> NoCircle]
  /\ seat = [c \in Circle |-> [u \in User |-> "never"]]
  /\ room = [c \in Circle |-> {}] /\ page = room
  /\ heard = room /\ insiders = room

-----------------------------------------------------------------------------
Move == moves' = moves - 1 /\ UNCHANGED <<social, calls>>
MoveOnce == Move /\ UNCHANGED req
StartAt(r, pc, u, v, c) ==
  /\ Move
  /\ req' = [req EXCEPT ![r] = [pc |-> pc, by |-> u, to |-> v, row |-> c]]
Goes(r, pc) == req' = [req EXCEPT ![r].pc = pc] /\ UNCHANGED <<social, calls, moves>>
Ends(r)     == req' = [req EXCEPT ![r] = Idle] /\ UNCHANGED <<social, calls, moves>>

Is(c, kinds) == circle[c].kind \in kinds
Tell(c, S)   == heard' = [heard EXCEPT ![c] = @ \union S]
LetIn(c, S)  == insiders' = [insiders EXCEPT ![c] = @ \union S]

\* createMany with skipDuplicates: who left once keeps the row that says so.
Seated(c, S) ==
  [seat EXCEPT ![c] = [u \in User |-> IF u \in S /\ @[u] = "never" THEN "in" ELSE @[u]]]
InChat(c) == {u \in User : seat[c][u] = "in"}

-----------------------------------------------------------------------------
(***************************************************************************)
(* Starting one.                                                           *)
(***************************************************************************)
Create(c, k, u, b, guests, chat) ==
  /\ Is(c, {"none"})
  /\ circle' = [circle EXCEPT ![c] =
       [NoCircle EXCEPT !.kind = k, !.host = u, !.for = b, !.guests = guests,
                        !.chat = chat]]
  /\ seat' = IF chat THEN Seated(c, guests \union {u}) ELSE seat
  /\ Tell(c, guests \union {u}) /\ LetIn(c, guests \union {u})
  /\ UNCHANGED <<room, page>>

\* Someone on the organiser's calendar who has no account is Nobody.
OnCalendar(u, b) == b = Nobody \/ <<u, b>> \in linked

Planners(S, u, b) == (S \ {b}) \union {u}

CreateGroupGift(u, c, b, S, chat) ==
  /\ b # u /\ S \intersect {b} = {}
  /\ OnCalendar(u, b) \/ (~IsBlockedEitherWay(u, b) /\ AreFriends(u, b))
  /\ MoveOnce /\ Create(c, "gift", u, b, Planners(S, u, b), chat)

\* Anybody may be surprised.
CreateSurprise(u, c, b, S) ==
  /\ b # u /\ S \intersect {b} = {}
  /\ MoveOnce /\ Create(c, "surprise", u, b, Planners(S, u, b), TRUE)

Eligible(S, u) == {v \in S \ {u} : ~IsBlockedEitherWay(u, v)}

CreateEvent(u, c, S, chat) ==
  MoveOnce /\ Create(c, "event", u, Nobody, Eligible(S, u), chat)

\* createConversation: it looks for a chat of the two, then makes one.
CreateConversation(r, u, v) ==
  /\ u # v /\ ~IsBlockedEitherWay(u, v) /\ AreFriends(u, v)
  /\ StartAt(r, "find chat", u, v, Nobody)
  /\ UNCHANGED around
FindConversation(r) ==
  LET u == req[r].by
      found == {c \in Circle : Is(c, {"direct"}) /\ circle[c].guests = {u, req[r].to}}
  IN
  /\ At(r, "find chat")
  /\ \/ found = {} /\ Goes(r, "new chat") /\ UNCHANGED seat
     \/ \E c \in found : seat' = [seat EXCEPT ![c][u] = "in"] /\ Ends(r)
  /\ UNCHANGED <<circle, room, page, heard, insiders>>
NewConversation(r) ==
  /\ At(r, "new chat") /\ Ends(r)
  /\ \E c \in Circle :
       Create(c, "direct", req[r].by, Nobody, {req[r].by, req[r].to}, TRUE)

-----------------------------------------------------------------------------
(***************************************************************************)
(* Letting people in.                                                      *)
(***************************************************************************)
Join(c, v) ==
  /\ circle' = [circle EXCEPT ![c].guests = @ \union {v}]
  /\ seat' = IF circle[c].chat THEN Seated(c, {v}) ELSE seat
  /\ Tell(c, {v}) /\ LetIn(c, {v})
  /\ UNCHANGED <<room, page>>

\* Slip: the organiser alone is left out of the list.
NotTheHost(c, v) == v # circle[c].host

Invitable(c, v) == v # circle[c].host /\ v # circle[c].for

InviteToGroupGift(c, v) ==
  Is(c, {"gift"}) /\ Invitable(c, v) /\ MoveOnce /\ Join(c, v)

AddSurpriseMembers(c, v) ==
  Is(c, {"surprise"}) /\ v # circle[c].for /\ MoveOnce /\ Join(c, v)

\* inviteGuests; the list of guests is read before the rows are written.
InviteGuests(r, c, v) ==
  /\ Is(c, {"event"}) /\ ~circle[c].over
  /\ v \in Eligible(User, circle[c].host) \ circle[c].guests
  /\ StartAt(r, "invite", circle[c].host, v, c)
  /\ UNCHANGED around
AddGuest(r) == At(r, "invite") /\ Ends(r) /\ Join(req[r].row, req[r].to)

\* A contribution makes its giver a member when it settles; contribute
\* refuses the beneficiary only.
ContributionSettles(c, v) ==
  /\ Is(c, {"gift"}) /\ v # circle[c].for /\ MoveOnce
  /\ circle' = [circle EXCEPT ![c].guests = @ \union {v}, ![c].paid = @ \union {v}]
  /\ Tell(c, {v}) /\ LetIn(c, {v})
  /\ UNCHANGED <<seat, room, page>>

-----------------------------------------------------------------------------
(***************************************************************************)
(* Leaving; the member's row and the seat in the chat are two writes.      *)
(***************************************************************************)
Leave(r, u, c) ==
  /\ Is(c, {"gift", "surprise"})
  /\ u # circle[c].host /\ u \notin circle[c].paid
  /\ StartAt(r, "leave", u, Nobody, c)
  /\ UNCHANGED around
LeaveRow(r) ==
  /\ At(r, "leave") /\ Goes(r, "leave chat")
  /\ circle' = [circle EXCEPT ![req[r].row].guests = @ \ {req[r].by}]
  /\ UNCHANGED <<seat, room, page, heard, insiders>>

Vacated(c, u) == [seat EXCEPT ![c][u] = IF @ = "in" THEN "left" ELSE @]

LeaveChat(r) ==
  /\ At(r, "leave chat") /\ Ends(r)
  /\ seat' = Vacated(req[r].row, req[r].by)
  /\ UNCHANGED <<circle, room, page, heard, insiders>>

RemoveGuest(c, v) ==
  /\ Is(c, {"event"}) /\ ~circle[c].over /\ v \in circle[c].guests /\ MoveOnce
  /\ circle' = [circle EXCEPT ![c].guests = @ \ {v}]
  /\ seat' = Vacated(c, v)
  /\ UNCHANGED <<room, page, heard, insiders>>

LeaveConversation(c, u) ==
  /\ u \in InChat(c) /\ MoveOnce
  /\ seat' = Vacated(c, u)
  /\ UNCHANGED <<circle, room, page, heard, insiders>>

CancelEvent(c) ==
  /\ Is(c, {"event"}) /\ ~circle[c].over /\ MoveOnce
  /\ circle' = [circle EXCEPT ![c].over = TRUE]
  /\ Tell(c, circle[c].guests \union page[c])
  /\ UNCHANGED <<seat, room, page, insiders>>

RevealGroupGift(c) ==
  /\ Is(c, {"gift"}) /\ ~circle[c].revealed /\ MoveOnce
  /\ circle' = [circle EXCEPT ![c].revealed = TRUE]
  /\ Tell(c, {circle[c].for} \ {Nobody})
  /\ UNCHANGED <<seat, room, page, insiders>>

MarkSurpriseRevealed(c) ==
  /\ Is(c, {"surprise"}) /\ ~circle[c].revealed /\ MoveOnce
  /\ circle' = [circle EXCEPT ![c].revealed = TRUE]
  /\ UNCHANGED <<seat, room, page, heard, insiders>>

-----------------------------------------------------------------------------
(***************************************************************************)
(* Looking and listening.                                                  *)
(***************************************************************************)
Member(u, c) == u = circle[c].host \/ u \in circle[c].guests

\* loadForViewer, getSurprise and assertCanView; to the beneficiary a plan
\* does not exist until it is revealed.
MayLoad(u, c) ==
  \/ Is(c, {"event"}) /\ ~circle[c].over /\ Member(u, c)
  \/ /\ Is(c, {"gift", "surprise"})
     /\ u = circle[c].for => circle[c].revealed
     /\ \/ Member(u, c)
        \/ Is(c, {"gift"}) /\ u = circle[c].for

Load(u, c) ==
  /\ MayLoad(u, c) /\ MoveOnce
  /\ Tell(c, {u})
  /\ UNCHANGED <<circle, seat, room, page, insiders>>

\* subscribe: authorise reads the database, the socket joins afterwards.
SubscribePage(r, u, c) ==
  /\ Is(c, {"gift", "event"}) /\ MayLoad(u, c)
  /\ StartAt(r, "join page", u, Nobody, c)
  /\ UNCHANGED around

\* Slip: a name of a room is enough.
AnyChat(u, c) == circle[c].chat

MayListen(u, c) == u \in InChat(c)

SubscribeChat(r, u, c) ==
  /\ MayListen(u, c)
  /\ StartAt(r, "join chat", u, Nobody, c)
  /\ UNCHANGED around
JoinRoom(r) ==
  LET c == req[r].row  u == req[r].by IN
  /\ Ends(r)
  /\ \/ At(r, "join page") /\ page' = [page EXCEPT ![c] = @ \union {u}] /\ UNCHANGED room
     \/ At(r, "join chat") /\ room' = [room EXCEPT ![c] = @ \union {u}] /\ UNCHANGED page
  /\ UNCHANGED <<circle, seat, heard, insiders>>

\* The connection closes, or the screen unsubscribes; nothing else does.
Disconnect(u, c) ==
  /\ u \in room[c] \union page[c] /\ MoveOnce
  /\ room' = [room EXCEPT ![c] = @ \ {u}] /\ page' = [page EXCEPT ![c] = @ \ {u}]
  /\ UNCHANGED <<circle, seat, heard, insiders>>

\* updateGroupGift, updateEvent, applyRsvp: those who look at it are told.
UpdateCircle(c) ==
  /\ Is(c, {"gift", "event"}) /\ ~circle[c].over /\ MoveOnce
  /\ Tell(c, page[c])
  /\ UNCHANGED <<circle, seat, room, page, insiders>>

ListMessages(u, c) ==
  /\ u \in InChat(c) /\ MoveOnce
  /\ Tell(c, {u})
  /\ UNCHANGED <<circle, seat, room, page, insiders>>

\* In a one-to-one chat a block on whoever is still there refuses it.
SendMessage(r, u, c) ==
  /\ u \in InChat(c)
  /\ Is(c, {"direct"}) => \A v \in InChat(c) : ~IsBlockedEitherWay(u, v)
  /\ StartAt(r, "say", u, Nobody, c)
  /\ UNCHANGED around

\* The message is stored and reaches the room and, by notification, the chat.
Say(r) ==
  LET c == req[r].row IN
  /\ At(r, "say") /\ Ends(r)
  /\ Tell(c, room[c] \union InChat(c))
  /\ UNCHANGED <<circle, seat, room, page, insiders>>

-----------------------------------------------------------------------------
Free == {r \in Request : req[r] = Idle}

StartCircle ==
  \E u \in User, c \in {c \in Circle : Is(c, {"none"})}, S \in SUBSET User :
    \/ \E b \in User \union {Nobody} :
         \/ \E chat \in BOOLEAN : CreateGroupGift(u, c, b, S, chat)
         \/ CreateSurprise(u, c, b, S)
    \/ \E chat \in BOOLEAN : CreateEvent(u, c, S, chat)

UseCircle ==
  \E c \in {c \in Circle : ~Is(c, {"none"})} :
    \/ \E v \in User :
         \/ InviteToGroupGift(c, v) \/ AddSurpriseMembers(c, v)
         \/ ContributionSettles(c, v) \/ RemoveGuest(c, v)
         \/ LeaveConversation(c, v) \/ Load(v, c) \/ Disconnect(v, c)
         \/ ListMessages(v, c)
    \/ \E r \in Free, v \in User :
         \/ InviteGuests(r, c, v) \/ Leave(r, v, c) \/ SubscribePage(r, v, c)
         \/ SubscribeChat(r, v, c) \/ SendMessage(r, v, c)
    \/ CancelEvent(c) \/ RevealGroupGift(c) \/ MarkSurpriseRevealed(c)
    \/ UpdateCircle(c)

Proceed(r) ==
  \/ FindConversation(r) \/ NewConversation(r) \/ AddGuest(r) \/ LeaveRow(r)
  \/ LeaveChat(r) \/ JoinRoom(r) \/ Say(r)

CirclesNext ==
  \/ moves > 0 /\ (StartCircle \/ UseCircle)
  \/ moves > 0 /\ \E r \in Free, u, v \in User : CreateConversation(r, u, v)
  \/ \E r \in Request : Proceed(r)

Next ==
  \/ FriendsNext /\ UNCHANGED <<around, moves>>
  \/ CirclesNext

Spec == Init /\ [][Next]_vars

-----------------------------------------------------------------------------
(***************************************************************************)
(* Properties.                                                             *)
(***************************************************************************)
Plan(c) == Is(c, {"gift", "surprise"})

\* The person a gift or a surprise is for, as far as its row knows, is never
\* one of its members, never in its chat and never in its chat's room; nobody
\* tells that person of it, and no page of it is open there, before it is
\* revealed.
PlanningIsHidden ==
  \A c \in Circle : Plan(c) =>
    LET b == circle[c].for IN
    /\ b \notin circle[c].guests \union InChat(c) \union room[c]
    /\ b \in heard[c] \union page[c] => circle[c].revealed

\* Only people who were let into a circle at some time ever get to know of
\* it, by its page, its messages or its rooms, the one it is for excepted;
\* two people talk to each other only after both agreed to be friends.
OnlyInsidersHear ==
  \A c \in Circle :
    /\ heard[c] \subseteq insiders[c] \union {circle[c].for}
    /\ room[c] \subseteq insiders[c]
    /\ Is(c, {"direct"}) => \A u, v \in insiders[c] : u # v => Consent(u, v)
=============================================================================
