--------------------------- MODULE CirclesProofs ---------------------------
(***************************************************************************)
(* Proofs about Circles and the friendships below it, for any people, rows,*)
(* invitations, circles and requests, and any friendships at the start.    *)
(***************************************************************************)
EXTENDS Circles, TLAPS

\* Every friendship that waits or stands was asked for, or agreed to.
RowsAgreed ==
  \A i \in Row :
    /\ row[i].is = "pending" => <<row[i].from, row[i].to>> \in agreed
    /\ row[i].is = "accepted" => Consent(row[i].from, row[i].to)

InvitesAreSomebodys ==
  \A k \in Invite : invite[k].is # "none" => invite[k].by \in User

SharesRecorded ==
  \A u \in User :
    /\ shares[u].seen = "public" => u \in shared.seen
    /\ shares[u].cheers => u \in shared.cheers

\* The row a request found is still between the two, whatever it says now.
StillTheirs(q) ==
  /\ q.row \in Row /\ row[q.row].is # "none"
  /\ Exists(q.row) => Pair(row[q.row].from, row[q.row].to) = Pair(q.by, q.to)

InCircle(q) == q.row \in Circle /\ ~Is(q.row, {"none"})

\* What a request found out before its last await, as far as it goes on
\* relying on it.
Found(q) ==
  /\ q.pc \in {"look", "ask", "accept", "mirror", "entry", "unlink mine", "unlink theirs",
               "redeem", "show", "reach", "cheer", "find chat", "new chat"}
       => q.by \in User /\ q.to \in User
  /\ q.pc \in {"look", "ask"} /\ IsBlockedEitherWay(q.by, q.to)
       => Pair(q.by, q.to) \in passed
  /\ q.pc = "look" => q.row = 0
  /\ q.pc = "ask" => q.row = 0 \/ StillTheirs(q)
  /\ q.pc = "accept" => StillTheirs(q) /\ <<q.to, q.by>> \in agreed
  /\ q.pc \in {"decline", "cancel"} => q.row \in Row
  /\ q.pc \in {"mirror", "entry", "find chat", "new chat"} => Consent(q.by, q.to)
  /\ q.pc = "redeem" => q.row \in Invite /\ invite[q.row].is # "none"
  /\ q.pc = "show" => Consent(q.by, q.to) \/ q.to \in shared.seen
  /\ q.pc = "reach" => q.by # q.to
  /\ q.pc = "cheer" => Consent(q.by, q.to) \/ q.to \in shared.cheers

Admitted(q) ==
  /\ q.pc \in {"invite", "leave", "leave chat", "join page", "join chat", "say"}
       => InCircle(q)
  /\ q.pc = "invite" => Is(q.row, {"event"}) /\ q.to \in User
  /\ q.pc \in {"leave", "leave chat", "join page", "join chat"} => q.by \in User
  /\ q.pc = "join chat" => q.by \in insiders[q.row] \ {circle[q.row].for}
  /\ q.pc = "join page" =>
       /\ q.by \in insiders[q.row] \union {circle[q.row].for}
       /\ q.by = circle[q.row].for => circle[q.row].revealed

RequestsInOrder == \A r \in Request : Found(req[r]) /\ Admitted(req[r])

\* Nobody is near a circle that was not made yet.
Empty(c) ==
  /\ circle[c] = NoCircle /\ \A u \in User : seat[c][u] = "never"
  /\ room[c] = {} /\ page[c] = {} /\ heard[c] = {} /\ insiders[c] = {}

\* Whoever is in a circle now was let in once.
CirclesInOrder ==
  \A c \in Circle :
    /\ Is(c, {"none"}) => Empty(c)
    /\ ~Is(c, {"none"}) => circle[c].host \in insiders[c]
    /\ Is(c, {"event", "direct"}) => circle[c].for = Nobody
    /\ circle[c].guests \union InChat(c) \subseteq insiders[c]
    /\ page[c] \subseteq insiders[c] \union {circle[c].for}

IInv ==
  /\ TypeOK
  /\ RowsAgreed /\ InvitesAreSomebodys /\ SharesRecorded
  /\ RequestsInOrder /\ CirclesInOrder
  /\ OnlyByConsent /\ BlockedStayApart
  /\ PlanningIsHidden /\ OnlyInsidersHear

-----------------------------------------------------------------------------
(***************************************************************************)
(* Who touches what.                                                       *)
(***************************************************************************)
LEMMA UseCircleMoves == UseCircle => Move
<1> SUFFICES ASSUME NEW c \in Circle,
                    \/ \E v \in User :
                         \/ InviteToGroupGift(c, v) \/ AddSurpriseMembers(c, v)
                         \/ ContributionSettles(c, v) \/ RemoveGuest(c, v)
                         \/ LeaveConversation(c, v) \/ Load(v, c) \/ Disconnect(v, c)
                         \/ ListMessages(v, c)
                    \/ \E r \in Free, v \in User :
                         \/ InviteGuests(r, c, v) \/ Leave(r, v, c)
                         \/ SubscribePage(r, v, c) \/ SubscribeChat(r, v, c)
                         \/ SendMessage(r, v, c)
                    \/ CancelEvent(c) \/ RevealGroupGift(c) \/ MarkSurpriseRevealed(c)
                    \/ UpdateCircle(c)
             PROVE  Move
  BY ZenonT(60) DEF UseCircle
<1> HIDE DEF Move
<1>1. ASSUME NEW v \in User,
             \/ InviteToGroupGift(c, v) \/ AddSurpriseMembers(c, v)
             \/ ContributionSettles(c, v) \/ RemoveGuest(c, v)
             \/ LeaveConversation(c, v) \/ Load(v, c) \/ Disconnect(v, c)
             \/ ListMessages(v, c)
      PROVE  Move
  BY <1>1, Zenon DEF InviteToGroupGift, AddSurpriseMembers, ContributionSettles,
    RemoveGuest, LeaveConversation, Load, Disconnect, ListMessages, MoveOnce
<1>2. ASSUME NEW r \in Free, NEW v \in User,
             \/ InviteGuests(r, c, v) \/ Leave(r, v, c) \/ SubscribePage(r, v, c)
             \/ SubscribeChat(r, v, c) \/ SendMessage(r, v, c)
      PROVE  Move
  BY <1>2, Zenon DEF InviteGuests, Leave, SubscribePage, SubscribeChat, SendMessage, StartAt
<1>3. ASSUME CancelEvent(c) \/ RevealGroupGift(c) \/ MarkSurpriseRevealed(c)
               \/ UpdateCircle(c)
      PROVE  Move
  BY <1>3, Zenon DEF CancelEvent, RevealGroupGift, MarkSurpriseRevealed, UpdateCircle,
    MoveOnce
<1> QED
  BY <1>1, <1>2, <1>3

\* What happens around circles leaves friendships alone.
LEMMA CirclesKeepSocial == CirclesNext => UNCHANGED social
<1> SUFFICES ASSUME CirclesNext PROVE UNCHANGED social
  OBVIOUS
<1>1. CASE StartCircle
  BY <1>1 DEF StartCircle, CreateGroupGift, CreateSurprise, CreateEvent, MoveOnce, Move
<1>2. CASE UseCircle
  BY <1>2, UseCircleMoves DEF Move
<1>3. CASE \E r \in Free, u, v \in User : CreateConversation(r, u, v)
  BY <1>3 DEF CreateConversation, StartAt, Move
<1>4. CASE \E r \in Request : Proceed(r)
  BY <1>4 DEF Proceed, FindConversation, NewConversation, AddGuest, LeaveRow, LeaveChat,
    JoinRoom, Say, Goes, Ends
<1> QED
  BY <1>1, <1>2, <1>3, <1>4 DEF CirclesNext

-----------------------------------------------------------------------------
(***************************************************************************)
(* Circles, one at a time.                                                 *)
(***************************************************************************)
CircleRow ==
  [kind : Kind \union {"none"}, host : User \union {Nobody}, for : User \union {Nobody},
   guests : SUBSET User, paid : SUBSET User, chat : BOOLEAN, revealed : BOOLEAN,
   over : BOOLEAN]

AroundTyped ==
  /\ circle \in [Circle -> CircleRow]
  /\ seat \in [Circle -> [User -> {"never", "in", "left"}]]
  /\ room \in [Circle -> SUBSET User] /\ page \in [Circle -> SUBSET User]
  /\ heard \in [Circle -> SUBSET User] /\ insiders \in [Circle -> SUBSET User]

\* All that is claimed of one circle.
Sound(c) ==
  /\ Is(c, {"none"}) => Empty(c)
  /\ ~Is(c, {"none"}) => circle[c].host \in insiders[c]
  /\ Is(c, {"event", "direct"}) => circle[c].for = Nobody
  /\ circle[c].guests \union InChat(c) \subseteq insiders[c]
  /\ page[c] \subseteq insiders[c] \union {circle[c].for}
  /\ Plan(c) =>
       /\ circle[c].for \notin circle[c].guests \union InChat(c) \union room[c]
       /\ circle[c].for \in heard[c] \union page[c] => circle[c].revealed
  /\ heard[c] \subseteq insiders[c] \union {circle[c].for}
  /\ room[c] \subseteq insiders[c]
  /\ Is(c, {"direct"}) => \A u, v \in insiders[c] : u # v => Consent(u, v)

CirclesSound == AroundTyped /\ \A c \in Circle : Sound(c)

\* A circle keeps who it is for; it may become known to more people only.
Lasts(c) ==
  ~Is(c, {"none"}) =>
    /\ circle'[c].kind = circle[c].kind /\ circle'[c].host = circle[c].host
    /\ circle'[c].for = circle[c].for
    /\ circle[c].revealed => circle'[c].revealed
    /\ insiders[c] \subseteq insiders'[c]

LEMMA SoundCircles ==
  IInv <=> /\ TypeOK /\ RowsAgreed /\ InvitesAreSomebodys /\ SharesRecorded
           /\ RequestsInOrder /\ OnlyByConsent /\ BlockedStayApart /\ CirclesSound
<1>1. CirclesInOrder /\ PlanningIsHidden /\ OnlyInsidersHear <=> \A c \in Circle : Sound(c)
  BY Zenon DEF CirclesInOrder, PlanningIsHidden, OnlyInsidersHear, Sound
<1>2. TypeOK => AroundTyped
  BY DEF TypeOK, AroundTyped, CircleRow
<1> QED
  BY <1>1, <1>2, Zenon DEF IInv, CirclesSound

LEMMA CircleRowWith ==
  ASSUME NEW x \in CircleRow, NEW S \in SUBSET User, NEW T \in SUBSET User
  PROVE  /\ [x EXCEPT !.guests = S] \in CircleRow
         /\ [x EXCEPT !.guests = S, !.paid = T] \in CircleRow
         /\ [x EXCEPT !.over = TRUE] \in CircleRow
         /\ [x EXCEPT !.revealed = TRUE] \in CircleRow
BY DEF CircleRow

LEMMA VacatedSeats ==
  ASSUME NEW c \in Circle, NEW u \in User, AroundTyped
  PROVE  /\ Vacated(c, u) \in [Circle -> [User -> {"never", "in", "left"}]]
         /\ \A d \in Circle, v \in User :
              \/ Vacated(c, u)[d][v] = seat[d][v]
              \/ seat[d][v] = "in" /\ Vacated(c, u)[d][v] = "left"
BY DEF Vacated, AroundTyped

Same(d) ==
  /\ circle'[d] = circle[d] /\ seat'[d] = seat[d] /\ room'[d] = room[d]
  /\ page'[d] = page[d] /\ heard'[d] = heard[d] /\ insiders'[d] = insiders[d]

LEMMA SameIsSound ==
  ASSUME NEW d \in Circle, Sound(d), Same(d), agreed \subseteq agreed'
  PROVE  Sound(d)' /\ Lasts(d)
BY DEF Sound, Same, Empty, Is, InChat, Plan, Consent, Lasts

LEMMA CreateKeeps ==
  ASSUME CirclesSound, FriendsAssumption,
         NEW c \in Circle, NEW k \in Kind, NEW u \in User, NEW b \in User \union {Nobody},
         NEW S \in SUBSET User, NEW chat \in BOOLEAN,
         Create(c, k, u, b, S, chat), agreed' = agreed,
         b \notin S \union {u}, k \in {"event", "direct"} => b = Nobody,
         k = "direct" => \A x, y \in S \union {u} : x # y => Consent(x, y)
  PROVE  CirclesSound' /\ \A d \in Circle : Lasts(d)
<1> DEFINE n == [NoCircle EXCEPT !.kind = k, !.host = u, !.for = b, !.guests = S,
                                !.chat = chat]
<1>1. /\ n.kind = k /\ n.host = u /\ n.for = b /\ n.guests = S /\ n.chat = chat
      /\ n.revealed = FALSE
      /\ n \in CircleRow
  BY DEF NoCircle, CircleRow
<1>2. /\ circle' = [circle EXCEPT ![c] = n]
      /\ heard' = [heard EXCEPT ![c] = @ \union (S \union {u})]
      /\ insiders' = [insiders EXCEPT ![c] = @ \union (S \union {u})]
      /\ room' = room /\ page' = page
      /\ Is(c, {"none"})
  BY DEF Create, Tell, LetIn
<1> HIDE DEF n
<1>3. /\ seat' \in [Circle -> [User -> {"never", "in", "left"}]]
      /\ \A d \in Circle : d # c => seat'[d] = seat[d]
      /\ \A v \in User : seat'[c][v] = "in" => v \in S \union {u}
  <2>1. \A v \in User : seat[c][v] = "never"
    BY <1>2 DEF CirclesSound, Sound, Empty
  <2>2. seat' = seat \/ seat' = Seated(c, S \union {u})
    BY DEF Create
  <2> QED
    BY <2>1, <2>2 DEF Seated, CirclesSound, AroundTyped
<1>4. AroundTyped'
  BY <1>1, <1>2, <1>3 DEF AroundTyped, CirclesSound
<1>5. ASSUME NEW d \in Circle, d # c PROVE Sound(d)' /\ Lasts(d)
  <2>1. Same(d)
    BY <1>2, <1>3, <1>5 DEF CirclesSound, AroundTyped, Same
  <2> QED
    BY <2>1, SameIsSound DEF CirclesSound
<1>6. Sound(c)' /\ Lasts(c)
  <2>1. /\ circle'[c] = n /\ room'[c] = {} /\ page'[c] = {}
        /\ heard'[c] = S \union {u} /\ insiders'[c] = S \union {u}
    BY <1>2 DEF CirclesSound, AroundTyped, Sound, Empty
  <2>2. InChat(c)' \subseteq S \union {u}
    BY <1>3 DEF InChat
  <2>3. k # "none"
    BY DEF Kind
  <2>4. Lasts(c)
    BY <1>2 DEF Lasts
  <2> QED
    BY <2>1, <2>2, <2>3, <2>4, <1>1 DEF Sound, Is, Plan, Consent
<1> QED
  BY <1>4, <1>5, <1>6 DEF CirclesSound

\* Somebody joins, with a seat in the chat if there is one and S says so.
LEMMA JoinKeeps ==
  ASSUME CirclesSound, NEW c \in Circle, NEW v \in User, Is(c, {"gift", "surprise", "event"}),
         v # circle[c].for, Join(c, v), agreed' = agreed
  PROVE  CirclesSound' /\ \A d \in Circle : Lasts(d)
<1>1. /\ circle' = [circle EXCEPT ![c].guests = @ \union {v}]
      /\ heard' = [heard EXCEPT ![c] = @ \union {v}]
      /\ insiders' = [insiders EXCEPT ![c] = @ \union {v}]
      /\ room' = room /\ page' = page
  BY DEF Join, Tell, LetIn
<1>2. /\ seat' \in [Circle -> [User -> {"never", "in", "left"}]]
      /\ \A d \in Circle : d # c => seat'[d] = seat[d]
      /\ InChat(c)' \subseteq InChat(c) \union {v}
  <2>1. seat \in [Circle -> [User -> {"never", "in", "left"}]]
    BY DEF CirclesSound, AroundTyped
  <2>2. CASE seat' = seat
    BY <2>1, <2>2 DEF InChat
  <2>3. CASE seat' = Seated(c, {v})
    <3>1. seat' = [seat EXCEPT ![c] = [u \in User |->
                     IF u \in {v} /\ seat[c][u] = "never" THEN "in" ELSE seat[c][u]]]
      BY <2>3 DEF Seated
    <3> QED
      BY <2>1, <3>1 DEF InChat
  <2> QED
    BY <2>2, <2>3 DEF Join
<1>3. AroundTyped'
  <2> DEFINE n == [circle[c] EXCEPT !.guests = circle[c].guests \union {v}]
  <2>0. circle[c] \in CircleRow /\ circle[c].guests \union {v} \in SUBSET User
    BY DEF AroundTyped, CirclesSound, CircleRow
  <2>1. n \in CircleRow
    BY <2>0, CircleRowWith
  <2>2. circle' = [circle EXCEPT ![c] = n]
    BY <1>1
  <2> HIDE DEF n
  <2> QED
    BY <1>1, <1>2, <2>1, <2>2 DEF AroundTyped, CirclesSound
<1>4. ASSUME NEW d \in Circle, d # c PROVE Sound(d)' /\ Lasts(d)
  <2>1. Same(d)
    BY <1>1, <1>2, <1>4 DEF CirclesSound, AroundTyped, Same
  <2> QED
    BY <2>1, SameIsSound DEF CirclesSound
<1>5. Sound(c)' /\ Lasts(c)
  <2>1. /\ circle'[c].kind = circle[c].kind /\ circle'[c].for = circle[c].for
        /\ circle'[c].host = circle[c].host /\ circle'[c].revealed = circle[c].revealed
        /\ circle'[c].guests = circle[c].guests \union {v}
        /\ room'[c] = room[c] /\ page'[c] = page[c]
        /\ heard'[c] = heard[c] \union {v} /\ insiders'[c] = insiders[c] \union {v}
    BY <1>1 DEF CirclesSound, AroundTyped
  <2>2. Sound(c) /\ circle[c].kind \in {"gift", "surprise", "event"}
    BY DEF CirclesSound, Is
  <2> QED
    BY <2>1, <2>2, <1>2 DEF Sound, Is, Plan, Lasts
<1> QED
  BY <1>3, <1>4, <1>5 DEF CirclesSound

\* A contribution lets its giver in, without a seat in the chat.
LEMMA ContributionKeeps ==
  ASSUME CirclesSound, NEW c \in Circle, NEW v \in User, ContributionSettles(c, v),
         agreed' = agreed
  PROVE  CirclesSound' /\ \A d \in Circle : Lasts(d)
<1>1. /\ circle' = [circle EXCEPT ![c].guests = @ \union {v}, ![c].paid = @ \union {v}]
      /\ heard' = [heard EXCEPT ![c] = @ \union {v}]
      /\ insiders' = [insiders EXCEPT ![c] = @ \union {v}]
      /\ room' = room /\ page' = page /\ seat' = seat
      /\ Is(c, {"gift"}) /\ v # circle[c].for
  BY DEF ContributionSettles, Tell, LetIn
<1>2. AroundTyped'
  <2> DEFINE n == [circle[c] EXCEPT !.guests = circle[c].guests \union {v},
                                    !.paid = circle[c].paid \union {v}]
  <2>0. /\ circle[c] \in CircleRow /\ circle[c].guests \union {v} \in SUBSET User
        /\ circle[c].paid \union {v} \in SUBSET User
    BY DEF AroundTyped, CirclesSound, CircleRow
  <2>1. n \in CircleRow
    BY <2>0, CircleRowWith
  <2>2. circle' = [circle EXCEPT ![c] = n]
    BY <1>1
  <2> HIDE DEF n
  <2> QED
    BY <1>1, <2>1, <2>2 DEF AroundTyped, CirclesSound
<1>3. ASSUME NEW d \in Circle, d # c PROVE Sound(d)' /\ Lasts(d)
  <2>1. Same(d)
    BY <1>1, <1>3 DEF CirclesSound, AroundTyped, Same
  <2> QED
    BY <2>1, SameIsSound DEF CirclesSound
<1>4. Sound(c)' /\ Lasts(c)
  <2>1. /\ circle'[c].kind = circle[c].kind /\ circle'[c].for = circle[c].for
        /\ circle'[c].host = circle[c].host /\ circle'[c].revealed = circle[c].revealed
        /\ circle'[c].guests = circle[c].guests \union {v}
        /\ room'[c] = room[c] /\ page'[c] = page[c] /\ seat'[c] = seat[c]
        /\ heard'[c] = heard[c] \union {v} /\ insiders'[c] = insiders[c] \union {v}
    BY <1>1 DEF CirclesSound, AroundTyped
  <2>2. Sound(c) /\ circle[c].kind = "gift"
    BY <1>1 DEF CirclesSound, Is
  <2> QED
    BY <2>1, <2>2, <1>1 DEF Sound, Is, Plan, Lasts, InChat
<1> QED
  BY <1>2, <1>3, <1>4 DEF CirclesSound

\* Seats, guests and places in a room only go.
LEMMA LeavingKeeps ==
  ASSUME CirclesSound, AroundTyped',
         \A d \in Circle :
           /\ circle'[d].kind = circle[d].kind /\ circle'[d].for = circle[d].for
           /\ circle'[d].host = circle[d].host
           /\ circle[d].revealed => circle'[d].revealed
           /\ circle'[d].guests \subseteq circle[d].guests
           /\ Is(d, {"none"}) => circle'[d] = circle[d]
           /\ \A v \in User : \/ seat'[d][v] = seat[d][v]
                              \/ seat[d][v] = "in" /\ seat'[d][v] = "left"
           /\ room'[d] \subseteq room[d] /\ page'[d] \subseteq page[d],
         heard' = heard, insiders' = insiders, agreed' = agreed
  PROVE  CirclesSound' /\ \A d \in Circle : Lasts(d)
<1> SUFFICES ASSUME NEW d \in Circle PROVE Sound(d)' /\ Lasts(d)
  BY DEF CirclesSound
<1>1. Sound(d)
  BY DEF CirclesSound
<1>2. InChat(d)' \subseteq InChat(d)
  BY DEF InChat
<1>3. Lasts(d)
  BY DEF Lasts
<1>4. Is(d, {"none"}) => Empty(d)'
  BY <1>1 DEF Sound, Empty
<1> QED
  BY <1>1, <1>2, <1>3, <1>4 DEF Sound, Is, Plan, Consent

\* Somebody gets to know, joins a room or opens a page, who may.
LEMMA HearingKeeps ==
  ASSUME CirclesSound, AroundTyped', NEW c \in Circle,
         \A d \in Circle : d # c => Same(d),
         circle'[c] = circle[c] \/ circle'[c] = [circle[c] EXCEPT !.over = TRUE]
           \/ circle'[c] = [circle[c] EXCEPT !.revealed = TRUE],
         seat' = seat, insiders' = insiders, agreed' = agreed,
         room'[c] \subseteq insiders[c], circle[c].for \notin room'[c] \/ ~Plan(c),
         page'[c] \union heard'[c] \subseteq insiders[c] \union {circle[c].for},
         Plan(c) => (circle[c].for \in page'[c] \union heard'[c] => circle'[c].revealed),
         ~Is(c, {"none"})
  PROVE  CirclesSound' /\ \A d \in Circle : Lasts(d)
<1>1. ASSUME NEW d \in Circle, d # c PROVE Sound(d)' /\ Lasts(d)
  BY <1>1, SameIsSound DEF CirclesSound
<1>2. Sound(c)' /\ Lasts(c)
  <2>1. /\ circle'[c].kind = circle[c].kind /\ circle'[c].for = circle[c].for
        /\ circle'[c].host = circle[c].host /\ circle'[c].guests = circle[c].guests
        /\ circle[c].revealed => circle'[c].revealed
    BY DEF CirclesSound, AroundTyped, CircleRow
  <2>2. Sound(c)
    BY DEF CirclesSound
  <2> QED
    BY <2>1, <2>2 DEF Sound, Is, Plan, InChat, Lasts, Consent
<1> QED
  BY <1>1, <1>2 DEF CirclesSound

LEMMA UseCircleKeeps ==
  ASSUME CirclesSound, FriendsAssumption, UseCircle, agreed' = agreed
  PROVE  CirclesSound' /\ \A d \in Circle : Lasts(d)
<1>1. PICK c \in Circle :
        /\ ~Is(c, {"none"})
        /\ \/ \E v \in User :
                \/ InviteToGroupGift(c, v) \/ AddSurpriseMembers(c, v)
                \/ ContributionSettles(c, v) \/ RemoveGuest(c, v)
                \/ LeaveConversation(c, v) \/ Load(v, c) \/ Disconnect(v, c)
                \/ ListMessages(v, c)
           \/ \E r \in Free, v \in User :
                \/ InviteGuests(r, c, v) \/ Leave(r, v, c)
                \/ SubscribePage(r, v, c) \/ SubscribeChat(r, v, c)
                \/ SendMessage(r, v, c)
           \/ CancelEvent(c) \/ RevealGroupGift(c) \/ MarkSurpriseRevealed(c)
           \/ UpdateCircle(c)
  BY ZenonT(60) DEF UseCircle
<1>2. Sound(c) /\ AroundTyped
  BY DEF CirclesSound
<1>3. ASSUME NEW v \in User, InviteToGroupGift(c, v) \/ AddSurpriseMembers(c, v)
      PROVE  CirclesSound' /\ \A d \in Circle : Lasts(d)
  <2>1. Is(c, {"gift", "surprise", "event"}) /\ v # circle[c].for /\ Join(c, v)
    BY <1>3 DEF InviteToGroupGift, AddSurpriseMembers, Invitable, Is
  <2> QED
    BY <2>1, JoinKeeps
<1>4. ASSUME NEW v \in User, ContributionSettles(c, v)
      PROVE  CirclesSound' /\ \A d \in Circle : Lasts(d)
  BY <1>4, ContributionKeeps
<1>5. ASSUME NEW v \in User, RemoveGuest(c, v)
      PROVE  CirclesSound' /\ \A d \in Circle : Lasts(d)
  <2>1. /\ circle' = [circle EXCEPT ![c].guests = @ \ {v}]
        /\ seat' = Vacated(c, v)
        /\ room' = room /\ page' = page /\ heard' = heard /\ insiders' = insiders
    BY <1>5 DEF RemoveGuest
  <2>2. AroundTyped'
    <3> DEFINE n == [circle[c] EXCEPT !.guests = circle[c].guests \ {v}]
    <3>0. circle[c] \in CircleRow /\ circle[c].guests \ {v} \in SUBSET User
      BY <1>2 DEF AroundTyped, CircleRow
    <3>1. n \in CircleRow
      BY <3>0, CircleRowWith
    <3>2. circle' = [circle EXCEPT ![c] = n]
      BY <2>1
    <3> HIDE DEF n
    <3>3. seat' \in [Circle -> [User -> {"never", "in", "left"}]]
      BY <1>2, <2>1, VacatedSeats
    <3>4. circle' \in [Circle -> CircleRow]
      BY <1>2, <3>1, <3>2 DEF AroundTyped
    <3> QED
      BY <1>2, <2>1, <3>3, <3>4 DEF AroundTyped
  <2>3. \A d \in Circle : d # c => circle'[d] = circle[d]
    BY <1>2, <2>1 DEF AroundTyped
  <2>4. /\ circle'[c].kind = circle[c].kind /\ circle'[c].for = circle[c].for
        /\ circle'[c].host = circle[c].host /\ circle'[c].revealed = circle[c].revealed
        /\ circle'[c].guests \subseteq circle[c].guests
    BY <1>2, <2>1 DEF AroundTyped, CircleRow
  <2>5. ASSUME NEW d \in Circle
        PROVE  /\ circle'[d].kind = circle[d].kind /\ circle'[d].for = circle[d].for
               /\ circle'[d].host = circle[d].host
               /\ circle[d].revealed => circle'[d].revealed
               /\ circle'[d].guests \subseteq circle[d].guests
               /\ Is(d, {"none"}) => circle'[d] = circle[d]
    BY <1>1, <2>3, <2>4
  <2>6. \A d \in Circle, u \in User :
          seat'[d][u] = seat[d][u] \/ (seat[d][u] = "in" /\ seat'[d][u] = "left")
    BY <1>2, <2>1, VacatedSeats
  <2> QED
    BY <2>1, <2>2, <2>5, <2>6, LeavingKeeps
<1>6. ASSUME NEW v \in User, LeaveConversation(c, v) \/ Disconnect(v, c)
      PROVE  CirclesSound' /\ \A d \in Circle : Lasts(d)
  <2>1. /\ seat' = seat \/ seat' = Vacated(c, v)
        /\ UNCHANGED <<circle, heard, insiders>>
        /\ \/ UNCHANGED <<room, page>>
           \/ /\ room' = [room EXCEPT ![c] = @ \ {v}]
              /\ page' = [page EXCEPT ![c] = @ \ {v}]
    BY <1>6 DEF LeaveConversation, Disconnect
  <2>2. /\ room' \in [Circle -> SUBSET User] /\ page' \in [Circle -> SUBSET User]
        /\ \A d \in Circle : room'[d] \subseteq room[d] /\ page'[d] \subseteq page[d]
    <3>1. CASE UNCHANGED <<room, page>>
      BY <1>2, <3>1 DEF AroundTyped
    <3>2. CASE /\ room' = [room EXCEPT ![c] = @ \ {v}] /\ page' = [page EXCEPT ![c] = @ \ {v}]
      <4>1. /\ room \in [Circle -> SUBSET User] /\ page \in [Circle -> SUBSET User]
            /\ room[c] \ {v} \in SUBSET User /\ page[c] \ {v} \in SUBSET User
        BY <1>2 DEF AroundTyped
      <4> QED
        BY <3>2, <4>1
    <3> QED
      BY <2>1, <3>1, <3>2
  <2>3. /\ seat' \in [Circle -> [User -> {"never", "in", "left"}]]
        /\ \A d \in Circle, u \in User :
             seat'[d][u] = seat[d][u] \/ (seat[d][u] = "in" /\ seat'[d][u] = "left")
    <3>1. CASE seat' = seat
      BY <1>2, <3>1 DEF AroundTyped
    <3>2. CASE seat' = Vacated(c, v)
      BY <1>2, <3>2, VacatedSeats
    <3> QED
      BY <2>1, <3>1, <3>2
  <2>4. AroundTyped'
    BY <1>2, <2>1, <2>2, <2>3 DEF AroundTyped
  <2> QED
    BY <2>1, <2>2, <2>3, <2>4, LeavingKeeps
<1>7. ASSUME NEW v \in User, Load(v, c) \/ ListMessages(v, c)
      PROVE  CirclesSound' /\ \A d \in Circle : Lasts(d)
  <2>1. /\ heard' = [heard EXCEPT ![c] = @ \union {v}]
        /\ UNCHANGED <<circle, seat, room, page, insiders>>
        /\ MayLoad(v, c) \/ v \in InChat(c)
    BY <1>7 DEF Load, ListMessages, Tell
  <2>2. AroundTyped' /\ heard'[c] = heard[c] \union {v} /\ \A d \in Circle : d # c => Same(d)
    BY <2>1, <1>2 DEF AroundTyped, Same
  <2>3. /\ v \in insiders[c] \union {circle[c].for}
        /\ Plan(c) => (v = circle[c].for => circle[c].revealed)
    BY <1>1, <1>2, <2>1 DEF MayLoad, Member, Sound, Plan, Is
  <2> QED
    BY <1>1, <1>2, <2>1, <2>2, <2>3, HearingKeeps DEF Sound
<1>8. CASE CancelEvent(c) \/ UpdateCircle(c)
  <2>1. /\ \/ heard' = [heard EXCEPT ![c] = @ \union page[c]] /\ circle' = circle
           \/ /\ heard' = [heard EXCEPT ![c] = @ \union (circle[c].guests \union page[c])]
              /\ circle' = [circle EXCEPT ![c].over = TRUE]
        /\ UNCHANGED <<seat, room, page, insiders>>
        /\ Plan(c) => circle' = circle
    BY <1>8, Zenon DEF CancelEvent, UpdateCircle, Tell, Plan, Is
  <2>2. \/ circle' = circle
        \/ circle' = [circle EXCEPT ![c] = [circle[c] EXCEPT !.over = TRUE]]
    BY <2>1
  <2>0. /\ circle[c] \in CircleRow
        /\ [circle[c] EXCEPT !.over = TRUE] \in CircleRow
        /\ [circle[c] EXCEPT !.revealed = TRUE] \in CircleRow
    <3>1. circle[c] \in CircleRow
      BY <1>2 DEF AroundTyped
    <3> QED
      BY <3>1, CircleRowWith
  <2>3. circle' \in [Circle -> CircleRow] /\ heard' \in [Circle -> SUBSET User]
    <3>1. circle' \in [Circle -> CircleRow]
      BY <2>0, <2>1, <2>2, <1>2 DEF AroundTyped
    <3>2. /\ circle[c].guests \in SUBSET User /\ page[c] \in SUBSET User
          /\ heard[c] \in SUBSET User /\ heard \in [Circle -> SUBSET User]
          /\ {circle[c].for} \ {Nobody} \in SUBSET User
      BY <2>0, <1>2 DEF AroundTyped, CircleRow
    <3>3. heard' \in [Circle -> SUBSET User]
      BY <2>1, <3>2
    <3> QED
      BY <3>1, <3>3
  <2>6. AroundTyped' /\ \A d \in Circle : d # c => Same(d)
    BY <2>1, <2>2, <2>3, <1>2 DEF AroundTyped, Same
  <2>4. /\ heard'[c] \subseteq heard[c] \union circle[c].guests \union page[c]
        /\ circle'[c] = circle[c] \/ circle'[c] = [circle[c] EXCEPT !.over = TRUE]
    BY <2>1, <2>2, <1>2 DEF AroundTyped
  <2>5. Plan(c) => circle'[c] = circle[c]
    BY <2>1
  <2> QED
    BY <1>1, <1>2, <2>1, <2>6, <2>4, <2>5, HearingKeeps DEF Sound
<1>9. CASE RevealGroupGift(c) \/ MarkSurpriseRevealed(c)
  <2>1. /\ heard' = [heard EXCEPT ![c] = @ \union ({circle[c].for} \ {Nobody})]
             \/ heard' = heard
        /\ circle' = [circle EXCEPT ![c].revealed = TRUE]
        /\ UNCHANGED <<seat, room, page, insiders>>
    BY <1>9 DEF RevealGroupGift, MarkSurpriseRevealed, Tell
  <2>2. circle' = [circle EXCEPT ![c] = [circle[c] EXCEPT !.revealed = TRUE]]
    BY <2>1
  <2>0. /\ circle[c] \in CircleRow
        /\ [circle[c] EXCEPT !.over = TRUE] \in CircleRow
        /\ [circle[c] EXCEPT !.revealed = TRUE] \in CircleRow
    <3>1. circle[c] \in CircleRow
      BY <1>2 DEF AroundTyped
    <3> QED
      BY <3>1, CircleRowWith
  <2>3. circle' \in [Circle -> CircleRow] /\ heard' \in [Circle -> SUBSET User]
    <3>1. circle' \in [Circle -> CircleRow]
      BY <2>0, <2>1, <2>2, <1>2 DEF AroundTyped
    <3>2. /\ circle[c].guests \in SUBSET User /\ page[c] \in SUBSET User
          /\ heard[c] \in SUBSET User /\ heard \in [Circle -> SUBSET User]
          /\ {circle[c].for} \ {Nobody} \in SUBSET User
      BY <2>0, <1>2 DEF AroundTyped, CircleRow
    <3>3. heard' \in [Circle -> SUBSET User]
      BY <2>1, <3>2
    <3> QED
      BY <3>1, <3>3
  <2>6. AroundTyped' /\ \A d \in Circle : d # c => Same(d)
    BY <2>1, <2>2, <2>3, <1>2 DEF AroundTyped, Same
  <2>4. /\ heard'[c] \subseteq heard[c] \union {circle[c].for}
        /\ circle'[c] = [circle[c] EXCEPT !.revealed = TRUE]
        /\ circle'[c].revealed
    BY <2>1, <2>2, <1>2 DEF AroundTyped
  <2> QED
    BY <1>1, <1>2, <2>1, <2>6, <2>4, HearingKeeps DEF Sound
<1>10. ASSUME NEW r \in Free, NEW v \in User,
             \/ InviteGuests(r, c, v) \/ Leave(r, v, c) \/ SubscribePage(r, v, c)
             \/ SubscribeChat(r, v, c) \/ SendMessage(r, v, c)
      PROVE  CirclesSound' /\ \A d \in Circle : Lasts(d)
  <2>1. UNCHANGED around
    BY <1>10, Zenon DEF InviteGuests, Leave, SubscribePage, SubscribeChat, SendMessage
  <2>2. AroundTyped' /\ \A d \in Circle : Same(d)
    BY <2>1, <1>2 DEF around, AroundTyped, Same
  <2> QED
    BY <2>2, SameIsSound DEF CirclesSound
<1> QED
  BY <1>1, <1>3, <1>4, <1>5, <1>6, <1>7, <1>8, <1>9, <1>10

LEMMA StartCircleKeeps ==
  ASSUME CirclesSound, FriendsAssumption, StartCircle, agreed' = agreed
  PROVE  CirclesSound' /\ \A d \in Circle : Lasts(d)
<1>1. PICK u \in User, c \in Circle, S \in SUBSET User :
        \/ \E b \in User \union {Nobody} :
             \/ \E chat \in BOOLEAN : CreateGroupGift(u, c, b, S, chat)
             \/ CreateSurprise(u, c, b, S)
        \/ \E chat \in BOOLEAN : CreateEvent(u, c, S, chat)
  BY DEF StartCircle
<1>2. ASSUME NEW b \in User \union {Nobody}, NEW chat \in BOOLEAN, NEW k \in {"gift", "surprise"},
             b # u, S \intersect {b} = {}, Create(c, k, u, b, Planners(S, u, b), chat)
      PROVE  CirclesSound' /\ \A d \in Circle : Lasts(d)
  <2>1. Planners(S, u, b) \in SUBSET User /\ b \notin Planners(S, u, b) \union {u}
    BY <1>2 DEF Planners
  <2>2. k \in Kind /\ k \notin {"event", "direct"}
    BY DEF Kind
  <2> QED
    BY <1>2, <2>1, <2>2, CreateKeeps
<1>3. ASSUME NEW chat \in BOOLEAN, CreateEvent(u, c, S, chat)
      PROVE  CirclesSound' /\ \A d \in Circle : Lasts(d)
  <2>1. /\ Eligible(S, u) \in SUBSET User /\ Nobody \notin Eligible(S, u) \union {u}
        /\ "event" \in Kind
    BY DEF Eligible, FriendsAssumption, Kind
  <2> QED
    BY <1>3, <2>1, CreateKeeps DEF CreateEvent
<1> QED
  BY <1>1, <1>2, <1>3 DEF CreateGroupGift, CreateSurprise

LEMMA ProceedKeeps ==
  ASSUME CirclesSound, FriendsAssumption, NEW r \in Request, Found(req[r]), Admitted(req[r]),
         Proceed(r), agreed' = agreed
  PROVE  CirclesSound' /\ \A d \in Circle : Lasts(d)
<1> DEFINE c == req[r].row
<1>0. AroundTyped /\ \A d \in Circle : Sound(d)
  BY DEF CirclesSound
<1>1. CASE FindConversation(r)
  <2>1. req[r].by \in User
    BY <1>1 DEF FindConversation, At, Found
  <2>2. CASE UNCHANGED around
    BY <2>2, <1>0, SameIsSound DEF CirclesSound, AroundTyped, Same, around
  <2>3. ASSUME NEW d \in Circle, circle[d].kind = "direct", req[r].by \in circle[d].guests,
               seat' = [seat EXCEPT ![d][req[r].by] = "in"],
               UNCHANGED <<circle, room, page, heard, insiders>>
        PROVE  CirclesSound' /\ \A e \in Circle : Lasts(e)
    <3>1. AroundTyped' /\ \A e \in Circle : e # d => Same(e)
      BY <2>1, <2>3, <1>0 DEF AroundTyped, Same
    <3>2. InChat(d)' \subseteq InChat(d) \union circle[d].guests
      BY <2>1, <2>3, <1>0 DEF AroundTyped, InChat
    <3>3. Sound(d)' /\ Lasts(d)
      BY <2>3, <3>2, <1>0 DEF Sound, Is, Plan, Consent, Lasts
    <3> QED
      BY <3>1, <3>3, <1>0, SameIsSound DEF CirclesSound
  <2> QED
    BY <1>1, <2>2, <2>3 DEF FindConversation, around, Is
<1>2. CASE NewConversation(r)
  <2>1. /\ req[r].by \in User /\ req[r].to \in User
        /\ Consent(req[r].by, req[r].to)
    BY <1>2 DEF NewConversation, At, Found
  <2>2. PICK d \in Circle :
          Create(d, "direct", req[r].by, Nobody, {req[r].by, req[r].to}, TRUE)
    BY <1>2 DEF NewConversation
  <2>3. /\ "direct" \in Kind /\ {req[r].by, req[r].to} \in SUBSET User
        /\ Nobody \notin {req[r].by, req[r].to} \union {req[r].by}
        /\ \A x, y \in {req[r].by, req[r].to} \union {req[r].by} : x # y => Consent(x, y)
    BY <2>1 DEF Kind, FriendsAssumption, Consent, Both
  <2> QED
    BY <2>1, <2>2, <2>3, CreateKeeps
<1>3. CASE AddGuest(r)
  <2>1. /\ c \in Circle /\ Is(c, {"event"}) /\ req[r].to \in User /\ Join(c, req[r].to)
    BY <1>3 DEF AddGuest, At, Admitted, InCircle
  <2>2. Is(c, {"gift", "surprise", "event"}) /\ req[r].to # circle[c].for
    BY <2>1, <1>0 DEF Sound, Is, FriendsAssumption
  <2> QED
    BY <2>1, <2>2, JoinKeeps
<1>4. CASE LeaveRow(r)
  <2>1. /\ c \in Circle /\ ~Is(c, {"none"}) /\ UNCHANGED <<seat, room, page, heard, insiders>>
        /\ circle' = [circle EXCEPT ![c].guests = @ \ {req[r].by}]
    BY <1>4 DEF LeaveRow, At, Admitted, InCircle
  <2> DEFINE n == [circle[c] EXCEPT !.guests = circle[c].guests \ {req[r].by}]
  <2>2. circle[c] \in CircleRow /\ circle[c].guests \ {req[r].by} \in SUBSET User
    BY <2>1, <1>0 DEF AroundTyped, CircleRow
  <2>3. /\ n \in CircleRow /\ n.kind = circle[c].kind /\ n.for = circle[c].for
        /\ n.host = circle[c].host /\ n.revealed = circle[c].revealed
        /\ n.guests \subseteq circle[c].guests
    BY <2>2, CircleRowWith DEF CircleRow
  <2>4. circle' = [circle EXCEPT ![c] = n]
    BY <2>1
  <2> HIDE DEF n, c
  <2>5. AroundTyped' /\ \A d \in Circle : circle'[d] = IF d = c THEN n ELSE circle[d]
    BY <2>1, <2>3, <2>4, <1>0 DEF AroundTyped
  <2> QED
    BY <2>1, <2>3, <2>5, LeavingKeeps
<1>5. CASE LeaveChat(r)
  <2>1. /\ c \in Circle /\ req[r].by \in User /\ seat' = Vacated(c, req[r].by)
        /\ UNCHANGED <<circle, room, page, heard, insiders>>
    BY <1>5 DEF LeaveChat, At, Admitted, InCircle
  <2>2. /\ seat' \in [Circle -> [User -> {"never", "in", "left"}]]
        /\ \A d \in Circle, u \in User :
             seat'[d][u] = seat[d][u] \/ (seat[d][u] = "in" /\ seat'[d][u] = "left")
    BY <2>1, <1>0, VacatedSeats
  <2>3. AroundTyped'
    BY <2>1, <2>2, <1>0 DEF AroundTyped
  <2> QED
    BY <2>1, <2>2, <2>3, LeavingKeeps
<1>6. CASE JoinRoom(r)
  <2>1. /\ c \in Circle /\ ~Is(c, {"none"}) /\ req[r].by \in User
        /\ UNCHANGED <<circle, seat, heard, insiders>>
        /\ \/ /\ page' = [page EXCEPT ![c] = @ \union {req[r].by}] /\ room' = room
              /\ req[r].by \in insiders[c] \union {circle[c].for}
              /\ req[r].by = circle[c].for => circle[c].revealed
           \/ /\ room' = [room EXCEPT ![c] = @ \union {req[r].by}] /\ page' = page
              /\ req[r].by \in insiders[c] \ {circle[c].for}
    BY <1>6 DEF JoinRoom, At, Admitted, InCircle
  <2> HIDE DEF c
  <2>2. AroundTyped' /\ \A d \in Circle : d # c => Same(d)
    BY <2>1, <1>0 DEF AroundTyped, Same
  <2>3. /\ page'[c] = page[c] \union {req[r].by} \/ page'[c] = page[c]
        /\ room'[c] = room[c] \union {req[r].by} \/ room'[c] = room[c]
    BY <2>1, <1>0 DEF AroundTyped
  <2>4. Sound(c)
    BY <2>1, <1>0
  <2>5. /\ room'[c] \subseteq insiders[c]
        /\ circle[c].for \notin room'[c] \/ ~Plan(c)
        /\ page'[c] \union heard'[c] \subseteq insiders[c] \union {circle[c].for}
        /\ Plan(c) => (circle[c].for \in page'[c] \union heard'[c] => circle'[c].revealed)
    BY <2>1, <2>3, <2>4, <1>0 DEF Sound, AroundTyped
  <2>6. seat' = seat /\ insiders' = insiders /\ circle'[c] = circle[c]
    BY <2>1
  <2> QED
    BY <2>1, <2>2, <2>5, <2>6, HearingKeeps
<1>7. CASE Say(r)
  <2>1. /\ c \in Circle /\ ~Is(c, {"none"})
        /\ heard' = [heard EXCEPT ![c] = @ \union (room[c] \union InChat(c))]
        /\ UNCHANGED <<circle, seat, room, page, insiders>>
    BY <1>7 DEF Say, At, Admitted, InCircle, Tell
  <2> HIDE DEF c
  <2>2. /\ AroundTyped' /\ \A d \in Circle : d # c => Same(d)
        /\ heard'[c] = heard[c] \union room[c] \union InChat(c)
    BY <2>1, <1>0 DEF AroundTyped, Same, InChat
  <2> QED
    BY <2>1, <2>2, <1>0, HearingKeeps DEF Sound
<1> QED
  BY <1>1, <1>2, <1>3, <1>4, <1>5, <1>6, <1>7 DEF Proceed

-----------------------------------------------------------------------------
(***************************************************************************)
(* Friendships.                                                            *)
(***************************************************************************)
Social ==
  /\ FriendsTypeOK /\ RowsAgreed /\ InvitesAreSomebodys /\ SharesRecorded
  /\ OnlyByConsent /\ BlockedStayApart

\* What was agreed, shared or passed once is never taken back; a row stays
\* between the same two until it is deleted, and is never used again.
SocialGrows ==
  /\ agreed \subseteq agreed' /\ passed \subseteq passed'
  /\ shared.seen \subseteq shared'.seen /\ shared.cheers \subseteq shared'.cheers
  /\ \A k \in Invite : invite[k].is # "none" => invite'[k].is # "none"
  /\ \A i \in Row : row[i].is # "none" =>
       /\ row'[i].is # "none"
       /\ Exists(i)' => /\ Exists(i)
                        /\ Pair(row'[i].from, row'[i].to) = Pair(row[i].from, row[i].to)

FriendRow == [from : User \union {Nobody}, to : User \union {Nobody},
              is : {"none", "pending", "accepted", "declined", "cancelled", "gone"}]

\* One row is as it should be after a step, whoever is friends with whom.
RowFine(i) ==
  /\ row'[i] \in FriendRow
  /\ row'[i].is = "pending" => <<row'[i].from, row'[i].to>> \in agreed'
  /\ row'[i].is = "accepted" =>
       <<row'[i].from, row'[i].to>> \in agreed' /\ <<row'[i].to, row'[i].from>> \in agreed'
  /\ Exists(i)' =>
       /\ row[i].is # "none" =>
            Exists(i) /\ Pair(row'[i].from, row'[i].to) = Pair(row[i].from, row[i].to)
       /\ \A e \in blocked' : Pair(e[1], e[2]) = Pair(row'[i].from, row'[i].to)
                                => Pair(e[1], e[2]) \in passed'

\* A step that changes rows of friendships, and the calendars with consent.
LEMMA RowByRow ==
  ASSUME Social, FriendsTypeOK',
         agreed \subseteq agreed', passed \subseteq passed', shared' = shared,
         \A i \in Row : RowFine(i) /\ (row[i].is # "none" => row'[i].is # "none"),
         \A e \in linked' : e \in linked \/ (<<e[1], e[2]>> \in agreed' /\ <<e[2], e[1]>> \in agreed'),
         saw' = saw, reached' = reached, shares' = shares,
         \A k \in Invite : invite'[k].by = invite[k].by /\ (invite'[k].is # "none" <=> invite[k].is # "none")
  PROVE  Social' /\ SocialGrows
<1>1. SocialGrows
  BY DEF SocialGrows, RowFine
<1>2. RowsAgreed'
  BY DEF RowsAgreed, RowFine, Consent, Both
<1>3. InvitesAreSomebodys'
  BY DEF Social, InvitesAreSomebodys
<1>4. SharesRecorded'
  BY DEF Social, SharesRecorded
<1>5. OnlyByConsent'
  <2>1. \A u, v : Consent(u, v) => Consent(u, v)'
    BY DEF Consent
  <2>2. \A i \in Row : row'[i].is = "accepted" => Consent(row[i].from, row[i].to)'
    BY <1>2 DEF RowsAgreed
  <2>3. \A e \in linked' : Consent(e[1], e[2])'
    BY <2>1 DEF Social, OnlyByConsent, Consent, Both
  <2> QED
    BY <2>1, <2>2, <2>3 DEF Social, OnlyByConsent
<1>6. BlockedStayApart'
  BY DEF BlockedStayApart, Rows, RowFine
<1> QED
  BY <1>1, <1>2, <1>3, <1>4, <1>5, <1>6 DEF Social

\* A step that changes no row.
LEMMA RowsKept ==
  ASSUME Social, FriendsTypeOK', row' = row,
         agreed \subseteq agreed', passed \subseteq passed',
         shared.seen \subseteq shared'.seen, shared.cheers \subseteq shared'.cheers,
         blocked' \subseteq blocked, InvitesAreSomebodys', SharesRecorded',
         \A k \in Invite : invite[k].is # "none" => invite'[k].is # "none",
         \A e \in linked' : e \in linked \/ Consent(e[1], e[2]),
         \A e \in saw' : e \in saw \/ Consent(e[1], e[2]) \/ e[2] \in shared.seen,
         \A e \in reached' : e \in reached \/ Consent(e[1], e[2]) \/ e[2] \in shared.cheers
  PROVE  Social' /\ SocialGrows
<1>1. SocialGrows
  BY DEF SocialGrows, Exists
<1>2. \A u, v : Consent(u, v) => Consent(u, v)'
  BY DEF Consent
<1>3. RowsAgreed'
  BY <1>2 DEF Social, RowsAgreed
<1>4. OnlyByConsent'
  BY <1>2 DEF Social, OnlyByConsent
<1>5. BlockedStayApart'
  BY DEF Social, BlockedStayApart, Rows, Exists
<1> QED
  BY <1>1, <1>3, <1>4, <1>5 DEF Social

LEMMA SocialUnchanged ==
  ASSUME Social, UNCHANGED social
  PROVE  Social' /\ SocialGrows
<1>1. FriendsTypeOK' /\ InvitesAreSomebodys' /\ SharesRecorded'
  BY DEF Social, social, FriendsTypeOK, InvitesAreSomebodys, SharesRecorded
<1> QED
  BY <1>1, RowsKept DEF social

\* Friends agreed to it.
LEMMA FriendsConsent ==
  ASSUME Social, NEW u, NEW v, u # v, AreFriends(u, v)
  PROVE  Consent(u, v)
<1>1. PICK i \in Row : row[i].is = "accepted" /\ Pair(row[i].from, row[i].to) = Pair(u, v)
  BY DEF AreFriends, Rows
<1>2. Consent(row[i].from, row[i].to)
  BY <1>1 DEF Social, RowsAgreed
<1>3. (u = row[i].from /\ v = row[i].to) \/ (u = row[i].to /\ v = row[i].from)
  BY <1>1 DEF Pair
<1> QED
  BY <1>2, <1>3 DEF Consent, Both

\* Rows that are deleted only take away.
LEMMA WithoutKeeps ==
  ASSUME Social, NEW S \in SUBSET Row, row' = Without(S), \A i \in S : row[i].is # "none",
         blocked' \subseteq User \X User, passed \subseteq passed', passed' \subseteq Pairs,
         \A e \in blocked' : e \in blocked \/ Rows(e[1], e[2]) \subseteq S,
         UNCHANGED <<linked, shares, invite, saw, reached, agreed, shared>>
  PROVE  Social' /\ SocialGrows
<1>1. \A i \in Row : row'[i] = IF i \in S THEN [from |-> Nobody, to |-> Nobody, is |-> "gone"]
                               ELSE row[i]
  BY DEF Without, NoRow
<1>2. FriendsTypeOK'
  <2>1. row' \in [Row -> FriendRow]
    BY <1>1 DEF Social, FriendsTypeOK, FriendRow, Without
  <2> QED
    BY <2>1 DEF Social, FriendsTypeOK, FriendRow
<1>3. ASSUME NEW i \in Row
      PROVE  RowFine(i) /\ (row[i].is # "none" => row'[i].is # "none")
  <2>1. row'[i] \in FriendRow
    BY <1>2 DEF FriendsTypeOK, FriendRow
  <2>2. CASE i \in S
    BY <1>1, <2>1, <2>2 DEF RowFine, Exists
  <2>3. CASE i \notin S
    <3>1. row'[i] = row[i] /\ (Exists(i)' <=> Exists(i))
      BY <1>1, <2>3 DEF Exists
    <3>2. ASSUME Exists(i), NEW e \in blocked', Pair(e[1], e[2]) = Pair(row[i].from, row[i].to)
          PROVE  Pair(e[1], e[2]) \in passed'
      <4>1. i \in Rows(e[1], e[2])
        BY <3>2 DEF Rows
      <4> QED
        BY <4>1, <2>3 DEF Social, BlockedStayApart
    <3> QED
      BY <2>1, <3>1, <3>2 DEF RowFine, Social, RowsAgreed, Consent, Both
  <2> QED
    BY <2>2, <2>3
<1> QED
  BY <1>2, <1>3, RowByRow

LEMMA StartKeeps ==
  ASSUME Social, StartFriends
  PROVE  Social' /\ SocialGrows
<1>0. FriendsTypeOK
  BY DEF Social
<1>1. ASSUME NEW r \in Request, NEW u \in User, NEW v \in User,
             \/ SendFriendRequest(r, u, v) \/ UpdateFriendship(r, u, v)
             \/ ReadTheirs(r, u, v) \/ Cheer(r, u, v)
      PROVE  UNCHANGED social
  BY <1>1, Zenon DEF SendFriendRequest, UpdateFriendship, ReadTheirs, Cheer
<1>2. ASSUME NEW r \in Request, NEW u \in User, NEW i \in Row \union Invite,
             \/ RespondToFriendRequest(r, u, i) \/ CancelFriendRequest(r, u, i)
             \/ RedeemInvite(r, u, i)
      PROVE  UNCHANGED social
  BY <1>2, Zenon DEF RespondToFriendRequest, CancelFriendRequest, RedeemInvite
<1>3. ASSUME NEW r \in Request, NEW u \in User, NEW v \in User, RemoveFriend(r, u, v)
      PROVE  Social' /\ SocialGrows
  <2> DEFINE S == {i \in Rows(u, v) : row[i].is = "accepted"}
  <2>1. /\ row' = Without(S) /\ S \subseteq Row /\ \A i \in S : row[i].is # "none"
        /\ UNCHANGED <<linked, blocked, shares, invite, saw, reached, agreed, shared, passed>>
    BY <1>3 DEF RemoveFriend, Rows
  <2> HIDE DEF S
  <2>2. blocked' \subseteq User \X User /\ passed' \subseteq Pairs
    BY <2>1, <1>0 DEF FriendsTypeOK
  <2> QED
    BY <2>1, <2>2, WithoutKeeps
<1>4. ASSUME NEW u \in User, NEW v \in User, BlockUser(u, v)
      PROVE  Social' /\ SocialGrows
  <2>1. /\ row' = Without(Rows(u, v)) /\ blocked' = blocked \union {<<u, v>>}
        /\ UNCHANGED <<linked, shares, invite, saw, reached, agreed, shared>>
    BY <1>4, Zenon DEF BlockUser
  <2>2. passed \subseteq passed' /\ passed' \subseteq passed \union {Pair(u, v)}
    BY <1>4 DEF BlockUser
  <2>3. /\ Rows(u, v) \in SUBSET Row /\ \A i \in Rows(u, v) : row[i].is # "none"
    BY DEF Rows, Exists
  <2>4. blocked' \subseteq User \X User /\ passed' \subseteq Pairs
    BY <1>0, <2>1, <2>2 DEF FriendsTypeOK, Pairs
  <2>5. \A e \in blocked' : e \in blocked \/ Rows(e[1], e[2]) \subseteq Rows(u, v)
    BY <2>1
  <2> QED
    BY <2>1, <2>2, <2>3, <2>4, <2>5, WithoutKeeps
<1>5. ASSUME NEW u \in User, NEW v \in User, UnblockUser(u, v)
      PROVE  Social' /\ SocialGrows
  <2>1. /\ blocked' = blocked \ {<<u, v>>}
        /\ UNCHANGED <<row, linked, shares, invite, saw, reached, agreed, shared, passed>>
    BY <1>5 DEF UnblockUser
  <2>2. FriendsTypeOK' /\ InvitesAreSomebodys' /\ SharesRecorded'
    BY <2>1 DEF Social, FriendsTypeOK, InvitesAreSomebodys, SharesRecorded
  <2> QED
    BY <2>1, <2>2, RowsKept
<1>6. ASSUME NEW u \in User, NEW k \in Invite, CreateInvite(u, k)
      PROVE  Social' /\ SocialGrows
  <2>1. PICK entry \in {"none", "manual"} :
          invite' = [invite EXCEPT ![k] = [by |-> u, is |-> "open", entry |-> entry]]
    BY <1>6 DEF CreateInvite
  <2>2. UNCHANGED <<row, linked, blocked, shares, saw, reached, agreed, shared, passed>>
    BY <1>6 DEF CreateInvite
  <2>3. FriendsTypeOK' /\ InvitesAreSomebodys' /\ SharesRecorded'
    BY <2>1, <2>2 DEF Social, FriendsTypeOK, InvitesAreSomebodys, SharesRecorded
  <2>4. \A j \in Invite : invite[j].is # "none" => invite'[j].is # "none"
    BY <2>1, <1>0 DEF FriendsTypeOK
  <2> QED
    BY <2>2, <2>3, <2>4, RowsKept
<1>7. ASSUME NEW u \in User, UpdatePrivacy(u)
      PROVE  Social' /\ SocialGrows
  <2>1. PICK seen \in Visibility, cheers \in BOOLEAN :
       /\ shares' = [shares EXCEPT ![u] = [seen |-> seen, cheers |-> cheers]]
       /\ shared' = [seen   |-> IF seen = "public" THEN shared.seen \union {u}
                                ELSE shared.seen,
                     cheers |-> IF cheers THEN shared.cheers \union {u}
                                ELSE shared.cheers]
    BY <1>7, Zenon DEF UpdatePrivacy
  <2>2. UNCHANGED <<row, linked, blocked, invite, saw, reached, agreed, passed>>
    BY <1>7, Zenon DEF UpdatePrivacy
  <2>3. /\ shared'.seen = IF seen = "public" THEN shared.seen \union {u} ELSE shared.seen
        /\ shared'.cheers = IF cheers THEN shared.cheers \union {u} ELSE shared.cheers
    BY <2>1
  <2>4. FriendsTypeOK'
    <3>1. shares' \in [User -> [seen : Visibility, cheers : BOOLEAN]]
      BY <1>0, <2>1 DEF FriendsTypeOK
    <3>2. shared' \in [seen : SUBSET User, cheers : SUBSET User]
      BY <1>0, <2>1 DEF FriendsTypeOK
    <3> QED
      BY <1>0, <2>2, <3>1, <3>2 DEF FriendsTypeOK
  <2>5. InvitesAreSomebodys'
    BY <2>2 DEF Social, InvitesAreSomebodys
  <2>6. SharesRecorded'
    BY <1>0, <2>1, <2>3 DEF Social, SharesRecorded, FriendsTypeOK
  <2> QED
    BY <2>2, <2>3, <2>4, <2>5, <2>6, RowsKept
<1> QED
  BY <1>1, <1>2, <1>3, <1>4, <1>5, <1>6, <1>7, SocialUnchanged, Zenon DEF StartFriends

\* A step that writes one row, or none.
LEMMA OneRowKeeps ==
  ASSUME Social, NEW i \in Row, NEW x \in FriendRow, row' = [row EXCEPT ![i] = x],
         linked' \subseteq User \X User, agreed' \subseteq User \X User, passed' \subseteq Pairs,
         agreed \subseteq agreed', passed \subseteq passed',
         invite' \in [Invite -> [by : User \union {Nobody}, is : {"none", "open", "taken"},
                               entry : {"none", "manual", "linked"}]],
         \A k \in Invite : invite'[k].by = invite[k].by /\ (invite'[k].is # "none" <=> invite[k].is # "none"),
         \A e \in linked' : e \in linked \/ (<<e[1], e[2]>> \in agreed' /\ <<e[2], e[1]>> \in agreed'),
         x.is \notin {"none", "gone"},
         x.is = "pending" => <<x.from, x.to>> \in agreed',
         x.is = "accepted" => <<x.from, x.to>> \in agreed' /\ <<x.to, x.from>> \in agreed',
         row[i].is # "none" => Exists(i) /\ Pair(x.from, x.to) = Pair(row[i].from, row[i].to),
         \A e \in blocked : Pair(e[1], e[2]) = Pair(x.from, x.to) => Pair(e[1], e[2]) \in passed',
         UNCHANGED <<blocked, shares, saw, reached, shared>>
  PROVE  Social' /\ SocialGrows
<1>1. FriendsTypeOK'
  BY DEF Social, FriendsTypeOK, FriendRow
<1>2. \A j \in Row : row'[j] = IF j = i THEN x ELSE row[j]
  BY DEF Social, FriendsTypeOK
<1>3. RowFine(i) /\ row'[i].is # "none"
  BY <1>2 DEF RowFine, Exists
<1>4. ASSUME NEW j \in Row, j # i
      PROVE  RowFine(j) /\ (row[j].is # "none" => row'[j].is # "none")
  <2>1. row'[j] = row[j] /\ row'[j] \in FriendRow
    BY <1>1, <1>2, <1>4 DEF FriendsTypeOK, FriendRow
  <2> QED
    BY <2>1 DEF RowFine, Exists, Social, RowsAgreed, Consent, Both, BlockedStayApart, Rows
<1> QED
  BY <1>1, <1>3, <1>4, RowByRow

LEMMA AskKeeps ==
  ASSUME Social, NEW r \in Request, Found(req[r]), Ask(r)
  PROVE  Social' /\ SocialGrows
<1> DEFINE u == req[r].by  v == req[r].to  i == req[r].row
<1>0. FriendsTypeOK /\ u \in User /\ v \in User
  BY DEF Social, Ask, At, Found
<1>1. CASE UNCHANGED <<row, agreed>>
  BY <1>1, SocialUnchanged DEF Ask, social
<1>2. CASE /\ \E k \in Row :
                /\ IF i = 0 THEN Fresh(k) ELSE k = i /\ Exists(i)
                /\ row' = [row EXCEPT ![k] = [from |-> u, to |-> v, is |-> "pending"]]
           /\ agreed' = agreed \union {<<u, v>>}
  <2>1. PICK k \in Row :
          /\ IF i = 0 THEN Fresh(k) ELSE k = i /\ Exists(i)
          /\ row' = [row EXCEPT ![k] = [from |-> u, to |-> v, is |-> "pending"]]
    BY <1>2
  <2> DEFINE x == [from |-> u, to |-> v, is |-> "pending"]
  <2>2. /\ x \in FriendRow /\ x.is = "pending" /\ Pair(x.from, x.to) = Pair(u, v)
        /\ <<x.from, x.to>> \in agreed'
    BY <1>0, <1>2 DEF FriendRow
  <2>3. UNCHANGED <<linked, blocked, shares, invite, saw, reached, shared, passed>>
    BY DEF Ask
  <2>4. row[k].is # "none" => Exists(k) /\ Pair(u, v) = Pair(row[k].from, row[k].to)
    BY <2>1 DEF Fresh, Found, StillTheirs, Ask, At, Exists
  <2>5. \A e \in blocked : Pair(e[1], e[2]) = Pair(u, v) => Pair(e[1], e[2]) \in passed
    <3>1. IsBlockedEitherWay(u, v) => Pair(u, v) \in passed
      BY DEF Found, Ask, At
    <3> QED
      <4>1. \A e \in blocked : e = <<e[1], e[2]>>
        BY <1>0 DEF FriendsTypeOK
      <4>2. \A e \in blocked : Pair(e[1], e[2]) = Pair(u, v)
                              => e = <<u, v>> \/ e = <<v, u>>
        BY <4>1 DEF Pair
      <4> QED
        BY <3>1, <4>2 DEF IsBlockedEitherWay
  <2>6. /\ linked' \subseteq User \X User /\ agreed' \subseteq User \X User
        /\ passed' \subseteq Pairs
        /\ invite' \in [Invite -> [by : User \union {Nobody}, is : {"none", "open", "taken"},
                                  entry : {"none", "manual", "linked"}]]
    BY <1>0, <1>2, <2>3 DEF FriendsTypeOK
  <2> HIDE DEF x, u, v, i
  <2> QED
    BY <1>2, <2>1, <2>2, <2>3, <2>4, <2>5, <2>6, OneRowKeeps DEF x
<1> QED
  BY <1>1, <1>2 DEF Ask

LEMMA UpdateKeeps ==
  ASSUME Social, NEW r \in Request, NEW pc, NEW is \in {"accepted", "declined", "cancelled"},
         Update(r, pc, is), req[r].row \in Row,
         agreed' \subseteq User \X User, agreed \subseteq agreed',
         is = "accepted" /\ Exists(req[r].row) =>
           /\ <<row[req[r].row].from, row[req[r].row].to>> \in agreed'
           /\ <<row[req[r].row].to, row[req[r].row].from>> \in agreed'
  PROVE  Social' /\ SocialGrows
<1> DEFINE i == req[r].row
           x == [row[i] EXCEPT !.is = is]
<1>0. FriendsTypeOK
  BY DEF Social
<1>1. UNCHANGED <<linked, blocked, shares, invite, saw, reached, shared, passed>>
  BY DEF Update
<1>2. CASE Exists(i)
  <2>1. row' = [row EXCEPT ![i] = x]
    BY <1>2 DEF Update
  <2>2. /\ x \in FriendRow /\ x.is = is /\ x.from = row[i].from /\ x.to = row[i].to
    BY <1>0 DEF FriendRow, FriendsTypeOK
  <2>3. \A e \in blocked : Pair(e[1], e[2]) = Pair(row[i].from, row[i].to)
                            => Pair(e[1], e[2]) \in passed
    BY <1>2 DEF Social, BlockedStayApart, Rows
  <2>4. /\ linked' \subseteq User \X User /\ passed' \subseteq Pairs
        /\ invite' \in [Invite -> [by : User \union {Nobody}, is : {"none", "open", "taken"},
                                  entry : {"none", "manual", "linked"}]]
    BY <1>0, <1>1 DEF FriendsTypeOK
  <2> HIDE DEF x, i
  <2> QED
    BY <1>1, <1>2, <2>1, <2>2, <2>3, <2>4, OneRowKeeps DEF i
<1>3. CASE ~Exists(i)
  <2>1. row' = row
    BY <1>3 DEF Update
  <2>2. FriendsTypeOK' /\ InvitesAreSomebodys' /\ SharesRecorded'
    BY <1>1, <2>1 DEF Social, FriendsTypeOK, InvitesAreSomebodys, SharesRecorded
  <2> QED
    BY <1>1, <2>1, <2>2, RowsKept
<1> QED
  BY <1>2, <1>3

LEMMA AcceptKeeps ==
  ASSUME Social, NEW r \in Request, Found(req[r]), Accept(r)
  PROVE  Social' /\ SocialGrows
<1> DEFINE u == req[r].by  v == req[r].to  i == req[r].row
<1>0. FriendsTypeOK /\ u \in User /\ v \in User /\ i \in Row
  BY DEF Social, Accept, Update, At, Found, StillTheirs
<1>1. CASE Exists(i)
  <2>1. agreed' = agreed \union {<<u, v>>} /\ <<v, u>> \in agreed
    BY <1>1 DEF Accept, Update, At, Found
  <2>2. Pair(row[i].from, row[i].to) = Pair(u, v)
    BY <1>1 DEF Accept, Update, At, Found, StillTheirs
  <2>3. (row[i].from = u /\ row[i].to = v) \/ (row[i].from = v /\ row[i].to = u)
    BY <2>2 DEF Pair
  <2>4. agreed' \subseteq User \X User
    BY <1>0, <2>1 DEF FriendsTypeOK
  <2> QED
    BY <1>0, <2>1, <2>3, <2>4, UpdateKeeps DEF Accept
<1>2. CASE ~Exists(i)
  BY <1>0, <1>2, UpdateKeeps DEF Accept, FriendsTypeOK
<1> QED
  BY <1>1, <1>2

LEMMA RedeemKeeps ==
  ASSUME Social, NEW r \in Request, Found(req[r]), Redeem(r)
  PROVE  Social' /\ SocialGrows
<1> DEFINE u == req[r].by  v == req[r].to  k == req[r].row
           links == invite[k].entry = "manual"
<1>0. FriendsTypeOK /\ u \in User /\ v \in User /\ k \in Invite
  BY DEF Social, Redeem, At, Found
<1>1. CASE UNCHANGED social
  BY <1>1, SocialUnchanged
<1>2. CASE ~UNCHANGED social
  <2>1. /\ invite' = [invite EXCEPT ![k].is = "taken",
                        ![k].entry = IF links THEN "linked" ELSE @]
        /\ linked' = IF links THEN linked \union {<<v, u>>} ELSE linked
        /\ \/ \E i \in Rows(u, v) : row' = [row EXCEPT ![i].is = "accepted"]
           \/ \E i \in Row :
                   /\ Fresh(i)
                   /\ row' = [row EXCEPT ![i] = [from |-> v, to |-> u, is |-> "accepted"]]
        /\ agreed' = agreed \union Both(u, v)
        /\ passed' = IF IsBlockedEitherWay(u, v) THEN passed \union {Pair(u, v)}
                     ELSE passed
        /\ UNCHANGED <<blocked, shares, saw, reached, shared>>
    BY <1>2, Zenon DEF Redeem
  <2>2. /\ linked' \subseteq User \X User /\ agreed' \subseteq User \X User /\ passed' \subseteq Pairs
        /\ agreed \subseteq agreed' /\ passed \subseteq passed'
        /\ <<u, v>> \in agreed' /\ <<v, u>> \in agreed'
    BY <1>0, <2>1 DEF FriendsTypeOK, Both, Pairs
  <2>3. /\ invite' \in [Invite -> [by : User \union {Nobody}, is : {"none", "open", "taken"},
                                  entry : {"none", "manual", "linked"}]]
        /\ \A j \in Invite : invite'[j].by = invite[j].by
                            /\ (invite'[j].is # "none" <=> invite[j].is # "none")
    BY <1>0, <2>1 DEF FriendsTypeOK, Redeem, At, Found
  <2>4. \A e \in blocked : Pair(e[1], e[2]) = Pair(u, v) => Pair(e[1], e[2]) \in passed'
    <3>1. \A e \in blocked : e = <<e[1], e[2]>>
      BY <1>0 DEF FriendsTypeOK
    <3>2. \A e \in blocked : Pair(e[1], e[2]) = Pair(u, v) => e = <<u, v>> \/ e = <<v, u>>
      BY <3>1 DEF Pair
    <3> QED
      BY <2>1, <3>2 DEF IsBlockedEitherWay
  <2>5. \A e \in linked' : e \in linked \/ (<<e[1], e[2]>> \in agreed' /\ <<e[2], e[1]>> \in agreed')
    BY <2>1, <2>2
  <2>6. ASSUME NEW i \in Row, NEW x \in FriendRow, row' = [row EXCEPT ![i] = x],
               x.is = "accepted", {x.from, x.to} = {u, v},
               row[i].is # "none" => Exists(i) /\ {u, v} = {row[i].from, row[i].to}
        PROVE  Social' /\ SocialGrows
    <3>1. <<x.from, x.to>> \in agreed' /\ <<x.to, x.from>> \in agreed'
      BY <2>2, <2>6
    <3>2. UNCHANGED <<blocked, shares, saw, reached, shared>>
      BY <2>1
    <3> HIDE DEF u, v, k, links
    <3> QED
      BY <2>2, <2>3, <2>4, <2>5, <2>6, <3>1, <3>2, OneRowKeeps DEF Pair
  <2>7. ASSUME NEW i \in Rows(u, v), row' = [row EXCEPT ![i].is = "accepted"]
        PROVE  Social' /\ SocialGrows
    <3> DEFINE x == [row[i] EXCEPT !.is = "accepted"]
    <3>1. /\ i \in Row /\ Exists(i) /\ {u, v} = {row[i].from, row[i].to}
      BY DEF Rows, Pair
    <3>2. /\ x \in FriendRow /\ x.is = "accepted" /\ x.from = row[i].from /\ x.to = row[i].to
          /\ row' = [row EXCEPT ![i] = x]
      BY <1>0, <2>7, <3>1 DEF FriendRow, FriendsTypeOK
    <3> HIDE DEF x, u, v
    <3> QED
      BY <2>6, <3>1, <3>2
  <2>8. ASSUME NEW i \in Row, Fresh(i),
               row' = [row EXCEPT ![i] = [from |-> v, to |-> u, is |-> "accepted"]]
        PROVE  Social' /\ SocialGrows
    <3> DEFINE x == [from |-> v, to |-> u, is |-> "accepted"]
    <3>1. /\ x \in FriendRow /\ x.is = "accepted" /\ {x.from, x.to} = {u, v}
          /\ row' = [row EXCEPT ![i] = x] /\ row[i].is = "none"
      BY <1>0, <2>8 DEF FriendRow, Fresh
    <3> HIDE DEF x, u, v
    <3> QED
      BY <2>6, <3>1
  <2> QED
    BY <2>1, <2>7, <2>8
<1> QED
  BY <1>1, <1>2

LEMMA CalendarKeeps ==
  ASSUME Social, NEW r \in Request, Found(req[r]),
         MirrorBoth(r) \/ MirrorOne(r) \/ Unlink(r) \/ Show(r) \/ CheerOn(r)
  PROVE  Social' /\ SocialGrows
<1> DEFINE u == req[r].by  v == req[r].to
<1>0. FriendsTypeOK /\ u \in User /\ v \in User
  BY DEF Social, MirrorBoth, MirrorOne, Unlink, Show, CheerOn, At, Found
<1>1. /\ UNCHANGED <<row, blocked, shares, invite, agreed, shared, passed>>
      /\ linked' \subseteq User \X User /\ saw' \subseteq User \X User
      /\ reached' \subseteq User \X User
      /\ \A e \in linked' : e \in linked \/ Consent(e[1], e[2])
      /\ \A e \in saw' : e \in saw \/ Consent(e[1], e[2]) \/ e[2] \in shared.seen
      /\ \A e \in reached' : e \in reached \/ Consent(e[1], e[2]) \/ e[2] \in shared.cheers
  <2>1. CASE MirrorBoth(r)
    <3>1. Consent(u, v) /\ Consent(v, u)
      BY <2>1 DEF MirrorBoth, At, Found, Consent, Both
    <3>2. linked' \subseteq linked \union {<<u, v>>, <<v, u>>}
      BY <2>1 DEF MirrorBoth, Mirrored, Both
    <3>3. UNCHANGED <<row, blocked, shares, invite, saw, reached, agreed, shared, passed>>
      BY <2>1 DEF MirrorBoth
    <3> HIDE DEF u, v
    <3> QED
      BY <1>0, <3>1, <3>2, <3>3 DEF FriendsTypeOK
  <2>2. CASE MirrorOne(r)
    BY <1>0, <2>2 DEF MirrorOne, At, Found, Mirrored, Both, Consent, FriendsTypeOK
  <2>3. CASE Unlink(r)
    BY <1>0, <2>3 DEF Unlink, FriendsTypeOK
  <2>4. CASE Show(r)
    <3>1. Consent(u, v) \/ v \in shared.seen
      BY <2>4 DEF Show, At, Found
    <3>2. saw' = saw \union {<<u, v>>}
      BY <2>4 DEF Show
    <3>3. UNCHANGED <<row, linked, blocked, shares, invite, reached, agreed, shared, passed>>
      BY <2>4 DEF Show
    <3> HIDE DEF u, v
    <3> QED
      BY <1>0, <3>1, <3>2, <3>3 DEF FriendsTypeOK
  <2>5. CASE CheerOn(r)
    <3>1. Consent(u, v) \/ v \in shared.cheers
      BY <2>5 DEF CheerOn, At, Found
    <3>2. reached' = reached \union {<<u, v>>}
      BY <2>5 DEF CheerOn
    <3>3. UNCHANGED <<row, linked, blocked, shares, invite, saw, agreed, shared, passed>>
      BY <2>5 DEF CheerOn
    <3> HIDE DEF u, v
    <3> QED
      BY <1>0, <3>1, <3>2, <3>3 DEF FriendsTypeOK
  <2> QED
    BY <2>1, <2>2, <2>3, <2>4, <2>5
<1>2. FriendsTypeOK' /\ InvitesAreSomebodys' /\ SharesRecorded'
  BY <1>0, <1>1 DEF Social, FriendsTypeOK, InvitesAreSomebodys, SharesRecorded
<1> HIDE DEF u, v
<1> QED
  BY <1>1, <1>2, RowsKept

LEMMA SocialStep ==
  ASSUME Social, \A r \in Request : Found(req[r]), FriendsNext
  PROVE  Social' /\ SocialGrows
<1>1. CASE StartFriends
  BY <1>1, StartKeeps
<1>2. ASSUME NEW r \in Request, Look(r) \/ AssertCanReach(r) \/ Die(r)
      PROVE  Social' /\ SocialGrows
  BY <1>2, SocialUnchanged DEF Look, AssertCanReach, Die
<1>3. ASSUME NEW r \in Request, Decline(r) \/ Cancel(r)
      PROVE  Social' /\ SocialGrows
  <2>1. agreed' = agreed /\ req[r].row \in Row
    BY <1>3 DEF Decline, Cancel, Update, At, Found
  <2>2. agreed' \subseteq User \X User
    BY <2>1 DEF Social, FriendsTypeOK
  <2> QED
    BY <1>3, <2>1, <2>2, UpdateKeeps DEF Decline, Cancel
<1>4. ASSUME NEW r \in Request,
             \/ Ask(r) \/ Accept(r) \/ Redeem(r)
             \/ MirrorBoth(r) \/ MirrorOne(r) \/ Unlink(r) \/ Show(r) \/ CheerOn(r)
      PROVE  Social' /\ SocialGrows
  BY <1>4, AskKeeps, AcceptKeeps, RedeemKeeps, CalendarKeeps
<1> QED
  BY <1>1, <1>2, <1>3, <1>4, Zenon DEF FriendsNext

-----------------------------------------------------------------------------
(***************************************************************************)
(* Both together, and the requests.                                        *)
(***************************************************************************)
LEMMA CircleStep ==
  ASSUME CirclesSound, FriendsAssumption, CirclesNext,
         \A r \in Request : Found(req[r]) /\ Admitted(req[r]), agreed' = agreed
  PROVE  CirclesSound' /\ \A d \in Circle : Lasts(d)
<1>1. CASE StartCircle
  BY <1>1, StartCircleKeeps
<1>2. CASE UseCircle
  BY <1>2, UseCircleKeeps
<1>3. CASE \E r \in Free, u, v \in User : CreateConversation(r, u, v)
  <2>1. UNCHANGED around
    BY <1>3 DEF CreateConversation
  <2> QED
    BY <2>1, SameIsSound DEF around, CirclesSound, AroundTyped, Same
<1>4. CASE \E r \in Request : Proceed(r)
  BY <1>4, ProceedKeeps
<1> QED
  BY <1>1, <1>2, <1>3, <1>4 DEF CirclesNext

LEMMA EverythingElse ==
  ASSUME Social, CirclesSound, FriendsAssumption, RequestsInOrder, Next
  PROVE  Social' /\ SocialGrows /\ CirclesSound' /\ \A d \in Circle : Lasts(d)
<1>1. CASE FriendsNext /\ UNCHANGED <<around, moves>>
  <2>1. Social' /\ SocialGrows
    BY <1>1, SocialStep DEF RequestsInOrder
  <2>2. agreed \subseteq agreed'
    BY <2>1 DEF SocialGrows
  <2>3. AroundTyped' /\ \A d \in Circle : Same(d)
    BY <1>1 DEF CirclesSound, AroundTyped, Same, around
  <2> QED
    BY <2>1, <2>2, <2>3, SameIsSound DEF CirclesSound
<1>2. CASE CirclesNext
  <2>1. UNCHANGED social
    BY <1>2, CirclesKeepSocial
  <2>2. Social' /\ SocialGrows
    BY <2>1, SocialUnchanged
  <2>3. agreed' = agreed
    BY <2>1 DEF social
  <2> QED
    BY <1>2, <2>2, <2>3, CircleStep DEF RequestsInOrder
<1> QED
  BY <1>1, <1>2 DEF Next

\* What a waiting request found stays true, but for a block that comes later.
LEMMA FoundLasts ==
  ASSUME Social, SocialGrows, NEW r \in Request, req'[r] = req[r], Found(req[r]),
         blocked' \subseteq blocked \/ (req[r].pc \in {"look", "ask"}
                                        /\ IsBlockedEitherWay(req[r].by, req[r].to)'
                                          => Pair(req[r].by, req[r].to) \in passed')
  PROVE  Found(req[r])'
<1> DEFINE q == req[r]
<1>1. StillTheirs(q) => StillTheirs(q)'
  BY DEF SocialGrows, StillTheirs
<1>2. Consent(q.by, q.to) => Consent(q.by, q.to)'
  BY DEF SocialGrows, Consent, Both
<1>3. q.pc \in {"look", "ask"} /\ IsBlockedEitherWay(q.by, q.to)'
        => Pair(q.by, q.to) \in passed'
  BY DEF Found, IsBlockedEitherWay, SocialGrows
<1> QED
  BY <1>1, <1>2, <1>3 DEF Found, SocialGrows, Pair

LEMMA AdmittedLasts ==
  ASSUME NEW r \in Request, req'[r] = req[r], Admitted(req[r]), \A d \in Circle : Lasts(d)
  PROVE  Admitted(req[r])'
BY DEF Admitted, InCircle, Lasts, Is

\* Nobody waits for anything at first, and after the end.
LEMMA IdleInOrder ==
  ASSUME NEW r \in Request, req'[r] = Idle
  PROVE  (Found(req[r]) /\ Admitted(req[r]))'
BY DEF Idle, Found, Admitted

RequestRow ==
  [pc : Step, by : User \union {Nobody}, to : User \union {Nobody},
   row : Row \union {0, Nobody} \union Invite \union Circle]

InOrder(r) == req[r] \in RequestRow /\ Found(req[r]) /\ Admitted(req[r])

AllInOrder == req \in [Request -> RequestRow] /\ \A r \in Request : InOrder(r)

\* What else a step does to what requests rely on.
Around == Social /\ SocialGrows /\ \A d \in Circle : Lasts(d)

\* One request takes a step, and blocks nobody by it.
LEMMA OneMoves ==
  ASSUME AllInOrder, Around, blocked' \subseteq blocked,
         NEW r \in Request, NEW x, req' = [req EXCEPT ![r] = x],
         req'[r] = x => InOrder(r)'
  PROVE  AllInOrder'
<1>1. req'[r] = x /\ InOrder(r)'
  BY DEF AllInOrder
<1>2. req' \in [Request -> RequestRow]
  BY <1>1 DEF AllInOrder, InOrder
<1>3. ASSUME NEW s \in Request, s # r
      PROVE  InOrder(s)'
  <2>1. req'[s] = req[s] /\ InOrder(s)
    BY <1>3 DEF AllInOrder
  <2> QED
    BY <2>1, FoundLasts, AdmittedLasts DEF InOrder, Around
<1> QED
  BY <1>1, <1>2, <1>3 DEF AllInOrder

LEMMA NoneMoves ==
  ASSUME AllInOrder, Around, req' = req,
         \A r \in Request :
           blocked' \subseteq blocked \/ (req[r].pc \in {"look", "ask"}
                                          /\ IsBlockedEitherWay(req[r].by, req[r].to)'
                                            => Pair(req[r].by, req[r].to) \in passed')
  PROVE  AllInOrder'
<1>1. ASSUME NEW s \in Request
      PROVE  InOrder(s)'
  <2>1. req'[s] = req[s] /\ InOrder(s)
    BY DEF AllInOrder
  <2> QED
    BY <2>1, FoundLasts, AdmittedLasts DEF InOrder, Around
<1> QED
  BY <1>1 DEF AllInOrder

LEMMA OneEnds ==
  ASSUME AllInOrder, Around, blocked' \subseteq blocked,
         NEW r \in Request, req' = [req EXCEPT ![r] = Idle]
  PROVE  AllInOrder'
<1>1. Idle \in RequestRow
  BY DEF Idle, RequestRow, Step
<1>2. req'[r] = Idle => InOrder(r)'
  BY <1>1, IdleInOrder DEF InOrder
<1> QED
  BY <1>2, OneMoves

\* Operations on friendships that start.
LEMMA StartInOrder ==
  ASSUME AllInOrder, Around, StartFriends
  PROVE  AllInOrder'
<1>0. FriendsTypeOK
  BY DEF Around, Social
<1>1. ASSUME NEW r \in Request, NEW u \in User, NEW v \in User,
             \/ SendFriendRequest(r, u, v) \/ RemoveFriend(r, u, v)
             \/ UpdateFriendship(r, u, v) \/ ReadTheirs(r, u, v) \/ Cheer(r, u, v)
      PROVE  AllInOrder'
  <2>1. PICK pc \in {"look", "unlink mine", "entry", "show", "reach"} :
          /\ req' = [req EXCEPT ![r] = [pc |-> pc, by |-> u, to |-> v, row |-> 0]]
          /\ UNCHANGED <<blocked, agreed, shared>>
          /\ pc = "look" => ~IsBlockedEitherWay(u, v)
          /\ pc \in {"entry", "show", "reach"} => u # v
          /\ pc = "entry" => AreFriends(u, v)
          /\ pc = "show" => CanSee(u, v)
    BY <1>1, Zenon DEF SendFriendRequest, RemoveFriend, UpdateFriendship, ReadTheirs, Cheer, Begin,
      social
  <2> DEFINE x == [pc |-> pc, by |-> u, to |-> v, row |-> 0]
  <2>2. /\ x \in RequestRow /\ x.pc = pc /\ x.by = u /\ x.to = v /\ x.row = 0
    BY DEF RequestRow, Step
  <2>3. AreFriends(u, v) /\ u # v => Consent(u, v)
    BY FriendsConsent DEF Around
  <2>4. pc = "show" => Consent(u, v) \/ v \in shared.seen
    BY <2>1, <2>3 DEF CanSee, Around, Social, SharesRecorded
  <2> HIDE DEF x
  <2>5. ASSUME req'[r] = x PROVE InOrder(r)'
    <3>1. Admitted(req[r])'
      BY <2>2, <2>5 DEF Admitted
    <3>2. pc = "look" => ~IsBlockedEitherWay(req[r].by, req[r].to)'
      BY <2>1, <2>2, <2>5 DEF IsBlockedEitherWay
    <3>3. pc \in {"entry", "show"} /\ Consent(u, v) => Consent(req[r].by, req[r].to)'
      BY <2>1, <2>2, <2>5 DEF Consent, Both
    <3>4. Found(req[r])'
      BY <2>1, <2>2, <2>3, <2>4, <2>5, <3>2, <3>3 DEF Found
    <3> QED
      BY <2>2, <2>5, <3>1, <3>4 DEF InOrder
  <2>6. req' = [req EXCEPT ![r] = x] /\ blocked' = blocked
    BY <2>1 DEF x
  <2> QED
    BY <2>5, <2>6, OneMoves
<1>2. ASSUME NEW r \in Request, NEW u \in User, NEW i \in Row,
             RespondToFriendRequest(r, u, i) \/ CancelFriendRequest(r, u, i)
      PROVE  AllInOrder'
  <2>1. PICK pc \in {"accept", "decline", "cancel"} :
          /\ req' = [req EXCEPT ![r] = [pc |-> pc, by |-> u,
                       to |-> IF pc = "cancel" THEN row[i].to ELSE row[i].from, row |-> i]]
          /\ row[i].is = "pending" /\ UNCHANGED <<blocked, agreed, row>>
          /\ pc # "cancel" => row[i].to = u
    BY <1>2 DEF RespondToFriendRequest, CancelFriendRequest, Begin, social
  <2> DEFINE v == IF pc = "cancel" THEN row[i].to ELSE row[i].from
             x == [pc |-> pc, by |-> u, to |-> v, row |-> i]
  <2>2. <<row[i].from, row[i].to>> \in agreed /\ row[i].from \in User /\ row[i].to \in User
    BY <1>0, <2>1 DEF Around, Social, RowsAgreed, FriendsTypeOK
  <2>3. /\ x \in RequestRow /\ x.pc = pc /\ x.by = u /\ x.to = v /\ x.row = i
        /\ v \in User
        /\ pc = "accept" => v = row[i].from
    BY <2>2 DEF RequestRow, Step
  <2>4. req' = [req EXCEPT ![r] = x] /\ blocked' = blocked
    BY <2>1
  <2> HIDE DEF x, v
  <2>5. ASSUME req'[r] = x PROVE InOrder(r)'
    <3>1. Admitted(req[r])'
      BY <2>3, <2>5 DEF Admitted
    <3>2. pc = "accept" => StillTheirs(req[r])'
      BY <2>1, <2>3, <2>5 DEF StillTheirs, Pair
    <3>3. pc = "accept" => <<v, u>> \in agreed
      BY <2>1, <2>2, <2>3
    <3>4. Found(req[r])'
      <4>1. /\ req'[r].pc = pc /\ req'[r].by = u /\ req'[r].to = v /\ req'[r].row = i
            /\ agreed' = agreed
        BY <2>1, <2>3, <2>5
      <4>2. CASE pc = "accept"
        BY <2>3, <3>2, <3>3, <4>1, <4>2 DEF Found
      <4>3. CASE pc \in {"decline", "cancel"}
        BY <4>1, <4>3 DEF Found
      <4> QED
        BY <2>1, <4>2, <4>3
    <3> QED
      BY <2>3, <2>5, <3>1, <3>4 DEF InOrder
  <2> QED
    BY <2>4, <2>5, OneMoves
<1>3. ASSUME NEW r \in Request, NEW u \in User, NEW k \in Invite, RedeemInvite(r, u, k)
      PROVE  AllInOrder'
  <2> DEFINE x == [pc |-> "redeem", by |-> u, to |-> invite[k].by, row |-> k]
  <2>1. /\ req' = [req EXCEPT ![r] = x] /\ invite[k].is = "open"
        /\ UNCHANGED <<blocked, invite>>
    BY <1>3 DEF RedeemInvite, Begin, social
  <2>2. /\ x \in RequestRow /\ x.pc = "redeem" /\ x.by = u /\ x.to \in User /\ x.row = k
    BY <2>1 DEF RequestRow, Step, Around, Social, InvitesAreSomebodys
  <2> HIDE DEF x
  <2>3. ASSUME req'[r] = x PROVE InOrder(r)'
    BY <2>1, <2>2, <2>3 DEF InOrder, Found, Admitted
  <2> QED
    BY <2>1, <2>3, OneMoves
<1>4. ASSUME NEW u \in User, NEW v \in User, BlockUser(u, v)
      PROVE  AllInOrder'
  <2>1. /\ req' = req /\ blocked' = blocked \union {<<u, v>>}
        /\ passed' = passed \union
            {Pair(u, v) : r \in {r \in Request : Pair(req[r].by, req[r].to) = Pair(u, v)
                                                  /\ req[r].pc \in {"look", "ask"}}}
    BY <1>4, Zenon DEF BlockUser, Once
  <2>2. ASSUME NEW r \in Request, req[r].pc \in {"look", "ask"},
               IsBlockedEitherWay(req[r].by, req[r].to)'
        PROVE  Pair(req[r].by, req[r].to) \in passed'
    <3>1. CASE IsBlockedEitherWay(req[r].by, req[r].to)
      BY <2>1, <2>2, <3>1 DEF AllInOrder, InOrder, Found
    <3>2. CASE ~IsBlockedEitherWay(req[r].by, req[r].to)
      <4>1. Pair(req[r].by, req[r].to) = Pair(u, v)
        BY <2>1, <2>2, <3>2 DEF IsBlockedEitherWay, Pair
      <4> QED
        BY <2>1, <2>2, <4>1
    <3> QED
      BY <3>1, <3>2
  <2> QED
    BY <2>1, <2>2, NoneMoves
<1>5. CASE \/ \E u, v \in User : UnblockUser(u, v)
           \/ \E u \in User, k \in Invite : CreateInvite(u, k)
           \/ \E u \in User : UpdatePrivacy(u)
  <2>1. req' = req /\ blocked' \subseteq blocked
    BY <1>5 DEF UnblockUser, CreateInvite, UpdatePrivacy, Once
  <2> QED
    BY <2>1, NoneMoves
<1> QED
  BY <1>1, <1>2, <1>3, <1>4, <1>5, Zenon DEF StartFriends

\* Friendship requests that go on.
LEMMA GoesOn ==
  ASSUME AllInOrder, Around, blocked' = blocked, NEW r \in Request, NEW pc \in Step,
         req' = [req EXCEPT ![r].pc = pc],
         /\ req'[r].pc = pc /\ req'[r].by = req[r].by /\ req'[r].to = req[r].to
         /\ req'[r].row = req[r].row
         => (Found(req[r]) /\ Admitted(req[r]))'
  PROVE  AllInOrder'
<1> DEFINE x == [req[r] EXCEPT !.pc = pc]
<1>1. req[r] \in RequestRow
  BY DEF AllInOrder, InOrder
<1>2. /\ x \in RequestRow /\ x.pc = pc /\ x.by = req[r].by /\ x.to = req[r].to
      /\ x.row = req[r].row /\ req' = [req EXCEPT ![r] = x]
  BY <1>1 DEF RequestRow
<1> HIDE DEF x
<1>3. req'[r] = x => InOrder(r)'
  BY <1>2 DEF InOrder
<1> QED
  BY <1>2, <1>3, OneMoves

LEMMA FriendsInOrder ==
  ASSUME AllInOrder, Around, FriendsNext
  PROVE  AllInOrder'
<1>0. \A r \in Request : InOrder(r)
  BY DEF AllInOrder
<1>1. CASE StartFriends
  BY <1>1, StartInOrder
<1>2. ASSUME NEW r \in Request,
             \/ Ask(r) \/ Decline(r) \/ Cancel(r) \/ MirrorBoth(r) \/ MirrorOne(r)
             \/ Redeem(r) \/ Show(r) \/ CheerOn(r) \/ Die(r)
      PROVE  AllInOrder'
  <2>1. req' = [req EXCEPT ![r] = Idle] /\ blocked' = blocked
    BY <1>2, Zenon DEF Ask, Decline, Cancel, MirrorBoth, MirrorOne, Redeem, Show, CheerOn, Die,
      Update, End, social
  <2> QED
    BY <2>1, OneEnds
<1>3. ASSUME NEW r \in Request, Look(r)
      PROVE  AllInOrder'
  <2> DEFINE u == req[r].by  v == req[r].to
  <2>1. /\ req[r].pc = "look" /\ UNCHANGED social
        /\ \/ req' = [req EXCEPT ![r].pc = "ask"] /\ Rows(u, v) = {}
           \/ \E i \in Rows(u, v) :
               \/ req' = [req EXCEPT ![r] = [@ EXCEPT !.pc = "accept", !.row = i]]
                   /\ TheyAsked(i, u)
               \/ req' = [req EXCEPT ![r] = Idle]
               \/ req' = [req EXCEPT ![r] = [@ EXCEPT !.pc = "ask", !.row = i]]
    BY <1>3 DEF Look, At, Go, End
  <2>2. /\ req[r] \in RequestRow /\ req[r].row = 0 /\ u \in User /\ v \in User
        /\ IsBlockedEitherWay(u, v) => Pair(u, v) \in passed
        /\ UNCHANGED <<row, blocked, agreed, passed>>
    BY <1>0, <2>1 DEF InOrder, Found, social
  <2>3. CASE req' = [req EXCEPT ![r].pc = "ask"]
    <3>1. ASSUME req'[r].pc = "ask", req'[r].by = u, req'[r].to = v, req'[r].row = req[r].row
          PROVE  (Found(req[r]) /\ Admitted(req[r]))'
      BY <2>2, <3>1 DEF Found, Admitted, IsBlockedEitherWay, Pair
    <3>2. "ask" \in Step
      BY DEF Step
    <3> HIDE DEF u, v
    <3> QED
      BY <2>2, <2>3, <3>1, <3>2, GoesOn DEF u, v
  <2>4. ASSUME NEW i \in Rows(u, v), NEW pc \in {"ask", "accept"},
               req' = [req EXCEPT ![r] = [@ EXCEPT !.pc = pc, !.row = i]],
               pc = "accept" => TheyAsked(i, u)
        PROVE  AllInOrder'
    <3> DEFINE x == [req[r] EXCEPT !.pc = pc, !.row = i]
    <3>1. i \in Row /\ row[i].is # "none" /\ Pair(row[i].from, row[i].to) = Pair(u, v)
      BY DEF Rows, Exists
    <3>2. pc = "accept" => <<v, u>> \in agreed
      BY <2>4, <3>1 DEF TheyAsked, Around, Social, RowsAgreed, Pair
    <3>3. /\ x \in RequestRow /\ x.pc = pc /\ x.by = u /\ x.to = v /\ x.row = i
      BY <2>2, <3>1 DEF RequestRow, Step
    <3>4. req' = [req EXCEPT ![r] = x]
      BY <2>4
    <3> HIDE DEF x
    <3>5. ASSUME req'[r] = x PROVE InOrder(r)'
      <4>1. /\ req'[r].pc = pc /\ req'[r].by = u /\ req'[r].to = v /\ req'[r].row = i
            /\ req'[r] \in RequestRow
        BY <3>3, <3>5
      <4>2. StillTheirs(req[r])'
        BY <2>2, <3>1, <4>1 DEF StillTheirs, Pair
      <4>3. IsBlockedEitherWay(req[r].by, req[r].to)' => Pair(req[r].by, req[r].to)' \in passed'
        BY <2>2, <4>1 DEF IsBlockedEitherWay, Pair
      <4>4. Found(req[r])'
        <5>1. CASE pc = "ask"
          BY <2>2, <4>1, <4>2, <4>3, <5>1 DEF Found
        <5>2. CASE pc = "accept"
          BY <2>2, <3>2, <4>1, <4>2, <5>2 DEF Found
        <5> QED
          BY <5>1, <5>2
      <4>5. Admitted(req[r])'
        BY <4>1 DEF Admitted
      <4> QED
        BY <4>1, <4>4, <4>5 DEF InOrder
    <3> QED
      BY <2>2, <3>4, <3>5, OneMoves
  <2>5. CASE req' = [req EXCEPT ![r] = Idle]
    BY <2>2, <2>5, OneEnds
  <2> QED
    BY <2>1, <2>3, <2>4, <2>5
<1>4. ASSUME NEW r \in Request, Accept(r)
      PROVE  AllInOrder'
  <2>1. req[r].pc = "accept" /\ blocked' = blocked
    BY <1>4 DEF Accept, Update, At
  <2>2. CASE Exists(req[r].row)
    <3>1. /\ req' = [req EXCEPT ![r].pc = "mirror"]
          /\ agreed' = agreed \union {<<req[r].by, req[r].to>>}
      BY <1>4, <2>2 DEF Accept, Go
    <3>2. <<req[r].to, req[r].by>> \in agreed /\ req[r].by \in User /\ req[r].to \in User
      BY <1>0, <2>1 DEF InOrder, Found
    <3>3. ASSUME req'[r].pc = "mirror", req'[r].by = req[r].by, req'[r].to = req[r].to
          PROVE  (Found(req[r]) /\ Admitted(req[r]))'
      BY <3>1, <3>2, <3>3 DEF Found, Admitted, Consent, Both
    <3>4. "mirror" \in Step
      BY DEF Step
    <3> QED
      BY <2>1, <3>1, <3>3, <3>4, GoesOn
  <2>3. CASE ~Exists(req[r].row)
    BY <1>4, <2>1, <2>3, OneEnds DEF Accept, End
  <2> QED
    BY <2>2, <2>3
<1>5. ASSUME NEW r \in Request, Unlink(r)
      PROVE  AllInOrder'
  <2>1. blocked' = blocked
    BY <1>5 DEF Unlink
  <2>2. CASE req' = [req EXCEPT ![r] = Idle]
    BY <2>1, <2>2, OneEnds
  <2>3. CASE req[r].pc = "unlink mine" /\ req' = [req EXCEPT ![r].pc = "unlink theirs"]
    <3>1. req[r].by \in User /\ req[r].to \in User
      BY <1>0, <2>3 DEF InOrder, Found
    <3>2. ASSUME req'[r].pc = "unlink theirs", req'[r].by = req[r].by, req'[r].to = req[r].to
          PROVE  (Found(req[r]) /\ Admitted(req[r]))'
      BY <3>1, <3>2 DEF Found, Admitted
    <3>3. "unlink theirs" \in Step
      BY DEF Step
    <3> QED
      BY <2>1, <2>3, <3>2, <3>3, GoesOn
  <2> QED
    BY <1>5, <2>2, <2>3 DEF Unlink, At, Go, End
<1>6. ASSUME NEW r \in Request, AssertCanReach(r)
      PROVE  AllInOrder'
  <2>1. req[r].pc = "reach" /\ UNCHANGED <<blocked, agreed, shared>>
    BY <1>6 DEF AssertCanReach, At, social
  <2>2. CASE CanReach(req[r].by, req[r].to)
    <3>1. req' = [req EXCEPT ![r].pc = "cheer"]
      BY <1>6, <2>2 DEF AssertCanReach, Go
    <3>2. req[r].by \in User /\ req[r].to \in User /\ req[r].by # req[r].to
      BY <1>0, <2>1 DEF InOrder, Found
    <3>3. Consent(req[r].by, req[r].to) \/ req[r].to \in shared.cheers
      BY <2>2, <3>2, FriendsConsent DEF CanReach, Around, Social, SharesRecorded
    <3>4. ASSUME req'[r].pc = "cheer", req'[r].by = req[r].by, req'[r].to = req[r].to
          PROVE  (Found(req[r]) /\ Admitted(req[r]))'
      BY <2>1, <3>2, <3>3, <3>4 DEF Found, Admitted, Consent, Both
    <3>5. "cheer" \in Step
      BY DEF Step
    <3> QED
      BY <2>1, <3>1, <3>4, <3>5, GoesOn
  <2>3. CASE ~CanReach(req[r].by, req[r].to)
    BY <1>6, <2>1, <2>3, OneEnds DEF AssertCanReach, End
  <2> QED
    BY <2>2, <2>3
<1> QED
  BY <1>1, <1>2, <1>3, <1>4, <1>5, <1>6, Zenon DEF FriendsNext

\* Operations on circles.
LEMMA CirclesInOrderToo ==
  ASSUME AllInOrder, Around, CirclesSound, FriendsAssumption, CirclesNext
  PROVE  AllInOrder'
<1>0. /\ \A r \in Request : InOrder(r)
      /\ UNCHANGED social
      /\ AroundTyped /\ \A c \in Circle : Sound(c)
  BY CirclesKeepSocial DEF AllInOrder, CirclesSound
<1>1. blocked' = blocked
  BY <1>0 DEF social
<1>2. CASE StartCircle
  <2>1. req' = req
    BY <1>2 DEF StartCircle, CreateGroupGift, CreateSurprise, CreateEvent, MoveOnce
  <2> QED
    BY <1>1, <2>1, NoneMoves
<1>3. ASSUME NEW c \in Circle, ~Is(c, {"none"}),
             \/ \E v \in User :
                  \/ InviteToGroupGift(c, v) \/ AddSurpriseMembers(c, v)
                  \/ ContributionSettles(c, v) \/ RemoveGuest(c, v)
                  \/ LeaveConversation(c, v) \/ Load(v, c) \/ Disconnect(v, c)
                  \/ ListMessages(v, c)
             \/ CancelEvent(c) \/ RevealGroupGift(c) \/ MarkSurpriseRevealed(c)
             \/ UpdateCircle(c)
      PROVE  AllInOrder'
  <2>1. req' = req
    BY <1>3, Zenon DEF InviteToGroupGift, AddSurpriseMembers, ContributionSettles, RemoveGuest,
      LeaveConversation, Load, Disconnect, ListMessages, CancelEvent, RevealGroupGift,
      MarkSurpriseRevealed, UpdateCircle, MoveOnce
  <2> QED
    BY <1>1, <2>1, NoneMoves
<1>4. ASSUME NEW c \in Circle, ~Is(c, {"none"}), NEW r \in Free, NEW v \in User,
             \/ InviteGuests(r, c, v) \/ Leave(r, v, c) \/ SubscribePage(r, v, c)
             \/ SubscribeChat(r, v, c) \/ SendMessage(r, v, c)
      PROVE  AllInOrder'
  <2>1. PICK pc \in {"invite", "leave", "join page", "join chat", "say"},
             by \in User \union {Nobody}, to \in User \union {Nobody} :
          /\ req' = [req EXCEPT ![r] = [pc |-> pc, by |-> by, to |-> to, row |-> c]]
          /\ pc = "invite" => Is(c, {"event"}) /\ to \in User
          /\ pc # "invite" => by \in User
          /\ pc = "join chat" => by \in InChat(c)
          /\ pc = "join page" => Is(c, {"gift", "event"}) /\ MayLoad(by, c)
    BY <1>4, <1>0 DEF InviteGuests, Leave, SubscribePage, SubscribeChat, SendMessage, StartAt,
      MayListen, AroundTyped, CircleRow, Eligible
  <2>2. UNCHANGED around
    BY <1>4, Zenon DEF InviteGuests, Leave, SubscribePage, SubscribeChat, SendMessage
  <2> DEFINE x == [pc |-> pc, by |-> by, to |-> to, row |-> c]
  <2>3. /\ x \in RequestRow /\ x.pc = pc /\ x.by = by /\ x.to = to /\ x.row = c
    BY DEF RequestRow, Step
  <2>4. req' = [req EXCEPT ![r] = x] /\ r \in Request
    BY <2>1 DEF Free
  <2> HIDE DEF x
  <2>5. pc = "join chat" => by \in insiders[c] \ {circle[c].for}
    <3>1. ASSUME pc = "join chat"
          PROVE  by \in insiders[c] /\ by \in User /\ (Plan(c) => by # circle[c].for)
      BY <1>0, <2>1, <3>1 DEF Sound, InChat
    <3>2. ~Plan(c) => circle[c].for = Nobody
      <4>1. circle[c].kind \in Kind \union {"none"} /\ Sound(c)
        BY <1>0 DEF AroundTyped, CircleRow
      <4> QED
        BY <4>1, <1>4 DEF Sound, Is, Plan, Kind
    <3> QED
      BY <3>1, <3>2 DEF FriendsAssumption
  <2>6. pc = "join page" =>
          /\ by \in insiders[c] \union {circle[c].for}
          /\ by = circle[c].for => circle[c].revealed
    BY <1>0, <1>4, <2>1 DEF Sound, Plan, Is, MayLoad, Member, FriendsAssumption
  <2>7. ASSUME req'[r] = x PROVE InOrder(r)'
    <3>1. Found(req[r])'
      BY <2>3, <2>7 DEF Found
    <3>2. Admitted(req[r])'
      BY <1>4, <2>1, <2>2, <2>3, <2>5, <2>6, <2>7 DEF Admitted, InCircle, Is, around
    <3> QED
      BY <2>3, <2>7, <3>1, <3>2 DEF InOrder
  <2> QED
    BY <1>1, <2>4, <2>7, OneMoves
<1>5. ASSUME NEW r \in Free, NEW u \in User, NEW v \in User, CreateConversation(r, u, v)
      PROVE  AllInOrder'
  <2> DEFINE x == [pc |-> "find chat", by |-> u, to |-> v, row |-> Nobody]
  <2>1. req' = [req EXCEPT ![r] = x] /\ u # v /\ AreFriends(u, v) /\ r \in Request
    BY <1>5 DEF CreateConversation, StartAt, Free
  <2>2. Consent(u, v)
    BY <2>1, FriendsConsent DEF Around
  <2>3. /\ x \in RequestRow /\ x.pc = "find chat" /\ x.by = u /\ x.to = v
    BY DEF RequestRow, Step
  <2> HIDE DEF x
  <2>4. ASSUME req'[r] = x PROVE InOrder(r)'
    <3>1. Consent(req[r].by, req[r].to)'
      BY <1>0, <2>2, <2>3, <2>4 DEF Consent, Both, social
    <3> QED
      BY <2>3, <2>4, <3>1 DEF InOrder, Found, Admitted
  <2> QED
    BY <1>1, <2>1, <2>4, OneMoves
<1>6. ASSUME NEW r \in Request,
             NewConversation(r) \/ AddGuest(r) \/ LeaveChat(r) \/ JoinRoom(r) \/ Say(r)
      PROVE  AllInOrder'
  <2>1. req' = [req EXCEPT ![r] = Idle]
    BY <1>6, Zenon DEF NewConversation, AddGuest, LeaveChat, JoinRoom, Say, Ends
  <2> QED
    BY <1>1, <2>1, OneEnds
<1>7. ASSUME NEW r \in Request, FindConversation(r)
      PROVE  AllInOrder'
  <2>1. CASE req' = [req EXCEPT ![r] = Idle]
    BY <1>1, <2>1, OneEnds
  <2>2. CASE req' = [req EXCEPT ![r].pc = "new chat"] /\ req[r].pc = "find chat"
    <3>1. req[r].by \in User /\ req[r].to \in User /\ Consent(req[r].by, req[r].to)
      BY <1>0, <2>2 DEF InOrder, Found
    <3>2. ASSUME req'[r].pc = "new chat", req'[r].by = req[r].by, req'[r].to = req[r].to
          PROVE  (Found(req[r]) /\ Admitted(req[r]))'
      BY <1>0, <3>1, <3>2 DEF Found, Admitted, Consent, Both, social
    <3>3. "new chat" \in Step
      BY DEF Step
    <3> QED
      BY <1>1, <2>2, <3>2, <3>3, GoesOn
  <2> QED
    BY <1>7, <2>1, <2>2, Zenon DEF FindConversation, At, Goes, Ends
<1>8. ASSUME NEW r \in Request, LeaveRow(r)
      PROVE  AllInOrder'
  <2>1. /\ req[r].pc = "leave" /\ req' = [req EXCEPT ![r].pc = "leave chat"]
    BY <1>8 DEF LeaveRow, At, Goes
  <2>2. req[r].by \in User /\ InCircle(req[r])
    BY <1>0, <2>1 DEF InOrder, Admitted
  <2>3. ASSUME req'[r].pc = "leave chat", req'[r].by = req[r].by, req'[r].row = req[r].row
        PROVE  (Found(req[r]) /\ Admitted(req[r]))'
    <3>1. InCircle(req[r])'
      BY <2>2, <2>3 DEF InCircle, Around, Lasts, Is
    <3> QED
      BY <2>2, <2>3, <3>1 DEF Found, Admitted
  <2>4. "leave chat" \in Step
    BY DEF Step
  <2> QED
    BY <1>1, <2>1, <2>3, <2>4, GoesOn
<1>9. CASE UseCircle
  BY <1>3, <1>4, <1>9, ZenonT(60) DEF UseCircle
<1> QED
  BY <1>2, <1>5, <1>6, <1>7, <1>8, <1>9, Zenon DEF CirclesNext, Proceed

-----------------------------------------------------------------------------
(***************************************************************************)
(* The theorems.                                                           *)
(***************************************************************************)
LEMMA Parts ==
  ASSUME TypeOK
  PROVE  IInv <=> Social /\ CirclesSound /\ AllInOrder
<1>1. /\ FriendsTypeOK /\ AroundTyped /\ req \in [Request -> RequestRow]
  BY DEF TypeOK, AroundTyped, CircleRow, RequestRow
<1>2. AllInOrder <=> RequestsInOrder
  BY <1>1 DEF AllInOrder, InOrder, RequestsInOrder
<1> QED
  BY <1>1, <1>2, SoundCircles DEF Social

LEMMA TypesAgain ==
  TypeOK <=> /\ FriendsTypeOK /\ AroundTyped /\ req \in [Request -> RequestRow]
             /\ calls \in Nat /\ moves \in Nat
BY DEF TypeOK, AroundTyped, CircleRow, RequestRow

\* Only what may still start counts down.
LEMMA BoundsTyped ==
  ASSUME calls \in Nat, moves \in Nat, Next
  PROVE  calls' \in Nat /\ moves' \in Nat
<1>1. ASSUME calls > 0, StartFriends
      PROVE  calls' \in Nat
  <2>1. calls' = calls - 1
    BY <1>1, Zenon DEF StartFriends, SendFriendRequest, RemoveFriend, UpdateFriendship, ReadTheirs,
      Cheer, RespondToFriendRequest, CancelFriendRequest, RedeemInvite, BlockUser, UnblockUser,
      CreateInvite, UpdatePrivacy, Begin, Once
  <2> QED
    BY <1>1, <2>1
<1>2. ASSUME NEW r \in Request,
             \/ Look(r) \/ Ask(r) \/ Accept(r) \/ Decline(r) \/ Cancel(r)
             \/ MirrorBoth(r) \/ MirrorOne(r) \/ Unlink(r) \/ Redeem(r)
             \/ Show(r) \/ AssertCanReach(r) \/ CheerOn(r) \/ Die(r)
      PROVE  calls' \in Nat
  <2>1. CASE Look(r) \/ Ask(r) \/ Accept(r) \/ Decline(r) \/ Cancel(r) \/ Unlink(r)
               \/ AssertCanReach(r)
    BY <2>1 DEF Look, Ask, Accept, Decline, Cancel, Unlink, AssertCanReach, Go, End
  <2>2. CASE MirrorBoth(r) \/ MirrorOne(r) \/ Redeem(r) \/ Show(r) \/ CheerOn(r) \/ Die(r)
    BY <2>2 DEF MirrorBoth, MirrorOne, Redeem, Show, CheerOn, Die, End
  <2> QED
    BY <1>2, <2>1, <2>2
<1>3. CASE FriendsNext /\ UNCHANGED <<around, moves>>
  BY <1>1, <1>2, <1>3, Zenon DEF FriendsNext
<1>4. CASE moves > 0 /\ (StartCircle \/ UseCircle
                          \/ \E r \in Free, u, v \in User : CreateConversation(r, u, v))
  <2>1. Move
    BY <1>4, UseCircleMoves DEF StartCircle, CreateGroupGift, CreateSurprise, CreateEvent,
      MoveOnce, CreateConversation, StartAt
  <2> QED
    BY <1>4, <2>1 DEF Move
<1>5. CASE \E r \in Request : Proceed(r)
  BY <1>5 DEF Proceed, FindConversation, NewConversation, AddGuest, LeaveRow, LeaveChat,
    JoinRoom, Say, Goes, Ends
<1> QED
  BY <1>3, <1>4, <1>5 DEF Next, CirclesNext

LEMMA InitInv == ASSUME FriendsAssumption, CirclesAssumption PROVE Init => IInv
<1> SUFFICES ASSUME Init PROVE IInv
  OBVIOUS
<1>1. PICK s \in Start : calls = s.friends /\ moves = s.circles /\ FriendsInit(s.known)
  BY DEF Init
<1> DEFINE known == s.known
           given == {known[i] : i \in DOMAIN known}
<1>2. calls \in Nat /\ moves \in Nat /\ known \in Seq(User \X User)
  BY <1>1 DEF CirclesAssumption
<1>3. \A i \in DOMAIN known : known[i] \in User \X User
  BY <1>2
<1> HIDE DEF known
<1>4. /\ agreed \subseteq User \X User /\ linked = agreed
      /\ \A e \in agreed : <<e[2], e[1]>> \in agreed /\ e = <<e[1], e[2]>>
      /\ \A i \in DOMAIN known : Consent(known[i][1], known[i][2])
  <2>1. agreed = UNION {{<<p[1], p[2]>>, <<p[2], p[1]>>} : p \in given} /\ linked = agreed
    BY <1>1 DEF FriendsInit, known
  <2>2. \A p \in given : p \in User \X User
    BY <1>3
  <2>3. \A e : e \in agreed <=> \E p \in given : e = <<p[1], p[2]>> \/ e = <<p[2], p[1]>>
    BY <2>1
  <2> QED
    BY <2>1, <2>2, <2>3 DEF Consent, Both
<1>5. /\ row = [i \in Row |-> IF i \in DOMAIN known
                               THEN [from |-> known[i][1], to |-> known[i][2], is |-> "accepted"]
                               ELSE NoRow]
      /\ blocked = {} /\ saw = {} /\ reached = {} /\ passed = {}
      /\ shares = [u \in User |-> [seen |-> "friends", cheers |-> FALSE]]
      /\ invite = [k \in Invite |-> [by |-> Nobody, is |-> "none", entry |-> "none"]]
      /\ shared = [seen |-> {}, cheers |-> {}]
  BY <1>1 DEF FriendsInit, known
<1>6. FriendsTypeOK
  BY <1>3, <1>4, <1>5 DEF FriendsTypeOK, NoRow, Visibility
<1>7. Social
  <2>1. RowsAgreed
    BY <1>4, <1>5 DEF RowsAgreed, NoRow
  <2>2. OnlyByConsent
    BY <1>4, <1>5, <2>1 DEF OnlyByConsent, RowsAgreed, Consent, Both
  <2>3. InvitesAreSomebodys /\ SharesRecorded /\ BlockedStayApart
    BY <1>5 DEF InvitesAreSomebodys, SharesRecorded, BlockedStayApart
  <2> QED
    BY <1>6, <2>1, <2>2, <2>3 DEF Social
<1>8. CirclesSound
  <2>1. /\ circle = [c \in Circle |-> NoCircle]
        /\ seat = [c \in Circle |-> [u \in User |-> "never"]]
        /\ room = [c \in Circle |-> {}] /\ page = [c \in Circle |-> {}]
        /\ heard = [c \in Circle |-> {}] /\ insiders = [c \in Circle |-> {}]
    BY DEF Init
  <2>2. NoCircle \in CircleRow /\ NoCircle.kind = "none" /\ NoCircle.guests = {}
    BY DEF NoCircle, CircleRow
  <2>3. AroundTyped
    BY <2>1, <2>2 DEF AroundTyped
  <2>4. ASSUME NEW c \in Circle PROVE Sound(c)
    BY <2>1, <2>2 DEF Sound, Is, Plan, Empty, InChat
  <2> QED
    BY <2>3, <2>4 DEF CirclesSound
<1>9. AllInOrder
  BY DEF Init, AllInOrder, InOrder, Idle, RequestRow, Step, Found, Admitted
<1> QED
  BY <1>2, <1>6, <1>7, <1>8, <1>9, TypesAgain, Parts DEF CirclesSound, AllInOrder

LEMMA StepInv == ASSUME FriendsAssumption PROVE IInv /\ [Next]_vars => IInv'
<1> SUFFICES ASSUME IInv, [Next]_vars PROVE IInv'
  OBVIOUS
<1>0. TypeOK /\ Social /\ CirclesSound /\ AllInOrder /\ RequestsInOrder
  BY Parts DEF IInv
<1>1. Social' /\ CirclesSound' /\ AllInOrder' /\ calls' \in Nat /\ moves' \in Nat
  <2>1. CASE Next
    <3>1. Around /\ Social' /\ CirclesSound'
      BY <1>0, <2>1, EverythingElse DEF Around
    <3>2. AllInOrder'
      BY <1>0, <2>1, <3>1, FriendsInOrder, CirclesInOrderToo DEF Next
    <3>3. calls' \in Nat /\ moves' \in Nat
      BY <1>0, <2>1, BoundsTyped DEF TypeOK
    <3> QED
      BY <3>1, <3>2, <3>3
  <2>2. CASE UNCHANGED vars
    <3>1. UNCHANGED <<social, around, req, calls, moves>>
      BY <2>2 DEF vars
    <3>2. Social' /\ SocialGrows
      BY <1>0, <3>1, SocialUnchanged
    <3>3. agreed' = agreed /\ blocked' = blocked
      BY <3>1 DEF social
    <3>4. AroundTyped' /\ \A d \in Circle : Same(d)
      BY <1>0, <3>1 DEF CirclesSound, AroundTyped, Same, around
    <3>5. CirclesSound' /\ \A d \in Circle : Lasts(d)
      BY <1>0, <3>3, <3>4, SameIsSound DEF CirclesSound
    <3>6. AllInOrder'
      BY <1>0, <3>1, <3>2, <3>3, <3>5, NoneMoves DEF Around
    <3> QED
      BY <1>0, <3>1, <3>2, <3>5, <3>6 DEF TypeOK
  <2> QED
    BY <2>1, <2>2
<1>2. TypeOK'
  <2>1. FriendsTypeOK' /\ AroundTyped' /\ req' \in [Request -> RequestRow]
    BY <1>1, Zenon DEF Social, CirclesSound, AllInOrder
  <2> QED
    BY <1>1, <2>1 DEF TypeOK, AroundTyped, CircleRow, RequestRow
<1>3. RequestsInOrder'
  BY <1>1 DEF AllInOrder, InOrder, RequestsInOrder
<1>4. (CirclesInOrder /\ PlanningIsHidden /\ OnlyInsidersHear)'
  BY <1>1, Zenon DEF CirclesSound, CirclesInOrder, PlanningIsHidden, OnlyInsidersHear, Sound
<1> QED
  BY <1>1, <1>2, <1>3, <1>4, Zenon DEF Social, IInv

\* The inductive invariant holds in every reachable state.
THEOREM Invariance == Spec => []IInv
  BY InitInv, StepInv, FriendsAssumption, CirclesAssumption, PTL DEF Spec

\* Every row, entry, request, circle and room is of its type.
THEOREM TypeCorrect == Spec => []TypeOK
  BY Invariance, PTL DEF IInv

\* Friendship, a linked entry on a calendar, what is shown of what somebody
\* shares, and a cheer, only ever come from both having agreed, or from
\* somebody having asked everyone (friend.service.ts, access.service.ts).
THEOREM OnlyByConsentHolds == Spec => []OnlyByConsent
  BY Invariance, PTL DEF IInv

\* Blocking leaves no way to each other but through what was under way, or
\* through an invitation (blockUser, sendFriendRequest, redeemInvite).
THEOREM BlockedStayApartHolds == Spec => []BlockedStayApart
  BY Invariance, PTL DEF IInv

\* The person a gift or a surprise is for learns nothing of it early
\* (groupGift.service.ts, surprise.service.ts, chat.service.ts, socket.ts).
THEOREM PlanningIsHiddenHolds == Spec => []PlanningIsHidden
  BY Invariance, PTL DEF IInv

\* Nobody hears of a circle from outside it (the services of the circles,
\* chat.service.ts, socket.ts).
THEOREM OnlyInsidersHearHolds == Spec => []OnlyInsidersHear
  BY Invariance, PTL DEF IInv
=============================================================================
