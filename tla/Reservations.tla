---------------------------- MODULE Reservations ----------------------------
(***************************************************************************)
(* One wish of a wishlist and the claims on it: reservations made in the   *)
(* app (reservation.service.ts), orders that buy the wish and are          *)
(* delivered or taken back (order.service.ts), and the owner who edits or  *)
(* removes it (wishlist.service.ts).                                       *)
(*                                                                         *)
(* reserveItem, cancelReservation and the settlement of an order run in    *)
(* serializable transactions and are one step.  updateReservation and      *)
(* releaseOrderSideEffects read first and write later.                     *)
(***************************************************************************)
EXTENDS Integers, Sequences, Functions

CONSTANTS
  Person,       \* who may claim the wish
  GiftOrder,    \* orders that name the wish
  Buyer,        \* whose order it is
  Wanted,       \* how many of the wish the order buys
  MaxQuantity,  \* bound: how many the owner wishes for
  MaxClaims,    \* bound: rows of gift_reservations
  Request,      \* requests that run concurrently
  NoOrder       \* the order of a request that works on none

ASSUME ReservationsAssumption ==
  /\ Buyer \in [GiftOrder -> Person]
  /\ Wanted \in [GiftOrder -> Nat \ {0}]
  /\ MaxQuantity \in Nat \ {0}
  /\ MaxClaims \in Nat
  /\ NoOrder \notin GiftOrder \union Person

VARIABLES
  wish,     \* the wishlist_items row
  claims,   \* rows of gift_reservations for it, oldest first
  bought,   \* what became of each order
  history,  \* claims that are in the gift histories
  request,  \* program counter and locals of every request
  blind     \* history: what writes by an outdated reading have done to the count

reservationsVars == <<wish, claims, bought, history, request>>

WishStatus  == {"AVAILABLE", "RESERVED", "PURCHASED", "DELIVERED", "ARCHIVED"}
ClaimStatus == {"RESERVED", "PURCHASED", "DELIVERED", "CANCELLED"}
Wish  == [quantity : 1 .. MaxQuantity, reserved : 0 .. MaxQuantity,
          status : WishStatus, deleted : BOOLEAN]
Claim == [by : Person, quantity : 1 .. MaxQuantity, status : ClaimStatus,
          order : GiftOrder \union {NoOrder}]
Work == [pc : {"idle", "update", "release", "held"}, claim : 0 .. MaxClaims,
         to : ClaimStatus, order : GiftOrder \union {NoOrder},
         seen : 0 .. MaxQuantity]
NoWork == [pc |-> "idle", claim |-> 0, to |-> "RESERVED", order |-> NoOrder,
           seen |-> 0]

\* The CHECK constraints on wishlist_items.
WithinQuantity(w) == w.reserved \in 0 .. w.quantity

ReservationsTypeOK ==
  /\ wish \in Wish /\ WithinQuantity(wish)
  /\ claims \in Seq(Claim)
  /\ bought \in [GiftOrder -> {"UNPAID", "PAID", "DELIVERED", "RELEASED"}]
  /\ history \subseteq DOMAIN claims
  /\ request \in [Request -> Work]

ReservationsInit ==
  /\ wish \in {[quantity |-> q, reserved |-> 0, status |-> "AVAILABLE",
                deleted |-> FALSE] : q \in 1 .. MaxQuantity}
  /\ claims = <<>>
  /\ bought = [o \in GiftOrder |-> "UNPAID"]
  /\ history = {}
  /\ request = [h \in Request |-> NoWork]

-----------------------------------------------------------------------------
AtRest(h) == request[h].pc = "idle"

Live(i) == claims[i].status # "CANCELLED"

\* Another transaction has written claim i and not committed.
Held(i) == \E h \in Request : request[h].pc = "held" /\ request[h].claim = i

Least(a, b) == IF a < b THEN a ELSE b
Monus(a, b) == IF a < b THEN 0 ELSE a - b

NewClaim(p, q, status, o) ==
  /\ Len(claims) < MaxClaims
  /\ claims' = Append(claims, [by |-> p, quantity |-> q, status |-> status,
                               order |-> o])

SetClaim(i, status) == claims' = [claims EXCEPT ![i].status = status]

Left(q) == q <= wish.quantity - wish.reserved

-----------------------------------------------------------------------------
(***************************************************************************)
(* Reservations.                                                           *)
(***************************************************************************)
ReserveItem(h, p, q) ==
  LET reserved == wish.reserved + q IN
  /\ AtRest(h)
  /\ ~wish.deleted
  /\ \A i \in DOMAIN claims : claims[i].by = p => ~Live(i)
  /\ Left(q)
  /\ NewClaim(p, q, "RESERVED", NoOrder)
  /\ wish' = [wish EXCEPT !.reserved = reserved,
       !.status = IF reserved >= wish.quantity THEN "RESERVED" ELSE "AVAILABLE"]
  /\ UNCHANGED <<bought, history, request>>

\* Slip: a claim on its way can be cancelled twice.
AnyTime(status) == status \in ClaimStatus

Cancellable(status) == status \notin {"CANCELLED", "DELIVERED"}

\* A removed wish cannot be locked, so its claims cannot be cancelled.
CancelReservation(h, i) ==
  LET reserved == Monus(wish.reserved, claims[i].quantity) IN
  /\ AtRest(h)
  /\ Cancellable(claims[i].status)
  /\ ~Held(i)
  /\ ~wish.deleted
  /\ SetClaim(i, "CANCELLED")
  /\ wish' = [wish EXCEPT !.reserved = reserved,
       !.status = IF reserved >= wish.quantity THEN "RESERVED" ELSE "AVAILABLE"]
  /\ UNCHANGED <<bought, history, request>>

\* updateReservation reads the claim before its transaction.
ReadForUpdate(h, i, to) ==
  /\ AtRest(h)
  /\ Live(i)
  /\ request' = [request EXCEPT ![h] =
       [NoWork EXCEPT !.pc = "update", !.claim = i, !.to = to]]
  /\ UNCHANGED <<wish, claims, bought, history>>

\* Neither the claim's status nor the order of the stages is looked at again.
UpdateReservation(h) ==
  LET i == request[h].claim
      to == request[h].to IN
  /\ request[h].pc = "update"
  /\ ~Held(i)
  /\ SetClaim(i, to)
  /\ wish' = [wish EXCEPT !.status = to]
  /\ history' = IF to = "DELIVERED" THEN history \union {i} ELSE history
  /\ request' = [request EXCEPT ![h] = NoWork]
  /\ UNCHANGED bought

-----------------------------------------------------------------------------
(***************************************************************************)
(* Orders.                                                                 *)
(***************************************************************************)
\* onOrderPaid: the buyer's own reservation is used, or what is left of the
\* wish is claimed.  A removed wish is not told apart.
OrderPaid(h, o) ==
  LET mine == {i \in DOMAIN claims : /\ claims[i].by = Buyer[o]
                                     /\ claims[i].status = "RESERVED"}
      q == Least(Wanted[o], wish.quantity - wish.reserved)
      reserved == wish.reserved + q IN
  /\ AtRest(h)
  /\ bought[o] = "UNPAID"
  /\ bought' = [bought EXCEPT ![o] = "PAID"]
  /\ CASE mine # {} ->
            \E i \in mine :
              /\ claims' = [claims EXCEPT ![i].status = "PURCHASED", ![i].order = o]
              /\ wish' = [wish EXCEPT !.status = "PURCHASED"]
       [] mine = {} /\ wish.reserved < wish.quantity ->
              /\ NewClaim(Buyer[o], q, "PURCHASED", o)
              /\ wish' = [wish EXCEPT !.reserved = reserved,
                   !.status = IF reserved >= wish.quantity THEN "PURCHASED"
                                                           ELSE "AVAILABLE"]
       [] OTHER -> UNCHANGED <<claims, wish>>
  /\ UNCHANGED <<history, request>>

OfOrder(o) == {i \in DOMAIN claims : /\ claims[i].order = o
                                     /\ claims[i].status \in {"RESERVED", "PURCHASED"}}

\* completeDeliveredOrder.
OrderDelivered(h, o) ==
  /\ AtRest(h)
  /\ bought[o] = "PAID"
  /\ \A i \in OfOrder(o) : ~Held(i)
  /\ bought' = [bought EXCEPT ![o] = "DELIVERED"]
  /\ claims' = [i \in DOMAIN claims |->
       IF i \in OfOrder(o) THEN [claims[i] EXCEPT !.status = "DELIVERED"]
                           ELSE claims[i]]
  /\ wish' = [wish EXCEPT !.status = "DELIVERED"]
  /\ UNCHANGED <<history, request>>

\* releaseOrderSideEffects finds the claims of a paid order, ...
ReadForRelease(h, o) ==
  /\ AtRest(h)
  /\ bought[o] = "PAID"
  /\ IF OfOrder(o) = {}
       THEN bought' = [bought EXCEPT ![o] = "RELEASED"] /\ UNCHANGED request
       ELSE \E i \in OfOrder(o) :
              /\ request' = [request EXCEPT ![h] =
                   [NoWork EXCEPT !.pc = "release", !.claim = i, !.order = o]]
              /\ UNCHANGED bought
  /\ UNCHANGED <<wish, claims, history>>

\* ... cancels them (which locks their rows) and reads the wish, ...
HoldClaim(h) ==
  /\ request[h].pc = "release"
  /\ ~Held(request[h].claim)
  /\ request' = [request EXCEPT ![h].pc = "held", ![h].seen = wish.reserved]
  /\ UNCHANGED <<wish, claims, bought, history>>

\* Slip: a claim taken back stays counted.
Uncounted(seen, q) == seen + 0 * q

Freed(seen, q) == Monus(seen, q)

\* ... and writes the wish from what it read.  A CHECK constraint that fails
\* rolls everything back.
Release(h) ==
  LET i == request[h].claim
      w == [wish EXCEPT !.reserved = Freed(request[h].seen, claims[i].quantity),
                        !.status = "AVAILABLE"] IN
  /\ request[h].pc = "held"
  /\ IF WithinQuantity(w)
       THEN /\ SetClaim(i, "CANCELLED")
            /\ wish' = w
            /\ bought' = [bought EXCEPT ![request[h].order] = "RELEASED"]
       ELSE UNCHANGED <<claims, wish, bought>>
  /\ request' = [request EXCEPT ![h] = NoWork]
  /\ UNCHANGED history

-----------------------------------------------------------------------------
(***************************************************************************)
(* The owner.                                                              *)
(***************************************************************************)
\* updateWishlistItem refuses to go below what is claimed; where its read is
\* stale the CHECK constraint does.
ChangeQuantity(h, n) ==
  /\ AtRest(h)
  /\ ~wish.deleted
  /\ n >= wish.reserved /\ n # wish.quantity
  /\ wish' = [wish EXCEPT !.quantity = n]
  /\ UNCHANGED <<claims, bought, history, request>>

\* deleteWishlistItem keeps the claims.
DeleteItem(h) ==
  /\ AtRest(h)
  /\ ~wish.deleted
  /\ wish' = [wish EXCEPT !.deleted = TRUE, !.status = "ARCHIVED"]
  /\ UNCHANGED <<claims, bought, history, request>>

-----------------------------------------------------------------------------
ReservationsNext ==
  \E h \in Request :
    \/ \E p \in Person, q \in 1 .. MaxQuantity : ReserveItem(h, p, q)
    \/ \E i \in DOMAIN claims :
         \/ CancelReservation(h, i)
         \/ \E to \in {"PURCHASED", "DELIVERED"} : ReadForUpdate(h, i, to)
    \/ UpdateReservation(h)
    \/ \E o \in GiftOrder : OrderPaid(h, o) \/ OrderDelivered(h, o) \/ ReadForRelease(h, o)
    \/ HoldClaim(h) \/ Release(h)
    \/ \E n \in 1 .. MaxQuantity : ChangeQuantity(h, n)
    \/ DeleteItem(h)

ReservationsSpec == ReservationsInit /\ [][ReservationsNext]_reservationsVars

\* Two transactions write without looking at what they read before.  The
\* history remembers what that did: updateReservation revived a claim that was
\* cancelled meanwhile; releaseOrderSideEffects took off a claim that was off
\* already, or wrote over a count that had grown ("lost"), or over one that had
\* shrunk ("kept").
Blunder == {"revived", "lost", "kept"}

Makes(h, blunder) ==
  LET l == request[h] IN
  \/ blunder = "revived" /\ l.pc = "update" /\ ~Live(l.claim)
  \/ blunder = "lost" /\ l.pc = "held" /\ (~Live(l.claim) \/ l.seen < wish.reserved)
  \/ blunder = "kept" /\ l.pc = "held" /\ l.seen > wish.reserved

Blunders ==
  {b \in Blunder :
     \E h \in Request :
       /\ Makes(h, b)
       /\ request'[h] # request[h]
       /\ wish' # wish \/ claims' # claims}

NotedReservationsInit == ReservationsInit /\ blind = {}

NotedReservations ==
  /\ NotedReservationsInit
  /\ [][ReservationsNext /\ blind' = blind \union Blunders]_<<reservationsVars, blind>>

-----------------------------------------------------------------------------
(***************************************************************************)
(* Correctness.                                                            *)
(***************************************************************************)
Quantities == [i \in DOMAIN claims |-> claims[i].quantity]
Claimed == SumFunctionOnSet(Quantities, {i \in DOMAIN claims : Live(i)})

\* README: "No duplicate gifts": reservations and orders together never claim
\* more than the owner wishes for, however requests overlap; not even where a
\* cancellation was written over and stays counted.  Only a claim that came
\* back, or a count that was lost, lets the wish be claimed twice.
NoDuplicateGifts == blind \subseteq {"kept"} => Claimed <= wish.quantity

\* reservedQuantity is what the claims add up to, through every mix of
\* reservations, purchases, deliveries, orders taken back and edits by the
\* owner that overlap, until one writes by an outdated reading.
CountsClaims == blind = {} => wish.reserved = Claimed
=============================================================================
