------------------------------- MODULE Orders -------------------------------
(***************************************************************************)
(* Gift orders from checkout to delivery or refund (order.service.ts,      *)
(* coupon.service.ts, refund.service.ts and the order actions of           *)
(* admin.service.ts).                                                      *)
(*                                                                         *)
(* Every order is for one unit of one product and pays Price; its payment  *)
(* settles as Payments describes.  Most requests read the order, decide,   *)
(* and write in a transaction that does not look again: read and write are *)
(* separate steps here.                                                    *)
(***************************************************************************)
EXTENDS Integers, Sequences, FiniteSetsExt

CONSTANTS
  Order,       \* checkouts, one per idempotency key
  Price,       \* what an order costs
  Stock,       \* units of the product on sale
  UsageLimit,  \* of the one coupon
  Method,      \* how an order may be paid
  Handler,     \* requests and webhooks that run concurrently
  Nothing,     \* what an idle handler works on
  MaxRefunds,  \* bound: refund rows of an order
  MaxStock,    \* bound: stock that overlapping releases may reach
  MaxFaults    \* bound: crashes, lost answers and failed statements

ASSUME OrdersAssumption ==
  /\ Price \in Nat \ {0}
  /\ Stock \in Nat
  /\ UsageLimit \in Nat
  /\ Method \subseteq {"CARD", "WALLET", "MPESA"}
  /\ Nothing \notin Order
  /\ MaxRefunds \in Nat
  /\ MaxStock \in Nat
  /\ MaxFaults \in Nat

VARIABLES
  order,      \* orders.status, "NONE" before the row exists
  delivery,   \* deliveries.status
  payment,    \* payments.status of the order's one payment
  method,     \* its provider
  refunds,    \* refund rows of the payment
  moved,      \* external: money the provider has given back
  keys,       \* external: idempotency keys of refunds the provider knows
  stock,      \* products.stock
  coupon,     \* orders with a redemption row
  usage,      \* promotions.usageCount
  proc,       \* program counter and locals of every request
  faults,
  stale       \* history: orders that a request has written by what was no
              \* longer so

orderVars  == <<order, delivery, payment, method>>
refundVars == <<refunds, moved, keys>>
shopVars   == <<stock, coupon, usage>>
vars == <<orderVars, refundVars, shopVars, proc, faults>>

OrderStatus    == {"NONE", "AWAITING_PAYMENT", "PAID", "PROCESSING", "FULFILLED",
                   "CANCELLED", "REFUNDED"}
DeliveryStatus == {"NONE", "PENDING", "PROCESSING", "DISPATCHED",
                   "OUT_FOR_DELIVERY", "DELIVERED", "FAILED", "RETURNED",
                   "CANCELLED"}
PaymentStatus  == {"NONE", "PENDING", "SUCCESSFUL", "FAILED", "CANCELLED",
                   "REFUNDED"}
RefundRow == [amount : 1 .. Price, status : {"PENDING", "REFUNDED", "FAILED"}]
Pc == {"idle", "create", "pay", "cancel", "status", "deliver", "refund", "row",
       "send", "done", "pending", "failed", "mark", "manual"}

\* The locals of a request: the order as it read it, what it was asked to do
\* and how far its refund has come.
Local == [pc       : Pc,
          on       : Order \union {Nothing},
          order    : OrderStatus,
          delivery : DeliveryStatus,
          flag     : BOOLEAN,            \* coupon given; paid; full refund
          out      : BOOLEAN,            \* the goods, when a refund was asked for
          amount   : 0 .. Price,         \* 0: not given
          already  : Nat,                \* alreadyRefunded
          row      : 0 .. MaxRefunds]    \* the refund row

Idle == [pc |-> "idle", on |-> Nothing, order |-> "NONE", delivery |-> "NONE",
         flag |-> FALSE, out |-> FALSE, amount |-> 0, already |-> 0, row |-> 0]

TypeOK ==
  /\ order \in [Order -> OrderStatus]
  /\ delivery \in [Order -> DeliveryStatus]
  /\ payment \in [Order -> PaymentStatus]
  /\ method \in [Order -> Method]
  /\ refunds \in [Order -> Seq(RefundRow)]
  /\ moved \in [Order -> Nat]
  /\ keys \in [Order -> SUBSET (0 .. Price)]
  /\ stock \in Nat
  /\ coupon \subseteq Order
  /\ usage \in Nat
  /\ proc \in [Handler -> Local]
  /\ faults \in 0 .. MaxFaults

Init ==
  /\ order = [o \in Order |-> "NONE"]
  /\ delivery = [o \in Order |-> "NONE"]
  /\ payment = [o \in Order |-> "NONE"]
  /\ method \in [Order -> Method]
  /\ refunds = [o \in Order |-> <<>>]
  /\ moved = [o \in Order |-> 0]
  /\ keys = [o \in Order |-> {}]
  /\ stock = Stock
  /\ coupon = {}
  /\ usage = 0
  /\ proc = [h \in Handler |-> Idle]
  /\ faults = 0

-----------------------------------------------------------------------------
Free(h) == proc[h].pc = "idle"

\* A request goes on with the locals l, which hold what it has read so far.
Begin(h, l) == Free(h) /\ proc' = [proc EXCEPT ![h] = l]

Goto(h, pc) == proc' = [proc EXCEPT ![h].pc = pc]
Return(h)   == proc' = [proc EXCEPT ![h] = Idle]

Fault ==
  /\ faults < MaxFaults
  /\ faults' = faults + 1

Crash(h) ==
  /\ ~Free(h)
  /\ Fault
  /\ Return(h)
  /\ UNCHANGED <<orderVars, refundVars, shopVars>>

Amounts(rows) == [i \in DOMAIN rows |-> rows[i].amount]
Sum(rows) == SumFunctionOnSet(Amounts(rows), DOMAIN rows)
With(rows, statuses) ==
  SumFunctionOnSet(Amounts(rows), {i \in DOMAIN rows : rows[i].status \in statuses})

-----------------------------------------------------------------------------
(***************************************************************************)
(* Checkout and payment.                                                   *)
(***************************************************************************)
\* createOrder up to its transaction: stock and coupon are read here.
Checkout(h, o, useCoupon) ==
  /\ order[o] = "NONE"
  /\ stock > 0
  /\ useCoupon => usage < UsageLimit
  /\ Begin(h, [Idle EXCEPT !.pc = "create", !.on = o, !.flag = useCoupon])
  /\ UNCHANGED <<orderVars, refundVars, shopVars, faults>>

\* Order, delivery and redemption commit together; a key already used fails.
PlaceOrder(h) ==
  LET o == proc[h].on IN
  /\ proc[h].pc = "create"
  /\ IF order[o] # "NONE"
       THEN Return(h) /\ UNCHANGED <<order, delivery, coupon, usage>>
       ELSE /\ order' = [order EXCEPT ![o] = "AWAITING_PAYMENT"]
            /\ delivery' = [delivery EXCEPT ![o] = "PENDING"]
            /\ IF proc[h].flag THEN coupon' = coupon \union {o} /\ usage' = usage + 1
                               ELSE UNCHANGED <<coupon, usage>>
            /\ Goto(h, "pay")
  /\ UNCHANGED <<payment, method, refundVars, stock, faults>>

\* createPaymentRecord, after the order's transaction.
RecordPayment(h) ==
  /\ proc[h].pc = "pay"
  /\ payment' = [payment EXCEPT ![proc[h].on] = "PENDING"]
  /\ Return(h)
  /\ UNCHANGED <<order, delivery, method, refundVars, shopVars, faults>>

\* Slip: an order that is no longer awaiting its payment is revived.
Revivable(o) == order[o] \in {"AWAITING_PAYMENT", "CANCELLED"}

Payable(o) == order[o] = "AWAITING_PAYMENT"

InStock(n) == n >= 0

\* applySettlement with settleOrder.  Stock below zero violates a CHECK
\* constraint, and the settlement with it.
Settle(h, o) ==
  /\ Free(h)
  /\ payment[o] = "PENDING"
  /\ payment' = [payment EXCEPT ![o] = "SUCCESSFUL"]
  /\ IF Payable(o)
       THEN /\ InStock(stock - 1)
            /\ stock' = stock - 1
            /\ order' = [order EXCEPT ![o] = "PAID"]
       ELSE UNCHANGED <<stock, order>>
  /\ UNCHANGED <<delivery, method, refundVars, coupon, usage, proc, faults>>

SettleFailed(h, o) ==
  /\ Free(h)
  /\ payment[o] = "PENDING"
  /\ \E s \in {"FAILED", "CANCELLED"} : payment' = [payment EXCEPT ![o] = s]
  /\ UNCHANGED <<order, delivery, method, refundVars, shopVars, proc, faults>>

-----------------------------------------------------------------------------
(***************************************************************************)
(* Cancellation and expiry.                                                *)
(***************************************************************************)
\* Slip: the use is given back and the redemption row kept.
ReleaseUse(o) ==
  /\ coupon' = coupon
  /\ usage' = IF o \in coupon /\ usage > 0 THEN usage - 1 ELSE usage

\* The use of the coupon is given back.
ReleaseCoupon(o) ==
  /\ coupon' = coupon \ {o}
  /\ usage' = IF o \in coupon /\ usage > 0 THEN usage - 1 ELSE usage

\* releaseOrderSideEffects, but for the wishes (they are in Reservations).
ReleaseStock(release) ==
  /\ release => stock < MaxStock
  /\ stock' = IF release THEN stock + 1 ELSE stock

CancelPending(o) ==
  payment' = IF payment[o] = "PENDING" THEN [payment EXCEPT ![o] = "CANCELLED"]
                                       ELSE payment

OpenToCancel(o) ==
  \/ order[o] = "AWAITING_PAYMENT"
  \/ order[o] = "PAID" /\ delivery[o] \in {"PENDING", "PROCESSING"}

ReadForCancel(h, o) ==
  /\ OpenToCancel(o)
  /\ Begin(h, [Idle EXCEPT !.pc = "cancel", !.on = o, !.order = order[o],
                           !.flag = payment[o] = "SUCCESSFUL"])
  /\ UNCHANGED <<orderVars, refundVars, shopVars, faults>>

\* The transaction of cancelOrder trusts what was read before it.
CancelOrder(h) ==
  LET o == proc[h].on
      wasPaid == proc[h].order = "PAID" IN
  /\ proc[h].pc = "cancel"
  /\ order' = [order EXCEPT ![o] = "CANCELLED"]
  /\ delivery' = [delivery EXCEPT ![o] = "CANCELLED"]
  /\ CancelPending(o)
  /\ ReleaseCoupon(o)
  /\ ReleaseStock(wasPaid)
  /\ IF wasPaid /\ proc[h].flag
       THEN proc' = [proc EXCEPT ![h] = [Idle EXCEPT !.pc = "refund", !.on = o]]
       ELSE Return(h)
  /\ UNCHANGED <<method, refundVars, faults>>

\* expireUnpaidOrders claims each order with a conditional update.
ExpireUnpaid(h, o) ==
  /\ Free(h)
  /\ order[o] = "AWAITING_PAYMENT"
  /\ order' = [order EXCEPT ![o] = "CANCELLED"]
  /\ delivery' = [delivery EXCEPT ![o] = "CANCELLED"]
  /\ CancelPending(o)
  /\ ReleaseCoupon(o)
  /\ UNCHANGED <<method, refundVars, stock, proc, faults>>

\* updateOrderStatus: an administrator moves a paid order to PROCESSING or
\* cancels an unpaid one, leaving its payment and coupon as they are.
ReadOrderStatus(h, o) ==
  /\ order[o] \in {"PAID", "AWAITING_PAYMENT"}
  /\ Begin(h, [Idle EXCEPT !.pc = "status", !.on = o, !.order = order[o]])
  /\ UNCHANGED <<orderVars, refundVars, shopVars, faults>>

UpdateOrderStatus(h) ==
  /\ proc[h].pc = "status"
  /\ order' = [order EXCEPT ![proc[h].on] =
                 IF proc[h].order = "PAID" THEN "PROCESSING" ELSE "CANCELLED"]
  /\ Return(h)
  /\ UNCHANGED <<delivery, payment, method, refundVars, shopVars, faults>>

-----------------------------------------------------------------------------
(***************************************************************************)
(* Delivery.                                                               *)
(***************************************************************************)
Flow == <<"PENDING", "PROCESSING", "DISPATCHED", "OUT_FOR_DELIVERY", "DELIVERED">>

Transitions(from) ==
  {Flow[i + 1] : i \in {j \in 1 .. Len(Flow) - 1 : Flow[j] = from}}
    \union (IF from = "FAILED" THEN {"OUT_FOR_DELIVERY", "RETURNED", "CANCELLED"} ELSE {})
    \union (IF from \in {"PENDING", "PROCESSING"} THEN {"CANCELLED"} ELSE {})
    \union (IF from \in {"DISPATCHED", "OUT_FOR_DELIVERY"} THEN {"FAILED", "RETURNED"} ELSE {})

\* Slip: only closed orders are refused.
NotClosed(o) == order[o] \notin {"NONE", "CANCELLED", "REFUNDED"}

Deliverable(o) ==
  order[o] \notin {"NONE", "AWAITING_PAYMENT", "CANCELLED", "REFUNDED"}

ReadForDelivery(h, o) ==
  /\ Deliverable(o)
  /\ Transitions(delivery[o]) # {}
  /\ Begin(h, [Idle EXCEPT !.pc = "deliver", !.on = o, !.order = order[o],
                           !.delivery = delivery[o]])
  /\ UNCHANGED <<orderVars, refundVars, shopVars, faults>>

\* The transaction of updateDeliveryStatus, decided by the delivery and the
\* order as read before it.
UpdateDelivery(h) ==
  LET o == proc[h].on IN
  /\ proc[h].pc = "deliver"
  /\ \E to \in Transitions(proc[h].delivery) :
       /\ delivery' = [delivery EXCEPT ![o] = to]
       /\ order' = CASE to = "PROCESSING" /\ proc[h].order = "PAID" ->
                          [order EXCEPT ![o] = "PROCESSING"]
                     [] to = "DELIVERED" -> [order EXCEPT ![o] = "FULFILLED"]
                     [] OTHER -> order
       /\ ReleaseStock(to \in {"CANCELLED", "RETURNED"})
  /\ Return(h)
  /\ UNCHANGED <<payment, method, refundVars, coupon, usage, faults>>

-----------------------------------------------------------------------------
(***************************************************************************)
(* Refunds.                                                                *)
(***************************************************************************)
\* Slip: the goods are taken back whatever became of them.
AlwaysOut(status) == status \in DeliveryStatus

StillOut(status) == status \notin {"DELIVERED", "CANCELLED", "RETURNED"}

\* refundOrder of an administrator, who may give an amount.
ReadForRefund(h, o, amount) ==
  /\ payment[o] = "SUCCESSFUL"
  /\ LET full == amount \in {0, Price} IN
     Begin(h, [Idle EXCEPT !.pc = "refund", !.on = o, !.amount = amount, !.flag = full,
                           !.out = full /\ StillOut(delivery[o])])
  /\ UNCHANGED <<orderVars, refundVars, shopVars, faults>>

AlreadyRefunded(o) == With(refunds[o], {"PENDING", "REFUNDED"})

\* refundPayment reads the payment and what was refunded of it.
ReadRefunds(h) ==
  LET o == proc[h].on
      remaining == Price - AlreadyRefunded(o)
      amount == IF proc[h].amount = 0 THEN remaining ELSE proc[h].amount IN
  /\ proc[h].pc = "refund"
  /\ IF payment[o] = "SUCCESSFUL" /\ amount > 0 /\ amount <= remaining
       THEN proc' = [proc EXCEPT ![h].pc = "row", ![h].amount = amount,
                                 ![h].already = AlreadyRefunded(o)]
       ELSE Return(h)
  /\ UNCHANGED <<orderVars, refundVars, shopVars, faults>>

\* What the caller does once the refund row is written or completed.
Refunded(h, l) ==
  proc' = [proc EXCEPT ![h] =
             IF l.flag
             THEN [Idle EXCEPT !.pc = "mark", !.on = l.on, !.out = l.out]
             ELSE Idle]

\* The row is written before the provider is called.  M-Pesa has no refund
\* API: the row stays PENDING for an administrator.
InsertRefund(h) ==
  LET o == proc[h].on
      n == Len(refunds[o]) + 1 IN
  /\ proc[h].pc = "row"
  /\ n <= MaxRefunds
  /\ refunds' = [refunds EXCEPT ![o] =
       Append(@, [amount |-> proc[h].amount, status |-> "PENDING"])]
  /\ IF method[o] = "MPESA"
       THEN Refunded(h, proc[h])
       ELSE proc' = [proc EXCEPT ![h].pc = "send", ![h].row = n]
  /\ UNCHANGED <<orderVars, moved, keys, shopVars, faults>>

\* Slip: the wallet's key names the amount too.
KeyWithAmount(o, amount) == amount

\* The idempotency key the adapters send: the wallet's has no amount in it.
RefundKey(o, amount) == IF method[o] = "WALLET" THEN 0 ELSE amount

\* External: a known key is answered as before; Stripe gives back no more
\* than was paid.
ProviderRefunds(o, amount) ==
  LET key == RefundKey(o, amount) IN
  IF key \in keys[o]
    THEN UNCHANGED <<moved, keys>>
    ELSE /\ moved' = [moved EXCEPT ![o] = @ + amount]
         /\ keys' = [keys EXCEPT ![o] = @ \union {key}]

Refusable(o, amount) ==
  /\ method[o] = "CARD"
  /\ RefundKey(o, amount) \notin keys[o]

Throws(h) ==
  proc' = [proc EXCEPT ![h] = [Idle EXCEPT !.pc = "failed", !.on = proc[h].on,
                                           !.row = proc[h].row]]

SendRefund(h) ==
  LET o == proc[h].on
      amount == proc[h].amount
      refuses == Refusable(o, amount) /\ moved[o] + amount > Price IN
  /\ proc[h].pc = "send"
  /\ IF refuses
       THEN Throws(h) /\ UNCHANGED <<moved, keys, faults>>
       ELSE \/ /\ ProviderRefunds(o, amount)
               /\ \/ Goto(h, "done") /\ UNCHANGED faults
                  \/ method[o] = "CARD" /\ Goto(h, "pending") /\ UNCHANGED faults
                  \/ Throws(h) /\ Fault               \* the answer is lost
            \/ Throws(h) /\ Fault /\ UNCHANGED <<moved, keys>>
  /\ UNCHANGED <<orderVars, refunds, shopVars>>

SetRefund(o, i, status) == refunds' = [refunds EXCEPT ![o][i].status = status]

\* The provider's answer is written; a refund that makes up the price closes
\* the payment.
CompleteRefund(h) ==
  LET o == proc[h].on IN
  /\ proc[h].pc \in {"done", "pending"}
  /\ IF proc[h].pc = "done"
       THEN /\ SetRefund(o, proc[h].row, "REFUNDED")
            /\ payment' = IF proc[h].already + proc[h].amount >= Price
                            THEN [payment EXCEPT ![o] = "REFUNDED"] ELSE payment
       ELSE UNCHANGED <<refunds, payment>>
  /\ Refunded(h, proc[h])
  /\ UNCHANGED <<order, delivery, method, moved, keys, shopVars, faults>>

FailRefund(h) ==
  /\ proc[h].pc = "failed"
  /\ SetRefund(proc[h].on, proc[h].row, "FAILED")
  /\ Return(h)
  /\ UNCHANGED <<orderVars, moved, keys, shopVars, faults>>

\* refundOrder after a full refund, by the delivery it read at the start.
MarkRefunded(h) ==
  LET o == proc[h].on
      out == proc[h].out IN
  /\ proc[h].pc = "mark"
  /\ order' = [order EXCEPT ![o] = "REFUNDED"]
  /\ delivery' = IF out THEN [delivery EXCEPT ![o] = "CANCELLED"] ELSE delivery
  /\ ReleaseStock(out)
  /\ Return(h)
  /\ UNCHANGED <<payment, method, refundVars, coupon, usage, faults>>

\* completeManualRefund: the administrator moved the money by hand.
ReadManual(h, o, i) ==
  /\ i \in DOMAIN refunds[o]
  /\ refunds[o][i].status = "PENDING"
  /\ Begin(h, [Idle EXCEPT !.pc = "manual", !.on = o, !.row = i])
  /\ UNCHANGED <<orderVars, refundVars, shopVars, faults>>

CompleteManual(h) ==
  LET o == proc[h].on IN
  /\ proc[h].pc = "manual"
  /\ SetRefund(o, proc[h].row, "REFUNDED")
  /\ payment' = IF With(refunds'[o], {"REFUNDED"}) >= Price
                  THEN [payment EXCEPT ![o] = "REFUNDED"] ELSE payment
  /\ Return(h)
  /\ UNCHANGED <<order, delivery, method, moved, keys, shopVars, faults>>

-----------------------------------------------------------------------------
Start(h) ==
  \E o \in Order :
    \/ \E c \in BOOLEAN : Checkout(h, o, c)
    \/ Settle(h, o) \/ SettleFailed(h, o)
    \/ ReadForCancel(h, o) \/ ExpireUnpaid(h, o) \/ ReadOrderStatus(h, o)
    \/ ReadForDelivery(h, o)
    \/ \E amount \in 0 .. Price : ReadForRefund(h, o, amount)
    \/ \E i \in 1 .. MaxRefunds : ReadManual(h, o, i)

Continue(h) ==
  \/ PlaceOrder(h) \/ RecordPayment(h)
  \/ CancelOrder(h) \/ UpdateOrderStatus(h) \/ UpdateDelivery(h)
  \/ ReadRefunds(h) \/ InsertRefund(h) \/ SendRefund(h) \/ CompleteRefund(h)
  \/ FailRefund(h) \/ MarkRefunded(h) \/ CompleteManual(h)

Next == \E h \in Handler : Start(h) \/ Continue(h) \/ Crash(h)

Spec == Init /\ [][Next]_vars

\* What a request about to write has decided by is still so.
AsRead(h) ==
  LET l == proc[h]
      o == proc[h].on IN
  /\ l.pc = "cancel" => order[o] = l.order /\ OpenToCancel(o)
  /\ l.pc = "status" => order[o] = l.order /\ order[o] \in {"PAID", "AWAITING_PAYMENT"}
  /\ l.pc = "deliver" => delivery[o] = l.delivery /\ Deliverable(o)
  /\ l.pc = "mark" => StillOut(delivery[o]) = l.out

\* Most of these requests write what they decided without looking again, and
\* what the code promises of stock and deliveries it keeps only where nobody
\* else wrote in between.  The history remembers the orders of which that is
\* not so.
Notes ==
  stale' = stale \union
    {o \in Order :
       \E h \in Handler :
         /\ proc[h].on = o
         /\ ~AsRead(h)
         /\ proc'[h] # proc[h] /\ faults' = faults}

NotedInit == Init /\ stale = {}
NotedSpec == NotedInit /\ [][Next /\ Notes]_<<vars, stale>>

-----------------------------------------------------------------------------
(***************************************************************************)
(* Correctness.                                                            *)
(***************************************************************************)
OnTheWay == {"PROCESSING", "DISPATCHED", "OUT_FOR_DELIVERY", "DELIVERED",
             "FAILED", "RETURNED"}

\* Goods are packed, sent or handed over only for orders whose payment
\* succeeded, whatever cancels, expires or updates the order meanwhile
\* (updateDeliveryStatus, updateOrderStatus).
GoodsOnlyForMoney ==
  \A o \in Order :
    \/ order[o] \in {"PAID", "PROCESSING", "FULFILLED", "REFUNDED"}
    \/ delivery[o] \in OnTheWay
    => payment[o] \in {"SUCCESSFUL", "REFUNDED"}

\* refund.service.ts: a refund is recorded before the provider is called, so
\* no money goes back without a row an administrator can see, and card and
\* wallet refunds that overlap never give back more than was paid.
MoneyBackIsTraced ==
  \A o \in Order : moved[o] <= Sum(refunds[o]) /\ moved[o] <= Price

\* Every use counted against the coupon is held by an order, through retried
\* checkouts, cancellations and expiries that overlap.
CouponUsesCounted == usage = Cardinality(coupon)

\* A unit is with an order from its payment to its return.
HasUnit(o) ==
  /\ order[o] \in {"PAID", "PROCESSING", "FULFILLED", "REFUNDED"}
  /\ delivery[o] \notin {"CANCELLED", "RETURNED"}

\* No unit is lost: it is on the shelf or with an order, however orders are
\* cancelled, returned and refunded by requests that overlap, wherever they die
\* and however late a payment settles.  A unit whose order was written by what
\* was no longer so may be.
NoUnitLost ==
  stock + Cardinality({o \in Order : HasUnit(o) \/ o \in stale}) >= Stock

\* delivery.ts: the happy path advances one stage at a time, a failed attempt
\* may be retried, and what is delivered, returned or cancelled stays so; for
\* every order but those that were written by what was no longer so.
StageBefore == [PROCESSING |-> {"PENDING"}, DISPATCHED |-> {"PROCESSING"},
                OUT_FOR_DELIVERY |-> {"DISPATCHED", "FAILED"},
                DELIVERED |-> {"OUT_FOR_DELIVERY"}]

DeliveryStepByStep ==
  [][\A o \in Order \ stale' :
       delivery'[o] # delivery[o] =>
         /\ delivery[o] \notin {"DELIVERED", "RETURNED", "CANCELLED"}
         /\ delivery'[o] \in DOMAIN StageBefore =>
              delivery[o] \in StageBefore[delivery'[o]]]_<<vars, stale>>

\* commerce.routes.ts: "Cancel before dispatch (refunds if paid)": once the
\* requests are done, a cancelled order that was paid has a refund.
CancelledIsRefunded ==
  \A o \in Order :
    /\ order[o] = "CANCELLED" /\ payment[o] = "SUCCESSFUL"
    /\ \A h \in Handler : proc[h].on # o
    => refunds[o] # <<>>

\* PAYMENTS.md: "Providers that support automatic refunds (Stripe, wallet) are
\* refunded directly": the money of a REFUNDED row has moved.
RefundedHasMoved ==
  \A o \in Order :
    method[o] # "MPESA" => With(refunds[o], {"REFUNDED"}) <= moved[o]
=============================================================================
