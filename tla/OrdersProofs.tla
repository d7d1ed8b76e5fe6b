---------------------------- MODULE OrdersProofs ----------------------------
(***************************************************************************)
(* Proofs about Orders, for any orders, price, stock, limits, methods of   *)
(* payment, requests and faults; and about Reservations, the wish that     *)
(* orders name, for any people, quantities and requests.                   *)
(***************************************************************************)
EXTENDS Orders, Reservations, SumProofs

Paid(o) == payment[o] \in {"SUCCESSFUL", "REFUNDED"}

\* The steps at which a request has seen, or made, the order paid.
AfterPayment == {"deliver", "row", "send", "done", "pending", "failed", "mark",
                 "manual"}

\* What a request may count on although it wrote none of it: nobody undoes
\* what it has read.
Knows(h) ==
  LET l == proc[h]
      o == proc[h].on IN
  /\ l.pc # "idle" => o \in Order
  /\ l.pc \notin {"idle", "create"} => order[o] # "NONE"
  /\ l.pc = "pay" => payment[o] = "NONE"
  /\ l.pc \in AfterPayment \/ (l.pc = "status" /\ l.order = "PAID") => Paid(o)
  /\ l.pc \in {"row", "send", "done", "pending"} => l.amount # 0
  /\ l.pc \in {"send", "done", "pending", "failed", "manual"} =>
       l.row \in DOMAIN refunds[o]
  /\ l.pc = "send" => refunds[o][l.row].amount = l.amount /\ method[o] # "MPESA"

Known == \A h \in Handler : Knows(h)

\* Nobody else pays for the same order, or sends the same refund.
Alone ==
  \A h, k \in Handler :
    /\ proc[h].pc = proc[k].pc /\ proc[h].on = proc[k].on
    /\ proc[h].pc = "pay" \/ (proc[h].pc = "send" /\ proc[h].row = proc[k].row)
    => h = k

\* Before the order's row nothing of it exists.
Untouched ==
  \A o \in Order :
    order[o] = "NONE" => payment[o] = "NONE" /\ delivery[o] = "NONE" /\ o \notin coupon

\* A refund row is of a payment that succeeded.
RowsPaid == \A o \in Order : refunds[o] # <<>> => Paid(o)

\* The rows whose money may have moved: those that no request holds unsent.
Sent(o) == {i \in DOMAIN refunds[o] :
              \A h \in Handler :
                ~(proc[h].pc = "send" /\ proc[h].on = o /\ proc[h].row = i)}

\* No more has moved than the rows that were sent say, and a wallet's one key
\* is used once.
MovedIsSent ==
  \A o \in Order :
    /\ moved[o] <= SumFunctionOnSet(Amounts(refunds[o]), Sent(o))
    /\ moved[o] <= Price
    /\ method[o] = "WALLET" /\ 0 \notin keys[o] => moved[o] = 0

CouponCounted == IsFiniteSet(coupon) /\ CouponUsesCounted

IInv ==
  /\ TypeOK
  /\ Known
  /\ Alone
  /\ Untouched
  /\ RowsPaid
  /\ GoodsOnlyForMoney
  /\ MovedIsSent
  /\ CouponCounted

-----------------------------------------------------------------------------
(***************************************************************************)
(* Refund rows.                                                            *)
(***************************************************************************)
LEMMA RowsFinite ==
  ASSUME TypeOK, NEW o \in Order
  PROVE  /\ refunds[o] \in Seq(RefundRow) /\ Len(refunds[o]) \in Nat
         /\ DOMAIN refunds[o] = 1 .. Len(refunds[o])
         /\ IsFiniteSet(DOMAIN refunds[o])
         /\ \A i \in DOMAIN refunds[o] :
              /\ refunds[o][i] \in RefundRow
              /\ Amounts(refunds[o])[i] = refunds[o][i].amount
              /\ Amounts(refunds[o])[i] \in Nat
<1>1. refunds[o] \in Seq(RefundRow)
  BY DEF TypeOK
<1>2. /\ Len(refunds[o]) \in Nat /\ DOMAIN refunds[o] = 1 .. Len(refunds[o])
      /\ \A i \in DOMAIN refunds[o] : refunds[o][i] \in RefundRow
  BY <1>1
<1>3. IsFiniteSet(DOMAIN refunds[o])
  BY <1>2, FS_Interval
<1>4. \A i \in DOMAIN refunds[o] : refunds[o][i].amount \in Nat
  BY <1>2, OrdersAssumption DEF RefundRow
<1>5. QED  BY <1>1, <1>2, <1>3, <1>4 DEF Amounts

\* What the rows of some statuses make up is a natural number.
LEMMA WithType ==
  ASSUME TypeOK, NEW o \in Order, NEW st
  PROVE  With(refunds[o], st) \in Nat
<1> DEFINE R == {i \in DOMAIN refunds[o] : refunds[o][i].status \in st}
<1>1. R \subseteq DOMAIN refunds[o]
  OBVIOUS
<1> HIDE DEF R
<1>2. IsFiniteSet(R) /\ \A i \in R : Amounts(refunds[o])[i] \in Nat
  BY <1>1, RowsFinite, FS_Subset
<1>3. SumFunctionOnSet(Amounts(refunds[o]), R) \in Nat
  BY <1>2, SumNat
<1>4. QED  BY <1>3 DEF With, R

LEMMA RowEdited ==
  ASSUME TypeOK, NEW o \in Order, NEW i \in DOMAIN refunds[o],
         NEW st \in {"PENDING", "REFUNDED", "FAILED"}, SetRefund(o, i, st)
  PROVE  /\ refunds' \in [Order -> Seq(RefundRow)]
         /\ \A p \in Order :
              /\ DOMAIN refunds'[p] = DOMAIN refunds[p]
              /\ \A j \in DOMAIN refunds[p] : refunds'[p][j].amount = refunds[p][j].amount
         /\ refunds[o] # <<>>
         /\ \A p \in Order : p # o => refunds'[p] = refunds[p]
<1> DEFINE r == [refunds[o][i] EXCEPT !.status = st]
           s == [refunds[o] EXCEPT ![i] = r]
<1>1. refunds[o][i] \in RefundRow /\ refunds[o] \in Seq(RefundRow) /\ refunds[o] # <<>>
  BY RowsFinite
<1>2. r \in RefundRow /\ r.amount = refunds[o][i].amount
  BY <1>1 DEF RefundRow
<1>3. refunds' = [refunds EXCEPT ![o] = s]
  BY DEF SetRefund
<1> HIDE DEF r
<1>4. /\ s \in Seq(RefundRow) /\ DOMAIN s = DOMAIN refunds[o]
      /\ \A j \in DOMAIN refunds[o] : s[j].amount = refunds[o][j].amount
  BY <1>1, <1>2
<1> HIDE DEF s
<1>5. QED  BY <1>1, <1>3, <1>4 DEF TypeOK

LEMMA RowAdded ==
  ASSUME TypeOK, NEW o \in Order, NEW r \in RefundRow,
         refunds' = [refunds EXCEPT ![o] = Append(@, r)]
  PROVE  /\ refunds' \in [Order -> Seq(RefundRow)]
         /\ Len(refunds[o]) + 1 \notin DOMAIN refunds[o]
         /\ DOMAIN refunds'[o] = DOMAIN refunds[o] \union {Len(refunds[o]) + 1}
         /\ refunds'[o][Len(refunds[o]) + 1] = r
         /\ \A j \in DOMAIN refunds[o] : refunds'[o][j] = refunds[o][j]
         /\ \A p \in Order : p # o => refunds'[p] = refunds[p]
<1> DEFINE s == Append(refunds[o], r)
<1>1. refunds[o] \in Seq(RefundRow)
  BY DEF TypeOK
<1>2. /\ s \in Seq(RefundRow) /\ DOMAIN s = 1 .. Len(refunds[o]) + 1
      /\ DOMAIN refunds[o] = 1 .. Len(refunds[o]) /\ Len(refunds[o]) \in Nat
      /\ s[Len(refunds[o]) + 1] = r
      /\ \A j \in DOMAIN refunds[o] : s[j] = refunds[o][j]
  BY <1>1
<1>3. refunds' = [refunds EXCEPT ![o] = s]
  OBVIOUS
<1> HIDE DEF s
<1>4. refunds' \in [Order -> Seq(RefundRow)] /\ refunds'[o] = s
      /\ \A p \in Order : p # o => refunds'[p] = refunds[p]
  BY <1>2, <1>3 DEF TypeOK
<1>5. QED  BY <1>2, <1>4

-----------------------------------------------------------------------------
(***************************************************************************)
(* Types.                                                                  *)
(***************************************************************************)
LEMMA IdleType == Idle \in Local /\ Idle.pc = "idle"
BY OrdersAssumption DEF Idle, Local, Pc, OrderStatus, DeliveryStatus

\* The locals of a request that goes on to mark its order as refunded.
Marking(h) == [Idle EXCEPT !.pc = "mark", !.on = proc[h].on, !.out = proc[h].out]

LEMMA MarkingType ==
  ASSUME NEW h, proc[h] \in Local
  PROVE  /\ Marking(h) \in Local
         /\ Marking(h).pc = "mark" /\ Marking(h).on = proc[h].on
BY IdleType DEF Marking, Local, Pc

LEMMA TypeInit == Init => TypeOK
<1> SUFFICES ASSUME Init PROVE TypeOK
  OBVIOUS
<1>1. refunds \in [Order -> Seq(RefundRow)]
  BY DEF Init
<1>2. proc \in [Handler -> Local]
  BY IdleType DEF Init
<1>3. keys \in [Order -> SUBSET (0 .. Price)] /\ faults \in 0 .. MaxFaults
  BY OrdersAssumption DEF Init
<1>4. QED
  BY <1>1, <1>2, <1>3, OrdersAssumption
     DEF Init, TypeOK, OrderStatus, DeliveryStatus, PaymentStatus

LEMMA ReleaseType ==
  ASSUME TypeOK, NEW o \in Order, NEW b \in BOOLEAN
  PROVE  /\ ReleaseCoupon(o) => coupon' \subseteq Order /\ usage' \in Nat
         /\ ReleaseStock(b) => stock' \in Nat
         /\ CancelPending(o) => payment' \in [Order -> PaymentStatus]
<1>1. ReleaseCoupon(o) => coupon' \subseteq Order /\ usage' \in Nat
  BY DEF ReleaseCoupon, TypeOK
<1>2. ReleaseStock(b) => stock' \in Nat
  BY DEF ReleaseStock, TypeOK
<1>3. CancelPending(o) => payment' \in [Order -> PaymentStatus]
  BY DEF CancelPending, TypeOK, PaymentStatus
<1>4. QED  BY <1>1, <1>2, <1>3

\* Requests begin.
LEMMA BeginType ==
  ASSUME TypeOK, NEW h \in Handler, NEW o \in Order,
         \/ \E c \in BOOLEAN : Checkout(h, o, c)
         \/ ReadForCancel(h, o) \/ ReadOrderStatus(h, o) \/ ReadForDelivery(h, o)
         \/ \E amount \in 0 .. Price : ReadForRefund(h, o, amount)
         \/ \E i \in 1 .. MaxRefunds : ReadManual(h, o, i)
  PROVE  TypeOK'
<1> USE DEF Begin
<1>0. order[o] \in OrderStatus /\ delivery[o] \in DeliveryStatus
  BY DEF TypeOK
<1>1. ASSUME NEW c \in BOOLEAN, Checkout(h, o, c)  PROVE TypeOK'
  <2>1. [Idle EXCEPT !.pc = "create", !.on = o, !.flag = c] \in Local
    BY IdleType DEF Local, Pc
  <2>2. QED  BY <1>1, <2>1 DEF Checkout, TypeOK, orderVars, refundVars, shopVars
<1>2. CASE ReadForCancel(h, o)
  <2>1. [Idle EXCEPT !.pc = "cancel", !.on = o, !.order = order[o],
                     !.flag = payment[o] = "SUCCESSFUL"] \in Local
    BY <1>0, IdleType DEF Local, Pc
  <2>2. QED  BY <1>2, <2>1 DEF ReadForCancel, TypeOK, orderVars, refundVars, shopVars
<1>3. CASE ReadOrderStatus(h, o)
  <2>1. [Idle EXCEPT !.pc = "status", !.on = o, !.order = order[o]] \in Local
    BY <1>0, IdleType DEF Local, Pc
  <2>2. QED  BY <1>3, <2>1 DEF ReadOrderStatus, TypeOK, orderVars, refundVars, shopVars
<1>4. CASE ReadForDelivery(h, o)
  <2>1. [Idle EXCEPT !.pc = "deliver", !.on = o, !.order = order[o],
                     !.delivery = delivery[o]] \in Local
    BY <1>0, IdleType DEF Local, Pc
  <2>2. QED  BY <1>4, <2>1 DEF ReadForDelivery, TypeOK, orderVars, refundVars, shopVars
<1>5. ASSUME NEW amount \in 0 .. Price, ReadForRefund(h, o, amount)  PROVE TypeOK'
  <2> DEFINE full == amount \in {0, Price}
             out == full /\ StillOut(delivery[o])
  <2>1. full \in BOOLEAN /\ out \in BOOLEAN
    OBVIOUS
  <2>2. proc' = [proc EXCEPT ![h] = [Idle EXCEPT !.pc = "refund", !.on = o,
                   !.amount = amount, !.flag = full, !.out = out]]
    BY <1>5 DEF ReadForRefund, Begin
  <2> HIDE DEF full, out
  <2>3. [Idle EXCEPT !.pc = "refund", !.on = o, !.amount = amount, !.flag = full,
                     !.out = out] \in Local
    BY <1>0, <2>1, IdleType DEF Local, Pc
  <2>4. QED
    BY <1>5, <2>2, <2>3 DEF ReadForRefund, TypeOK, orderVars, refundVars, shopVars
<1>6. ASSUME NEW i \in 1 .. MaxRefunds, ReadManual(h, o, i)  PROVE TypeOK'
  <2>1. [Idle EXCEPT !.pc = "manual", !.on = o, !.row = i] \in Local
    <3>1. i \in 0 .. MaxRefunds
      BY OrdersAssumption
    <3>2. QED  BY <3>1, IdleType DEF Local, Pc
  <2>2. QED  BY <1>6, <2>1 DEF ReadManual, TypeOK, orderVars, refundVars, shopVars
<1>7. QED  BY <1>1, <1>2, <1>3, <1>4, <1>5, <1>6

\* Orders and deliveries move.
LEMMA OrderType ==
  ASSUME TypeOK, Known, NEW h \in Handler,
         \/ PlaceOrder(h) \/ RecordPayment(h) \/ CancelOrder(h)
         \/ UpdateOrderStatus(h) \/ UpdateDelivery(h) \/ MarkRefunded(h) \/ Crash(h)
         \/ \E o \in Order : Settle(h, o) \/ SettleFailed(h, o) \/ ExpireUnpaid(h, o)
  PROVE  TypeOK'
<1> USE DEF Return, orderVars, refundVars, shopVars
<1>0. proc[h] \in Local
  BY DEF TypeOK
<1>1. CASE PlaceOrder(h)
  <2>1. proc[h].on \in Order
    BY <1>1 DEF PlaceOrder, Known, Knows
  <2>2. [proc[h] EXCEPT !.pc = "pay"] \in Local
    BY <1>0 DEF Local, Pc
  <2>3. proc' \in [Handler -> Local]
    BY <1>1, <2>2, IdleType DEF PlaceOrder, Goto, TypeOK
  <2>4. order' \in [Order -> OrderStatus] /\ delivery' \in [Order -> DeliveryStatus]
    BY <1>1, <2>1 DEF PlaceOrder, TypeOK, OrderStatus, DeliveryStatus
  <2>5. coupon' \subseteq Order /\ usage' \in Nat
    BY <1>1, <2>1 DEF PlaceOrder, TypeOK
  <2>6. QED  BY <1>1, <2>3, <2>4, <2>5 DEF PlaceOrder, TypeOK
<1>2. CASE RecordPayment(h)
  BY <1>2, IdleType DEF RecordPayment, TypeOK, PaymentStatus
<1>3. CASE CancelOrder(h)
  <2>1. proc[h].on \in Order
    BY <1>3 DEF CancelOrder, Known, Knows
  <2>2. [Idle EXCEPT !.pc = "refund", !.on = proc[h].on] \in Local
    BY <2>1, IdleType DEF Local, Pc
  <2>3. proc' \in [Handler -> Local]
    BY <1>3, <2>2, IdleType DEF CancelOrder, TypeOK
  <2>4. /\ coupon' \subseteq Order /\ usage' \in Nat /\ stock' \in Nat
        /\ payment' \in [Order -> PaymentStatus]
    BY <1>3, <2>1, ReleaseType DEF CancelOrder
  <2>5. QED
    BY <1>3, <2>3, <2>4 DEF CancelOrder, TypeOK, OrderStatus, DeliveryStatus
<1>4. CASE UpdateOrderStatus(h)
  BY <1>4, IdleType DEF UpdateOrderStatus, TypeOK, OrderStatus
<1>5. CASE UpdateDelivery(h)
  <2>1. PICK to \in Transitions(proc[h].delivery) :
          /\ delivery' = [delivery EXCEPT ![proc[h].on] = to]
          /\ order' = CASE to = "PROCESSING" /\ proc[h].order = "PAID" ->
                             [order EXCEPT ![proc[h].on] = "PROCESSING"]
                        [] to = "DELIVERED" -> [order EXCEPT ![proc[h].on] = "FULFILLED"]
                        [] OTHER -> order
          /\ ReleaseStock(to \in {"CANCELLED", "RETURNED"})
    BY <1>5 DEF UpdateDelivery
  <2>2. to \in DeliveryStatus
    BY <2>1 DEF Transitions, Flow, DeliveryStatus
  <2>3. delivery' \in [Order -> DeliveryStatus] /\ order' \in [Order -> OrderStatus]
    BY <2>1, <2>2 DEF TypeOK, OrderStatus
  <2>4. stock' \in Nat
    BY <2>1 DEF ReleaseStock, TypeOK
  <2>5. QED  BY <1>5, <2>3, <2>4, IdleType DEF UpdateDelivery, TypeOK
<1>6. CASE MarkRefunded(h)
  <2>1. stock' \in Nat
    BY <1>6 DEF MarkRefunded, ReleaseStock, TypeOK
  <2>2. QED
    BY <1>6, <2>1, IdleType DEF MarkRefunded, TypeOK, OrderStatus, DeliveryStatus
<1>7. CASE Crash(h)
  BY <1>7, IdleType, OrdersAssumption DEF Crash, Fault, TypeOK
<1>8. ASSUME NEW o \in Order, Settle(h, o)  PROVE TypeOK'
  <2>1. stock' \in Nat
    BY <1>8 DEF Settle, InStock, TypeOK
  <2>2. QED  BY <1>8, <2>1 DEF Settle, TypeOK, PaymentStatus, OrderStatus
<1>9. ASSUME NEW o \in Order, SettleFailed(h, o)  PROVE TypeOK'
  BY <1>9 DEF SettleFailed, TypeOK, PaymentStatus
<1>10. ASSUME NEW o \in Order, ExpireUnpaid(h, o)  PROVE TypeOK'
  <2>1. /\ coupon' \subseteq Order /\ usage' \in Nat
        /\ payment' \in [Order -> PaymentStatus]
    BY <1>10, ReleaseType DEF ExpireUnpaid
  <2>2. QED  BY <1>10, <2>1 DEF ExpireUnpaid, TypeOK, OrderStatus, DeliveryStatus
<1>11. QED
  BY <1>1, <1>2, <1>3, <1>4, <1>5, <1>6, <1>7, <1>8, <1>9, <1>10

\* Refunds move.
LEMMA RefundType ==
  ASSUME TypeOK, Known, NEW h \in Handler,
         \/ ReadRefunds(h) \/ InsertRefund(h) \/ SendRefund(h) \/ CompleteRefund(h)
         \/ FailRefund(h) \/ CompleteManual(h)
  PROVE  TypeOK'
<1> USE DEF Return, orderVars, refundVars, shopVars
<1> DEFINE o == proc[h].on
<1>0. proc[h] \in Local /\ o \in Order
  BY DEF TypeOK, ReadRefunds, InsertRefund, SendRefund, CompleteRefund, FailRefund,
         CompleteManual, Known, Knows
<1> HIDE DEF o
<1>1. CASE ReadRefunds(h)
  <2> DEFINE remaining == Price - AlreadyRefunded(o)
             amount == IF proc[h].amount = 0 THEN remaining ELSE proc[h].amount
  <2>1. AlreadyRefunded(o) \in Nat /\ remaining \in Int /\ remaining <= Price
    BY <1>0, WithType, OrdersAssumption DEF AlreadyRefunded
  <2>2. CASE amount > 0 /\ amount <= remaining
             /\ proc' = [proc EXCEPT ![h].pc = "row", ![h].amount = amount,
                                     ![h].already = AlreadyRefunded(o)]
    <3>1. amount \in 0 .. Price
      BY <1>0, <2>1, <2>2, OrdersAssumption DEF Local
    <3> HIDE DEF amount
    <3>2. [proc[h] EXCEPT !.pc = "row", !.amount = amount,
                          !.already = AlreadyRefunded(o)] \in Local
      BY <1>0, <2>1, <3>1 DEF Local, Pc
    <3>3. proc' \in [Handler -> Local]
      BY <2>2, <3>2 DEF TypeOK
    <3>4. QED  BY <1>1, <3>3 DEF ReadRefunds, TypeOK
  <2>3. CASE proc' = [proc EXCEPT ![h] = Idle]
    BY <1>1, <2>3, IdleType DEF ReadRefunds, TypeOK
  <2>4. QED  BY <1>1, <2>2, <2>3 DEF ReadRefunds, o
<1>2. CASE InsertRefund(h)
  <2> DEFINE n == Len(refunds[o]) + 1
             r == [amount |-> proc[h].amount, status |-> "PENDING"]
  <2>1. proc[h].amount \in 1 .. Price
    BY <1>0, <1>2, OrdersAssumption DEF InsertRefund, Known, Knows, Local
  <2>2. r \in RefundRow
    BY <2>1 DEF RefundRow
  <2>3. refunds' = [refunds EXCEPT ![o] = Append(@, r)]
    BY <1>2 DEF InsertRefund, o
  <2>4. refunds' \in [Order -> Seq(RefundRow)]
    <3> HIDE DEF r
    <3>1. QED  BY <1>0, <2>2, <2>3, RowAdded
  <2>5. n \in 0 .. MaxRefunds
    BY <1>0, <1>2, RowsFinite, OrdersAssumption DEF InsertRefund, o
  <2> HIDE DEF n
  <2>6. /\ Marking(h) \in Local
        /\ [proc[h] EXCEPT !.pc = "send", !.row = n] \in Local
    BY <1>0, <2>5, MarkingType DEF Local, Pc
  <2>7. \/ proc' = [proc EXCEPT ![h] = Marking(h)]
        \/ proc' = [proc EXCEPT ![h] = [proc[h] EXCEPT !.pc = "send", !.row = n]]
        \/ proc' = [proc EXCEPT ![h] = Idle]
    BY <1>2 DEF InsertRefund, Refunded, Marking, TypeOK, o, n
  <2>8. proc' \in [Handler -> Local]
    BY <2>6, <2>7, IdleType DEF TypeOK
  <2>9. QED  BY <1>2, <2>4, <2>8 DEF InsertRefund, TypeOK
<1>3. CASE SendRefund(h)
  <2>1. proc[h].amount \in 0 .. Price
    BY <1>0 DEF Local
  <2>2. RefundKey(o, proc[h].amount) \in 0 .. Price
    BY <2>1, OrdersAssumption DEF RefundKey
  <2>3. ProviderRefunds(o, proc[h].amount) =>
          moved' \in [Order -> Nat] /\ keys' \in [Order -> SUBSET (0 .. Price)]
    <3> DEFINE key == RefundKey(o, proc[h].amount)
    <3> HIDE DEF key
    <3>1. key \in 0 .. Price
      BY <2>2 DEF key
    <3>2. ASSUME moved' = [moved EXCEPT ![o] = @ + proc[h].amount]
          PROVE  moved' \in [Order -> Nat]
      BY <1>0, <2>1, <3>2, OrdersAssumption DEF TypeOK
    <3>3. ASSUME keys' = [keys EXCEPT ![o] = @ \union {key}]
          PROVE  keys' \in [Order -> SUBSET (0 .. Price)]
      <4>1. keys[o] \union {key} \in SUBSET (0 .. Price)
        BY <1>0, <3>1 DEF TypeOK
      <4>2. QED  BY <1>0, <3>3, <4>1 DEF TypeOK
    <3>4. QED  BY <3>2, <3>3 DEF ProviderRefunds, TypeOK, key
  <2>4. /\ moved' \in [Order -> Nat] /\ keys' \in [Order -> SUBSET (0 .. Price)]
        /\ faults' \in 0 .. MaxFaults
    BY <1>3, <2>3, OrdersAssumption DEF SendRefund, Fault, TypeOK, o
  <2>5. /\ [proc[h] EXCEPT !.pc = "done"] \in Local
        /\ [proc[h] EXCEPT !.pc = "pending"] \in Local
        /\ [Idle EXCEPT !.pc = "failed", !.on = o, !.row = proc[h].row] \in Local
    BY <1>0, IdleType DEF Local, Pc
  <2>6. proc' \in [Handler -> Local]
    BY <1>3, <2>5 DEF SendRefund, Goto, Throws, TypeOK, o
  <2>7. QED  BY <1>3, <2>4, <2>6 DEF SendRefund, TypeOK
<1>4. ASSUME proc[h].row \in DOMAIN refunds[o],
             SetRefund(o, proc[h].row, "REFUNDED") \/ SetRefund(o, proc[h].row, "FAILED")
      PROVE  refunds' \in [Order -> Seq(RefundRow)]
  BY <1>0, <1>4, RowEdited
<1>5. CASE CompleteRefund(h)
  <2>1. proc[h].row \in DOMAIN refunds[o]
    BY <1>5 DEF CompleteRefund, Known, Knows, o
  <2>2. refunds' \in [Order -> Seq(RefundRow)] /\ payment' \in [Order -> PaymentStatus]
    BY <1>4, <1>5, <2>1 DEF CompleteRefund, TypeOK, PaymentStatus, o
  <2>3. Marking(h) \in Local
    BY <1>0, MarkingType
  <2>4. proc' \in [Handler -> Local]
    BY <1>5, <2>3, IdleType DEF CompleteRefund, Refunded, Marking, TypeOK
  <2>5. QED  BY <1>5, <2>2, <2>4 DEF CompleteRefund, TypeOK
<1>6. CASE FailRefund(h)
  <2>1. proc[h].row \in DOMAIN refunds[o]
    BY <1>6 DEF FailRefund, Known, Knows, o
  <2>2. refunds' \in [Order -> Seq(RefundRow)]
    BY <1>4, <1>6, <2>1 DEF FailRefund, o
  <2>3. QED  BY <1>6, <2>2, IdleType DEF FailRefund, TypeOK
<1>7. CASE CompleteManual(h)
  <2>1. proc[h].row \in DOMAIN refunds[o]
    BY <1>7 DEF CompleteManual, Known, Knows, o
  <2>2. refunds' \in [Order -> Seq(RefundRow)] /\ payment' \in [Order -> PaymentStatus]
    BY <1>4, <1>7, <2>1 DEF CompleteManual, TypeOK, PaymentStatus, o
  <2>3. QED  BY <1>7, <2>2, IdleType DEF CompleteManual, TypeOK
<1>8. QED  BY <1>1, <1>2, <1>3, <1>5, <1>6, <1>7

LEMMA TypeStep == TypeOK /\ Known /\ [Next]_vars => TypeOK'
<1> SUFFICES ASSUME TypeOK, Known, [Next]_vars PROVE TypeOK'
  OBVIOUS
<1>1. CASE UNCHANGED vars
  BY <1>1 DEF vars, orderVars, refundVars, shopVars, TypeOK
<1>2. ASSUME NEW h \in Handler, Start(h)  PROVE TypeOK'
  BY <1>2, BeginType, OrderType DEF Start
<1>3. ASSUME NEW h \in Handler, Continue(h) \/ Crash(h)  PROVE TypeOK'
  BY <1>3, OrderType, RefundType DEF Continue
<1>4. QED  BY <1>1, <1>2, <1>3 DEF Next

-----------------------------------------------------------------------------
(***************************************************************************)
(* What requests know.                                                     *)
(***************************************************************************)
\* The step of one request: the others stay where they are, and nobody undoes
\* an order, a payment or a refund row.
Stable(h) ==
  /\ method' = method
  /\ \A k \in Handler : k # h => proc'[k] = proc[k]
  /\ \A o \in Order :
       /\ order[o] # "NONE" => order'[o] # "NONE"
       /\ Paid(o) => Paid(o)'
       /\ payment[o] = "NONE" =>
            payment'[o] = "NONE" \/ (proc[h].pc = "pay" /\ proc[h].on = o)
       /\ DOMAIN refunds[o] \subseteq DOMAIN refunds'[o]
       /\ \A i \in DOMAIN refunds[o] : refunds'[o][i].amount = refunds[o][i].amount

LEMMA OthersStay ==
  ASSUME TypeOK, NEW h \in Handler, Start(h) \/ Continue(h) \/ Crash(h),
         NEW k \in Handler, k # h
  PROVE  proc'[k] = proc[k]
<1> USE DEF TypeOK, Return, Goto
<1>1. CASE Crash(h)
  BY <1>1 DEF Crash
<1>2. CASE Start(h)
  BY <1>2 DEF Start, Begin, Checkout, Settle, SettleFailed, ReadForCancel, ExpireUnpaid,
              ReadOrderStatus, ReadForDelivery, ReadForRefund, ReadManual
<1>3. CASE PlaceOrder(h) \/ RecordPayment(h) \/ CancelOrder(h) \/ UpdateOrderStatus(h)
           \/ UpdateDelivery(h) \/ MarkRefunded(h)
  BY <1>3 DEF PlaceOrder, RecordPayment, CancelOrder, UpdateOrderStatus, UpdateDelivery,
              MarkRefunded
<1>4. CASE ReadRefunds(h) \/ InsertRefund(h) \/ SendRefund(h) \/ CompleteRefund(h)
           \/ FailRefund(h) \/ CompleteManual(h)
  BY <1>4 DEF ReadRefunds, InsertRefund, SendRefund, CompleteRefund, FailRefund,
              CompleteManual, Refunded, Throws
<1>5. QED  BY <1>1, <1>2, <1>3, <1>4 DEF Continue

LEMMA OrdersStay ==
  ASSUME TypeOK, Known, NEW h \in Handler, Start(h) \/ Continue(h) \/ Crash(h),
         NEW o \in Order, order[o] # "NONE"
  PROVE  order'[o] # "NONE"
<1> USE DEF TypeOK, orderVars
<1>1. CASE Crash(h)
  BY <1>1 DEF Crash
<1>2. CASE Start(h)
  BY <1>2 DEF Start, Checkout, Settle, SettleFailed, ReadForCancel, ExpireUnpaid,
              ReadOrderStatus, ReadForDelivery, ReadForRefund, ReadManual
<1>3. CASE PlaceOrder(h) \/ RecordPayment(h) \/ CancelOrder(h) \/ UpdateOrderStatus(h)
           \/ MarkRefunded(h)
  BY <1>3 DEF PlaceOrder, RecordPayment, CancelOrder, UpdateOrderStatus, MarkRefunded
<1>4. CASE UpdateDelivery(h)
  <2>1. \/ order' = [order EXCEPT ![proc[h].on] = "PROCESSING"]
        \/ order' = [order EXCEPT ![proc[h].on] = "FULFILLED"]
        \/ order' = order
    BY <1>4 DEF UpdateDelivery
  <2>2. QED  BY <2>1
<1>5. CASE ReadRefunds(h) \/ InsertRefund(h) \/ SendRefund(h) \/ CompleteRefund(h)
           \/ FailRefund(h) \/ CompleteManual(h)
  BY <1>5 DEF ReadRefunds, InsertRefund, SendRefund, CompleteRefund, FailRefund,
              CompleteManual
<1>6. QED  BY <1>1, <1>2, <1>3, <1>4, <1>5 DEF Continue

LEMMA PaymentsStay ==
  ASSUME TypeOK, Known, NEW h \in Handler, Start(h) \/ Continue(h) \/ Crash(h),
         NEW o \in Order
  PROVE  /\ Paid(o) => Paid(o)'
         /\ payment[o] = "NONE" =>
              payment'[o] = "NONE" \/ (proc[h].pc = "pay" /\ proc[h].on = o)
<1> USE DEF TypeOK, orderVars, Paid
<1>1. CASE Crash(h)
  BY <1>1 DEF Crash
<1>2. CASE Start(h)
  <2>1. ASSUME NEW p \in Order, Settle(h, p) \/ SettleFailed(h, p) \/ ExpireUnpaid(h, p)
        PROVE  /\ Paid(o) => Paid(o)'
               /\ payment[o] = "NONE" => payment'[o] = "NONE"
    BY <2>1 DEF Settle, SettleFailed, ExpireUnpaid, CancelPending
  <2>2. CASE payment' = payment
    BY <2>2
  <2>3. QED
    BY <1>2, <2>1, <2>2 DEF Start, Checkout, ReadForCancel, ReadOrderStatus,
                            ReadForDelivery, ReadForRefund, ReadManual
<1>3. CASE PlaceOrder(h) \/ CancelOrder(h) \/ UpdateOrderStatus(h)
           \/ UpdateDelivery(h) \/ MarkRefunded(h)
  BY <1>3 DEF PlaceOrder, CancelOrder, UpdateOrderStatus, UpdateDelivery,
              MarkRefunded, CancelPending
<1>4. CASE RecordPayment(h)
  BY <1>4 DEF RecordPayment, Known, Knows
<1>5. CASE ReadRefunds(h) \/ InsertRefund(h) \/ SendRefund(h) \/ FailRefund(h)
  BY <1>5 DEF ReadRefunds, InsertRefund, SendRefund, FailRefund
<1>6. CASE CompleteRefund(h) \/ CompleteManual(h)
  <2>1. Paid(proc[h].on)
    BY <1>6 DEF CompleteRefund, CompleteManual, Known, Knows, AfterPayment
  <2>2. payment' = payment \/ payment' = [payment EXCEPT ![proc[h].on] = "REFUNDED"]
    BY <1>6 DEF CompleteRefund, CompleteManual
  <2>3. QED  BY <2>1, <2>2
<1>7. QED  BY <1>1, <1>2, <1>3, <1>4, <1>5, <1>6 DEF Continue

\* A step leaves the refund rows alone, edits the status of one, or adds one.
Edits(h) ==
  /\ proc[h].pc \in {"done", "failed", "manual"}
  /\ \E st \in {"REFUNDED", "FAILED"} : SetRefund(proc[h].on, proc[h].row, st)

Row(h) == [amount |-> proc[h].amount, status |-> "PENDING"]

LEMMA RefundsStep ==
  ASSUME TypeOK, Known, NEW h \in Handler, Start(h) \/ Continue(h) \/ Crash(h)
  PROVE  \/ refunds' = refunds
         \/ Edits(h) /\ ~InsertRefund(h)
         \/ /\ InsertRefund(h) /\ Row(h) \in RefundRow /\ proc[h].on \in Order
            /\ refunds' = [refunds EXCEPT ![proc[h].on] = Append(@, Row(h))]
<1> USE DEF orderVars, refundVars
<1>1. CASE Crash(h)
  BY <1>1 DEF Crash
<1>2. CASE Start(h)
  BY <1>2 DEF Start, Checkout, Settle, SettleFailed, ReadForCancel, ExpireUnpaid,
              ReadOrderStatus, ReadForDelivery, ReadForRefund, ReadManual
<1>3. CASE PlaceOrder(h) \/ RecordPayment(h) \/ CancelOrder(h) \/ UpdateOrderStatus(h)
           \/ UpdateDelivery(h) \/ MarkRefunded(h) \/ ReadRefunds(h) \/ SendRefund(h)
  BY <1>3 DEF PlaceOrder, RecordPayment, CancelOrder, UpdateOrderStatus, UpdateDelivery,
              MarkRefunded, ReadRefunds, SendRefund
<1>4. CASE CompleteRefund(h) \/ FailRefund(h) \/ CompleteManual(h)
  BY <1>4 DEF CompleteRefund, FailRefund, CompleteManual, Edits, InsertRefund
<1>5. CASE InsertRefund(h)
  <2>1. proc[h].amount \in 1 .. Price /\ proc[h].on \in Order
    BY <1>5, OrdersAssumption DEF InsertRefund, Known, Knows, TypeOK, Local
  <2>2. QED  BY <1>5, <2>1 DEF InsertRefund, Row, RefundRow
<1>6. QED  BY <1>1, <1>2, <1>3, <1>4, <1>5 DEF Continue

LEMMA RefundsStay ==
  ASSUME TypeOK, Known, NEW h \in Handler, Start(h) \/ Continue(h) \/ Crash(h),
         NEW o \in Order
  PROVE  /\ DOMAIN refunds[o] \subseteq DOMAIN refunds'[o]
         /\ \A i \in DOMAIN refunds[o] : refunds'[o][i].amount = refunds[o][i].amount
<1>1. CASE refunds' = refunds
  BY <1>1
<1>2. CASE Edits(h)
  <2>1. proc[h].row \in DOMAIN refunds[proc[h].on] /\ proc[h].on \in Order
    BY <1>2 DEF Edits, Known, Knows
  <2>2. QED  BY <1>2, <2>1, RowEdited DEF Edits
<1>3. CASE Row(h) \in RefundRow /\ proc[h].on \in Order
           /\ refunds' = [refunds EXCEPT ![proc[h].on] = Append(@, Row(h))]
  BY <1>3, RowAdded
<1>4. QED  BY <1>1, <1>2, <1>3, RefundsStep

LEMMA StableStep ==
  ASSUME TypeOK, Known, NEW h \in Handler, Start(h) \/ Continue(h) \/ Crash(h)
  PROVE  Stable(h)
<1>1. method' = method
  <2>1. CASE Crash(h)
    BY <2>1 DEF Crash, orderVars
  <2>2. CASE Start(h)
    BY <2>2 DEF Start, Checkout, Settle, SettleFailed, ReadForCancel, ExpireUnpaid,
                ReadOrderStatus, ReadForDelivery, ReadForRefund, ReadManual, orderVars
  <2>3. CASE Continue(h)
    BY <2>3 DEF Continue, PlaceOrder, RecordPayment, CancelOrder, UpdateOrderStatus,
                UpdateDelivery, MarkRefunded, ReadRefunds, InsertRefund, SendRefund,
                CompleteRefund, FailRefund, CompleteManual, orderVars
  <2>4. QED  BY <2>1, <2>2, <2>3
<1>2. QED
  BY <1>1, OthersStay, OrdersStay, PaymentsStay, RefundsStay DEF Stable

\* A request that begins knows what it has read.
LEMMA BeginKnows ==
  ASSUME TypeOK, Untouched, RowsPaid, GoodsOnlyForMoney, NEW h \in Handler, NEW o \in Order,
         \/ \E c \in BOOLEAN : Checkout(h, o, c)
         \/ ReadForCancel(h, o) \/ ReadOrderStatus(h, o) \/ ReadForDelivery(h, o)
         \/ \E amount \in 0 .. Price : ReadForRefund(h, o, amount)
         \/ \E i \in 1 .. MaxRefunds : ReadManual(h, o, i)
  PROVE  Knows(h)'
<1> USE DEF Begin, orderVars, refundVars
<1>0. /\ proc \in [Handler -> Local] /\ order[o] \in OrderStatus
      /\ payment[o] \in PaymentStatus
  BY DEF TypeOK
<1>1. ASSUME NEW c \in BOOLEAN, Checkout(h, o, c)  PROVE Knows(h)'
  <2>1. proc'[h].pc = "create" /\ proc'[h].on = o
    BY <1>0, <1>1, IdleType DEF Checkout, Local
  <2>2. QED  BY <2>1 DEF Knows, AfterPayment, Paid
<1>2. CASE ReadForCancel(h, o)
  <2>1. proc'[h].pc = "cancel" /\ proc'[h].on = o
    BY <1>0, <1>2, IdleType DEF ReadForCancel, Local
  <2>2. order'[o] # "NONE"
    BY <1>2 DEF ReadForCancel, OpenToCancel
  <2>3. QED  BY <2>1, <2>2 DEF Knows, AfterPayment, Paid
<1>3. CASE ReadOrderStatus(h, o)
  <2>1. proc'[h].pc = "status" /\ proc'[h].on = o /\ proc'[h].order = order[o]
    BY <1>0, <1>3, IdleType DEF ReadOrderStatus, Local
  <2>2. order'[o] # "NONE" /\ (order[o] = "PAID" => Paid(o)')
    BY <1>3 DEF ReadOrderStatus, GoodsOnlyForMoney, Paid
  <2>3. QED  BY <2>1, <2>2 DEF Knows, AfterPayment, Paid
<1>4. CASE ReadForDelivery(h, o)
  <2>1. proc'[h].pc = "deliver" /\ proc'[h].on = o
    BY <1>0, <1>4, IdleType DEF ReadForDelivery, Local
  <2>2. order'[o] # "NONE" /\ Paid(o)'
    BY <1>0, <1>4 DEF ReadForDelivery, Deliverable, OrderStatus, GoodsOnlyForMoney, Paid
  <2>3. QED  BY <2>1, <2>2 DEF Knows, AfterPayment, Paid
<1>5. ASSUME NEW amount \in 0 .. Price, ReadForRefund(h, o, amount)
      PROVE  Knows(h)'
  <2>1. proc'[h].pc = "refund" /\ proc'[h].on = o
    BY <1>0, <1>5, IdleType DEF ReadForRefund, Local
  <2>2. order'[o] # "NONE"
    BY <1>5 DEF ReadForRefund, Untouched
  <2>3. QED  BY <2>1, <2>2 DEF Knows, AfterPayment, Paid
<1>6. ASSUME NEW i \in 1 .. MaxRefunds, ReadManual(h, o, i)  PROVE Knows(h)'
  <2>1. proc'[h].pc = "manual" /\ proc'[h].on = o /\ proc'[h].row = i
    BY <1>0, <1>6, IdleType DEF ReadManual, Local
  <2>2. i \in DOMAIN refunds'[o] /\ refunds[o] # <<>>
    <3>1. i \in DOMAIN refunds[o] /\ refunds' = refunds
      BY <1>6 DEF ReadManual
    <3>2. DOMAIN <<>> = {}
      OBVIOUS
    <3>3. QED  BY <3>1, <3>2
  <2>3. order'[o] # "NONE" /\ Paid(o)'
    BY <1>6, <2>2 DEF ReadManual, Untouched, RowsPaid, Paid
  <2>4. QED  BY <2>1, <2>2, <2>3 DEF Knows, AfterPayment, Paid
<1>7. QED  BY <1>1, <1>2, <1>3, <1>4, <1>5, <1>6

\* A request that goes on keeps what it knew.
LEMMA ContinueKnows ==
  ASSUME TypeOK, Known, Untouched, NEW h \in Handler, Continue(h)
  PROVE  Knows(h)'
<1> DEFINE o == proc[h].on
           Settled == {"SUCCESSFUL", "REFUNDED"}
<1>0. /\ proc \in [Handler -> Local] /\ proc[h] \in Local /\ o \in Order
      /\ Knows(h) /\ Stable(h)
  BY StableStep DEF TypeOK, Known, Knows, Continue, PlaceOrder, RecordPayment,
     CancelOrder, UpdateOrderStatus, UpdateDelivery, ReadRefunds, InsertRefund,
     SendRefund, CompleteRefund, FailRefund, MarkRefunded, CompleteManual
<1> HIDE DEF o
<1> USE DEF Return, Goto
<1>1. ASSUME proc' = [proc EXCEPT ![h] = Idle]  PROVE Knows(h)'
  <2>1. proc'[h].pc = "idle"
    BY <1>0, <1>1, IdleType
  <2>2. QED  BY <2>1 DEF Knows, AfterPayment, Paid
<1>2. CASE PlaceOrder(h)
  <2>1. CASE order[o] = "NONE"
    <3>1. proc'[h].pc = "pay" /\ proc'[h].on = o
      BY <1>0, <1>2, <2>1 DEF PlaceOrder, Local, o
    <3>2. order'[o] # "NONE"
      BY <1>0, <1>2, <2>1 DEF PlaceOrder, TypeOK, o
    <3>3. payment'[o] = "NONE"
      BY <1>0, <1>2, <2>1 DEF PlaceOrder, Untouched
    <3>4. QED  BY <1>0, <3>1, <3>2, <3>3 DEF Knows, AfterPayment, Paid
  <2>2. QED  BY <1>1, <1>2, <2>1 DEF PlaceOrder, o
<1>3. CASE CancelOrder(h)
  <2>1. CASE proc' = [proc EXCEPT ![h] = [Idle EXCEPT !.pc = "refund", !.on = o]]
    <3>1. proc'[h].pc = "refund" /\ proc'[h].on = o
      BY <1>0, <2>1, IdleType DEF Local
    <3>2. order'[o] # "NONE"
      BY <1>0, <1>3 DEF CancelOrder, Knows, Stable, o
    <3>3. QED  BY <1>0, <3>1, <3>2 DEF Knows, AfterPayment, Paid
  <2>2. QED  BY <1>1, <1>3, <2>1 DEF CancelOrder, o
<1>4. CASE ReadRefunds(h)
  <2> DEFINE remaining == Price - AlreadyRefunded(o)
             amount == IF proc[h].amount = 0 THEN remaining ELSE proc[h].amount
  <2>1. CASE payment[o] = "SUCCESSFUL" /\ amount > 0
             /\ proc' = [proc EXCEPT ![h].pc = "row", ![h].amount = amount,
                                     ![h].already = AlreadyRefunded(o)]
    <3>0. amount # 0
      BY <2>1
    <3> HIDE DEF amount
    <3>1. proc'[h].pc = "row" /\ proc'[h].on = o /\ proc'[h].amount # 0
      BY <1>0, <2>1, <3>0 DEF Local, o
    <3>2. order'[o] # "NONE" /\ payment'[o] \in Settled
      BY <1>0, <1>4, <2>1 DEF ReadRefunds, Knows, Stable, Paid, o
    <3>3. QED  BY <1>0, <3>1, <3>2 DEF Knows, AfterPayment, Paid
  <2>2. QED  BY <1>1, <1>4, <2>1 DEF ReadRefunds, o
<1>5. ASSUME proc[h].pc \in {"row", "done", "pending"},
             proc' = [proc EXCEPT ![h] = Marking(h)]
      PROVE  Knows(h)'
  <2>1. proc'[h].pc = "mark" /\ proc'[h].on = o
    BY <1>0, <1>5, MarkingType DEF o
  <2>2. order'[o] # "NONE" /\ payment'[o] \in Settled
    BY <1>0, <1>5 DEF Knows, Stable, AfterPayment, Paid, o
  <2>3. QED  BY <1>0, <2>1, <2>2 DEF Knows, AfterPayment, Paid
<1>6. CASE InsertRefund(h)
  <2> DEFINE n == Len(refunds[o]) + 1
  <2>1. CASE method[o] # "MPESA" /\ proc' = [proc EXCEPT ![h].pc = "send", ![h].row = n]
    <3>1. Row(h) \in RefundRow /\ refunds' = [refunds EXCEPT ![o] = Append(@, Row(h))]
      <4>1. proc[h].amount \in 1 .. Price
        BY <1>0, <1>6, OrdersAssumption DEF InsertRefund, Knows, Local
      <4>2. QED  BY <1>6, <4>1 DEF InsertRefund, Row, RefundRow, o
    <3>2. n \in DOMAIN refunds'[o] /\ refunds'[o][n] = Row(h)
      BY <1>0, <3>1, RowAdded
    <3>2a. refunds'[o][n].amount = proc[h].amount
      BY <3>2 DEF Row
    <3> HIDE DEF n
    <3>3. /\ proc'[h].pc = "send" /\ proc'[h].on = o /\ proc'[h].row = n
          /\ proc'[h].amount = proc[h].amount
      BY <1>0, <2>1 DEF Local, o
    <3>4. order'[o] # "NONE" /\ payment'[o] \in Settled /\ proc[h].amount # 0 /\ method'[o] # "MPESA"
      BY <1>0, <1>6, <2>1 DEF InsertRefund, Knows, Stable, AfterPayment, Paid, o
    <3>5. QED  BY <1>0, <3>2, <3>2a, <3>3, <3>4 DEF Knows, AfterPayment, Paid
  <2>2. CASE proc' = [proc EXCEPT ![h] = Marking(h)]
    BY <1>5, <1>6, <2>2 DEF InsertRefund
  <2>3. QED  BY <1>0, <1>1, <1>6, <2>1, <2>2 DEF InsertRefund, Refunded, Marking, o
<1>7. CASE SendRefund(h)
  <2>1. /\ proc[h].row \in DOMAIN refunds'[o] /\ order'[o] # "NONE" /\ payment'[o] \in Settled
        /\ proc[h].amount # 0
    BY <1>0, <1>7 DEF SendRefund, Knows, Stable, AfterPayment, Paid, o
  <2>2. CASE Throws(h)
    <3>1. proc'[h].pc = "failed" /\ proc'[h].on = o /\ proc'[h].row = proc[h].row
      BY <1>0, <2>2, IdleType DEF Throws, Local, o
    <3>2. QED  BY <1>0, <2>1, <3>1 DEF Knows, AfterPayment, Paid
  <2>3. CASE Goto(h, "done") \/ Goto(h, "pending")
    <3>1. /\ proc'[h].pc \in {"done", "pending"} /\ proc'[h].on = o
          /\ proc'[h].row = proc[h].row /\ proc'[h].amount = proc[h].amount
      BY <1>0, <2>3 DEF Local, o
    <3>2. QED  BY <1>0, <2>1, <3>1 DEF Knows, AfterPayment, Paid
  <2>4. QED  BY <1>7, <2>2, <2>3 DEF SendRefund
<1>8. CASE CompleteRefund(h)
  BY <1>0, <1>1, <1>5, <1>8 DEF CompleteRefund, Refunded, Marking
<1>9. QED
  BY <1>1, <1>2, <1>3, <1>4, <1>6, <1>7, <1>8
     DEF Continue, RecordPayment, UpdateOrderStatus, UpdateDelivery, FailRefund,
         MarkRefunded, CompleteManual

LEMMA KnownStep ==
  ASSUME TypeOK, Known, Alone, Untouched, RowsPaid, GoodsOnlyForMoney, [Next]_vars
  PROVE  Known'
<1>1. CASE UNCHANGED vars
  BY <1>1 DEF vars, orderVars, refundVars, Known, Knows, Paid
<1>2. ASSUME NEW h \in Handler, Start(h) \/ Continue(h) \/ Crash(h)  PROVE Known'
  <2>1. Stable(h) /\ proc \in [Handler -> Local]
    BY <1>2, StableStep DEF TypeOK
  <2>2. ASSUME NEW k \in Handler, proc'[k] = proc[k], k # h \/ proc[h].pc = "idle"
        PROVE  Knows(k)'
    <3>1. Knows(k)
      BY DEF Known
    <3>2. proc[k].pc = "pay" => payment'[proc[k].on] = "NONE"
      BY <2>1, <2>2, <3>1 DEF Knows, Stable, Alone
    <3>3. /\ proc[k].pc # "idle" => proc[k].on \in Order
          /\ proc[k].pc \notin {"idle", "create"} => order'[proc[k].on] # "NONE"
          /\ proc[k].pc \in AfterPayment \/ (proc[k].pc = "status" /\ proc[k].order = "PAID")
               => payment'[proc[k].on] \in {"SUCCESSFUL", "REFUNDED"}
      BY <2>1, <3>1 DEF Knows, Stable, Paid, AfterPayment
    <3>4. /\ proc[k].pc \in {"row", "send", "done", "pending"} => proc[k].amount # 0
          /\ proc[k].pc \in {"send", "done", "pending", "failed", "manual"} =>
               proc[k].row \in DOMAIN refunds'[proc[k].on]
          /\ proc[k].pc = "send" => /\ refunds'[proc[k].on][proc[k].row].amount = proc[k].amount
                                    /\ method'[proc[k].on] # "MPESA"
      BY <2>1, <3>1, <3>3 DEF Knows, Stable
    <3>5. QED  BY <2>2, <3>2, <3>3, <3>4 DEF Knows, Paid
  <2>3. Knows(h)'
    <3>1. CASE Crash(h)
      <4>1. proc'[h].pc = "idle"
        BY <2>1, <3>1, IdleType DEF Crash, Return
      <4>2. QED  BY <4>1 DEF Knows, AfterPayment, Paid
    <3>2. CASE Continue(h)
      BY <3>2, ContinueKnows
    <3>3. CASE Start(h)
      <4>1. ASSUME NEW o \in Order, Settle(h, o) \/ SettleFailed(h, o) \/ ExpireUnpaid(h, o)
            PROVE  Knows(h)'
        <5>1. proc'[h] = proc[h] /\ proc[h].pc = "idle"
          BY <4>1 DEF Settle, SettleFailed, ExpireUnpaid, Free
        <5>2. QED  BY <5>1, <2>2
      <4>2. QED  BY <3>3, <4>1, BeginKnows DEF Start
    <3>4. QED  BY <1>2, <3>1, <3>2, <3>3
  <2>4. QED  BY <2>1, <2>2, <2>3 DEF Known, Stable
<1>3. QED  BY <1>1, <1>2 DEF Next

\* A request comes to pay only with a new order, and to send a refund only
\* with a new row.
LEMMA Enters ==
  ASSUME TypeOK, Known, NEW h \in Handler, Start(h) \/ Continue(h) \/ Crash(h),
         proc'[h].pc \in {"pay", "send"}
  PROVE  \/ proc'[h] = proc[h]
         \/ /\ PlaceOrder(h) /\ order[proc[h].on] = "NONE"
            /\ proc'[h].pc = "pay" /\ proc'[h].on = proc[h].on
         \/ /\ InsertRefund(h) /\ method[proc[h].on] # "MPESA"
            /\ proc'[h].pc = "send" /\ proc'[h].on = proc[h].on
            /\ proc'[h].row = Len(refunds[proc[h].on]) + 1
<1>0. proc \in [Handler -> Local] /\ proc[h] \in Local
  BY DEF TypeOK
<1> DEFINE at(pc) == proc'[h].pc = pc
<1>1. ASSUME proc' = [proc EXCEPT ![h] = Idle]  PROVE at("idle")
  BY <1>0, <1>1, IdleType
<1>2. ASSUME proc' = [proc EXCEPT ![h] = Marking(h)]
      PROVE  at("mark")
  BY <1>0, <1>2, MarkingType
<1>3. CASE Crash(h) \/ RecordPayment(h) \/ UpdateOrderStatus(h) \/ UpdateDelivery(h)
           \/ FailRefund(h) \/ MarkRefunded(h) \/ CompleteManual(h)
  BY <1>1, <1>3 DEF Crash, RecordPayment, UpdateOrderStatus, UpdateDelivery, FailRefund,
                    MarkRefunded, CompleteManual, Return
<1>4. CASE Start(h)
  <2>1. PICK o \in Order :
          \/ \E c \in BOOLEAN : Checkout(h, o, c)
          \/ Settle(h, o) \/ SettleFailed(h, o)
          \/ ReadForCancel(h, o) \/ ExpireUnpaid(h, o) \/ ReadOrderStatus(h, o)
          \/ ReadForDelivery(h, o)
          \/ \E amount \in 0 .. Price : ReadForRefund(h, o, amount)
          \/ \E i \in 1 .. MaxRefunds : ReadManual(h, o, i)
    BY <1>4 DEF Start
  <2>2. CASE Settle(h, o) \/ SettleFailed(h, o) \/ ExpireUnpaid(h, o)
    BY <2>2 DEF Settle, SettleFailed, ExpireUnpaid
  <2>3. ASSUME NEW c \in BOOLEAN, Checkout(h, o, c)  PROVE at("create")
    BY <1>0, <2>3, IdleType DEF Checkout, Begin, Local
  <2>4. ASSUME NEW amount \in 0 .. Price, ReadForRefund(h, o, amount)
        PROVE  at("refund")
    BY <1>0, <2>4, IdleType DEF ReadForRefund, Begin, Local
  <2>5. ASSUME NEW i \in 1 .. MaxRefunds, ReadManual(h, o, i)  PROVE at("manual")
    BY <1>0, <2>5, IdleType DEF ReadManual, Begin, Local
  <2>6. CASE ReadForCancel(h, o)
    <3> DEFINE paid == payment[o] = "SUCCESSFUL"
    <3>1. paid \in BOOLEAN
      OBVIOUS
    <3>2. proc' = [proc EXCEPT ![h] = [Idle EXCEPT !.pc = "cancel", !.on = o,
                                                   !.order = order[o], !.flag = paid]]
      BY <2>6 DEF ReadForCancel, Begin
    <3> HIDE DEF paid
    <3>3. at("cancel")
      BY <1>0, <3>1, <3>2, IdleType DEF Local
    <3>4. QED  BY <3>3
  <2>7. /\ ReadOrderStatus(h, o) => at("status")
        /\ ReadForDelivery(h, o) => at("deliver")
    <3>1. ReadOrderStatus(h, o) => at("status")
      BY <1>0, IdleType DEF ReadOrderStatus, Begin, Local
    <3>2. ReadForDelivery(h, o) => at("deliver")
      BY <1>0, IdleType DEF ReadForDelivery, Begin, Local
    <3>3. QED  BY <3>1, <3>2
  <2>8. QED  BY <2>1, <2>2, <2>3, <2>4, <2>5, <2>6, <2>7
<1>5. CASE PlaceOrder(h)
  BY <1>0, <1>1, <1>5 DEF PlaceOrder, Return, Goto, Local
<1>6. CASE CancelOrder(h)
  <2>1. proc' = [proc EXCEPT ![h] = [Idle EXCEPT !.pc = "refund", !.on = proc[h].on]]
          => at("refund")
    BY <1>0, IdleType DEF Local
  <2>2. QED  BY <1>1, <1>6, <2>1 DEF CancelOrder, Return
<1>7. CASE ReadRefunds(h)
  <2> DEFINE already == AlreadyRefunded(proc[h].on)
             amount == IF proc[h].amount = 0 THEN Price - already ELSE proc[h].amount
  <2>1. \/ proc' = [proc EXCEPT ![h] = Idle]
        \/ proc' = [proc EXCEPT ![h].pc = "row", ![h].amount = amount,
                                ![h].already = already]
    BY <1>7 DEF ReadRefunds, Return
  <2> HIDE DEF amount, already
  <2>2. ASSUME proc' = [proc EXCEPT ![h].pc = "row", ![h].amount = amount,
                                    ![h].already = already]
        PROVE  at("row")
    BY <1>0, <2>2 DEF Local
  <2>3. QED  BY <1>1, <2>1, <2>2
<1>8. CASE InsertRefund(h)
  <2>1. CASE method[proc[h].on] = "MPESA"
    BY <1>1, <1>2, <1>8, <2>1 DEF InsertRefund, Refunded, Marking
  <2>2. CASE method[proc[h].on] # "MPESA"
    <3> DEFINE n == Len(refunds[proc[h].on]) + 1
    <3>1. proc' = [proc EXCEPT ![h].pc = "send", ![h].row = n]
      BY <1>8, <2>2 DEF InsertRefund
    <3> HIDE DEF n
    <3>2. proc'[h].pc = "send" /\ proc'[h].on = proc[h].on /\ proc'[h].row = n
      BY <1>0, <3>1 DEF Local
    <3>3. QED  BY <1>8, <2>2, <3>2 DEF n
  <2>3. QED  BY <2>1, <2>2
<1>9. CASE SendRefund(h)
  <2>1. /\ Throws(h) => at("failed")
        /\ Goto(h, "done") => at("done")
        /\ Goto(h, "pending") => at("pending")
    <3>1. Throws(h) => at("failed")
      BY <1>0, IdleType DEF Throws, Local
    <3>2. /\ Goto(h, "done") => at("done")
          /\ Goto(h, "pending") => at("pending")
      BY <1>0 DEF Goto, Local
    <3>3. QED  BY <3>1, <3>2
  <2>2. QED  BY <1>9, <2>1 DEF SendRefund
<1>10. CASE CompleteRefund(h)
  BY <1>1, <1>2, <1>10 DEF CompleteRefund, Refunded, Marking
<1>11. QED
  BY <1>3, <1>4, <1>5, <1>6, <1>7, <1>8, <1>9, <1>10 DEF Continue

LEMMA AloneStep ==
  ASSUME TypeOK, Known, Alone, [Next]_vars
  PROVE  Alone'
<1>1. CASE UNCHANGED vars
  BY <1>1 DEF vars, Alone
<1>2. ASSUME NEW h \in Handler, Start(h) \/ Continue(h) \/ Crash(h)  PROVE Alone'
  <2>1. \A k \in Handler : k # h => proc'[k] = proc[k]
    BY <1>2, OthersStay
  <2>2. ASSUME NEW k \in Handler, k # h,
               proc'[h].pc = proc[k].pc, proc'[h].on = proc[k].on,
               \/ proc'[h].pc = "pay"
               \/ proc'[h].pc = "send" /\ proc'[h].row = proc[k].row
        PROVE  FALSE
    <3>1. CASE proc'[h] = proc[h]
      BY <2>2, <3>1 DEF Alone
    <3>2. proc[k].on \in Order /\ order[proc[k].on] # "NONE"
      BY <2>2 DEF Known, Knows
    <3>3. proc[k].pc = "send" =>
            Len(refunds[proc[k].on]) + 1 # proc[k].row
      <4>1. proc[k].pc = "send" => proc[k].row \in DOMAIN refunds[proc[k].on]
        BY DEF Known, Knows
      <4>2. /\ Len(refunds[proc[k].on]) \in Nat
            /\ DOMAIN refunds[proc[k].on] = 1 .. Len(refunds[proc[k].on])
        BY <3>2, RowsFinite
      <4>3. QED  BY <4>1, <4>2
    <3>4. QED  BY <1>2, <2>2, <3>1, <3>2, <3>3, Enters
  <2>3. QED  BY <2>1, <2>2 DEF Alone
<1>3. QED  BY <1>1, <1>2 DEF Next

-----------------------------------------------------------------------------
(***************************************************************************)
(* Orders, deliveries and their money.                                     *)
(***************************************************************************)
\* Where orders and deliveries move: the request stands at the order, or has
\* just made it, and only a paid one goes on to the buyer.
LEMMA OrdersMove ==
  ASSUME TypeOK, Known, NEW h \in Handler, Start(h) \/ Continue(h) \/ Crash(h),
         NEW o \in Order
  PROVE  /\ order[o] = "NONE" /\ order'[o] = "NONE" => delivery'[o] = delivery[o]
         /\ \/ order'[o] = order[o]
            \/ order'[o] \in {"AWAITING_PAYMENT", "CANCELLED"}
            \/ Paid(o)'
         /\ \/ delivery'[o] = delivery[o]
            \/ delivery'[o] \notin OnTheWay
            \/ Paid(o)'
<1> USE DEF TypeOK, orderVars, Paid
<1>1. CASE Crash(h)
  BY <1>1 DEF Crash
<1>2. CASE Start(h)
  <2>1. ASSUME NEW p \in Order, Settle(h, p) \/ SettleFailed(h, p) \/ ExpireUnpaid(h, p)
        PROVE  /\ order[o] = "NONE" /\ order'[o] = "NONE" => delivery'[o] = delivery[o]
               /\ \/ order'[o] = order[o]
                  \/ order'[o] \in {"AWAITING_PAYMENT", "CANCELLED"}
                  \/ Paid(o)'
               /\ \/ delivery'[o] = delivery[o]
                  \/ delivery'[o] \notin OnTheWay
                  \/ Paid(o)'
    BY <2>1 DEF Settle, SettleFailed, ExpireUnpaid, OnTheWay
  <2>2. CASE order' = order /\ delivery' = delivery
    BY <2>2
  <2>3. QED
    BY <1>2, <2>1, <2>2 DEF Start, Checkout, ReadForCancel, ReadOrderStatus,
                            ReadForDelivery, ReadForRefund, ReadManual
<1>3. CASE PlaceOrder(h) \/ CancelOrder(h)
  BY <1>3 DEF PlaceOrder, CancelOrder, OnTheWay
<1>4. CASE UpdateOrderStatus(h)
  BY <1>4 DEF UpdateOrderStatus, Known, Knows
<1>5. CASE UpdateDelivery(h) \/ MarkRefunded(h)
  <2>1. Paid(proc[h].on) /\ payment' = payment /\ order[proc[h].on] # "NONE"
    BY <1>5 DEF UpdateDelivery, MarkRefunded, Known, Knows, AfterPayment
  <2>2. ASSUME o # proc[h].on  PROVE order'[o] = order[o] /\ delivery'[o] = delivery[o]
    <3>1. CASE UpdateDelivery(h)
      <4>1. \/ order' = [order EXCEPT ![proc[h].on] = "PROCESSING"]
            \/ order' = [order EXCEPT ![proc[h].on] = "FULFILLED"]
            \/ order' = order
        BY <3>1 DEF UpdateDelivery
      <4>2. \E to : delivery' = [delivery EXCEPT ![proc[h].on] = to]
        BY <3>1 DEF UpdateDelivery
      <4>3. QED  BY <2>2, <4>1, <4>2
    <3>2. CASE MarkRefunded(h)
      BY <2>2, <3>2 DEF MarkRefunded
    <3>3. QED  BY <1>5, <3>1, <3>2
  <2>3. QED  BY <2>1, <2>2
<1>6. CASE RecordPayment(h) \/ ReadRefunds(h) \/ InsertRefund(h) \/ SendRefund(h)
           \/ CompleteRefund(h) \/ FailRefund(h) \/ CompleteManual(h)
  BY <1>6 DEF RecordPayment, ReadRefunds, InsertRefund, SendRefund, CompleteRefund,
              FailRefund, CompleteManual
<1>7. QED  BY <1>1, <1>2, <1>3, <1>4, <1>5, <1>6 DEF Continue

\* A coupon is redeemed with the order, and given back by closing it.
LEMMA CouponsMove ==
  ASSUME TypeOK, Known, NEW h \in Handler, Start(h) \/ Continue(h) \/ Crash(h)
  PROVE  \/ coupon' = coupon /\ usage' = usage
         \/ \E o \in Order : order[o] = "NONE" /\ order'[o] # "NONE"
                             /\ coupon' = coupon \union {o} /\ usage' = usage + 1
         \/ \E o \in Order : ReleaseCoupon(o)
<1> USE DEF shopVars
<1>1. CASE Crash(h)
  BY <1>1 DEF Crash
<1>2. CASE Start(h)
  BY <1>2 DEF Start, Checkout, Settle, SettleFailed, ReadForCancel, ExpireUnpaid,
              ReadOrderStatus, ReadForDelivery, ReadForRefund, ReadManual
<1>3. CASE PlaceOrder(h) \/ CancelOrder(h)
  <2>1. proc[h].on \in Order
    BY <1>3 DEF PlaceOrder, CancelOrder, Known, Knows
  <2>2. CASE PlaceOrder(h) /\ order[proc[h].on] = "NONE"
    <3>1. order'[proc[h].on] # "NONE"
      BY <2>1, <2>2 DEF PlaceOrder, TypeOK
    <3>2. QED  BY <2>1, <2>2, <3>1 DEF PlaceOrder
  <2>3. CASE PlaceOrder(h) /\ order[proc[h].on] # "NONE"
    BY <2>3 DEF PlaceOrder
  <2>4. QED  BY <1>3, <2>1, <2>2, <2>3 DEF CancelOrder
<1>4. CASE RecordPayment(h) \/ UpdateOrderStatus(h) \/ UpdateDelivery(h) \/ MarkRefunded(h)
  BY <1>4 DEF RecordPayment, UpdateOrderStatus, UpdateDelivery, MarkRefunded
<1>5. CASE ReadRefunds(h) \/ InsertRefund(h) \/ SendRefund(h)
           \/ CompleteRefund(h) \/ FailRefund(h) \/ CompleteManual(h)
  BY <1>5 DEF ReadRefunds, InsertRefund, SendRefund, CompleteRefund,
              FailRefund, CompleteManual
<1>6. QED  BY <1>1, <1>2, <1>3, <1>4, <1>5 DEF Continue

LEMMA UntouchedStep ==
  ASSUME TypeOK, Known, Untouched, [Next]_vars
  PROVE  Untouched'
<1>1. CASE UNCHANGED vars
  BY <1>1 DEF vars, orderVars, shopVars, Untouched
<1>2. ASSUME NEW h \in Handler, Start(h) \/ Continue(h) \/ Crash(h),
             NEW o \in Order, order'[o] = "NONE"
      PROVE  payment'[o] = "NONE" /\ delivery'[o] = "NONE" /\ o \notin coupon'
  <2>1. order[o] = "NONE" /\ payment[o] = "NONE" /\ delivery[o] = "NONE" /\ o \notin coupon
    BY <1>2, OrdersStay DEF Untouched
  <2>2. payment'[o] = "NONE"
    BY <1>2, <2>1, PaymentsStay DEF Known, Knows
  <2>3. delivery'[o] = "NONE"
    BY <1>2, <2>1, OrdersMove
  <2>4. o \notin coupon'
    BY <1>2, <2>1, CouponsMove DEF ReleaseCoupon
  <2>5. QED  BY <2>2, <2>3, <2>4
<1>3. QED  BY <1>1, <1>2 DEF Next, Untouched

LEMMA RowsPaidStep ==
  ASSUME TypeOK, Known, RowsPaid, [Next]_vars
  PROVE  RowsPaid'
<1>1. CASE UNCHANGED vars
  BY <1>1 DEF vars, orderVars, refundVars, RowsPaid, Paid
<1>2. ASSUME NEW h \in Handler, Start(h) \/ Continue(h) \/ Crash(h), NEW o \in Order,
             refunds'[o] # <<>>
      PROVE  Paid(o)'
  <2>1. Paid(o) => Paid(o)'
    BY <1>2, PaymentsStay
  <2>2. refunds[o] # <<>> => Paid(o)
    BY DEF RowsPaid
  <2>3. CASE refunds' = refunds
    BY <1>2, <2>1, <2>2, <2>3
  <2>4. CASE Edits(h)
    <3>1. proc[h].row \in DOMAIN refunds[proc[h].on] /\ proc[h].on \in Order
      BY <2>4 DEF Edits, Known, Knows
    <3>2. refunds[o] # <<>>
      BY <1>2, <2>4, <3>1, RowEdited DEF Edits
    <3>3. QED  BY <2>1, <2>2, <3>2
  <2>5. CASE /\ InsertRefund(h) /\ Row(h) \in RefundRow /\ proc[h].on \in Order
             /\ refunds' = [refunds EXCEPT ![proc[h].on] = Append(@, Row(h))]
    <3>1. Paid(proc[h].on)
      BY <2>5 DEF InsertRefund, Known, Knows, AfterPayment
    <3>2. o # proc[h].on => refunds'[o] = refunds[o]
      BY <2>5 DEF TypeOK
    <3>3. QED  BY <1>2, <2>1, <2>2, <3>1, <3>2
  <2>6. QED  BY <1>2, <2>3, <2>4, <2>5, RefundsStep
<1>3. QED  BY <1>1, <1>2 DEF Next, RowsPaid

LEMMA GoodsStep ==
  ASSUME TypeOK, Known, GoodsOnlyForMoney, [Next]_vars
  PROVE  GoodsOnlyForMoney'
<1>1. CASE UNCHANGED vars
  BY <1>1 DEF vars, orderVars, GoodsOnlyForMoney
<1>2. ASSUME NEW h \in Handler, Start(h) \/ Continue(h) \/ Crash(h), NEW o \in Order
      PROVE  \/ order'[o] \in {"PAID", "PROCESSING", "FULFILLED", "REFUNDED"}
             \/ delivery'[o] \in OnTheWay
             => Paid(o)'
  <2>1. Paid(o) => Paid(o)'
    BY <1>2, PaymentsStay
  <2>2. \/ order[o] \in {"PAID", "PROCESSING", "FULFILLED", "REFUNDED"}
        \/ delivery[o] \in OnTheWay
        => Paid(o)
    BY DEF GoodsOnlyForMoney, Paid
  <2>3. QED  BY <1>2, <2>1, <2>2, OrdersMove
<1>3. QED  BY <1>1, <1>2 DEF Next, GoodsOnlyForMoney, Paid

LEMMA CouponStep ==
  ASSUME TypeOK, Known, Untouched, CouponCounted, [Next]_vars
  PROVE  CouponCounted'
<1> USE DEF CouponCounted, CouponUsesCounted
<1>1. CASE coupon' = coupon /\ usage' = usage
  BY <1>1
<1>2. ASSUME NEW o \in Order, order[o] = "NONE", coupon' = coupon \union {o},
             usage' = usage + 1
      PROVE  CouponCounted'
  <2>1. o \notin coupon
    BY <1>2 DEF Untouched
  <2>2. QED  BY <1>2, <2>1, FS_AddElement
<1>3. ASSUME NEW o \in Order, ReleaseCoupon(o)  PROVE CouponCounted'
  <2>1. CASE o \in coupon
    <3>1. usage > 0
      BY <2>1, FS_EmptySet, FS_CardinalityType DEF TypeOK
    <3>2. IsFiniteSet(coupon') /\ Cardinality(coupon') = Cardinality(coupon) - 1
      BY <1>3, <2>1, FS_RemoveElement DEF ReleaseCoupon
    <3>3. QED  BY <1>3, <2>1, <3>1, <3>2 DEF ReleaseCoupon
  <2>2. CASE o \notin coupon
    BY <1>3, <2>2 DEF ReleaseCoupon
  <2>3. QED  BY <2>1, <2>2
<1>4. CASE UNCHANGED vars
  BY <1>1, <1>4 DEF vars, shopVars
<1>5. ASSUME NEW h \in Handler, Start(h) \/ Continue(h) \/ Crash(h)
      PROVE  CouponCounted'
  BY <1>1, <1>2, <1>3, <1>5, CouponsMove
<1>6. QED  BY <1>4, <1>5 DEF Next

-----------------------------------------------------------------------------
(***************************************************************************)
(* Money given back.                                                       *)
(***************************************************************************)
\* Money moves only when a request sends its row, by a key not known before.
Sends(h, o) ==
  LET key == RefundKey(o, proc[h].amount) IN
  /\ SendRefund(h) /\ o = proc[h].on
  /\ moved'[o] = moved[o] + proc[h].amount
  /\ key \notin keys[o] /\ keys'[o] = keys[o] \union {key}
  /\ method[o] = "CARD" => moved[o] + proc[h].amount <= Price
  /\ proc'[h].pc # "send"

LEMMA MoneyMoves ==
  ASSUME TypeOK, NEW h \in Handler, Start(h) \/ Continue(h) \/ Crash(h), NEW o \in Order
  PROVE  \/ moved'[o] = moved[o] /\ keys'[o] = keys[o]
         \/ Sends(h, o)
<1> USE DEF refundVars
<1>1. CASE Crash(h)
  BY <1>1 DEF Crash
<1>2. CASE Start(h)
  BY <1>2 DEF Start, Checkout, Settle, SettleFailed, ReadForCancel, ExpireUnpaid,
              ReadOrderStatus, ReadForDelivery, ReadForRefund, ReadManual
<1>3. CASE PlaceOrder(h) \/ RecordPayment(h) \/ CancelOrder(h) \/ UpdateOrderStatus(h)
           \/ UpdateDelivery(h) \/ MarkRefunded(h)
  BY <1>3 DEF PlaceOrder, RecordPayment, CancelOrder, UpdateOrderStatus, UpdateDelivery,
              MarkRefunded
<1>4. CASE ReadRefunds(h) \/ InsertRefund(h) \/ CompleteRefund(h) \/ FailRefund(h)
           \/ CompleteManual(h)
  BY <1>4 DEF ReadRefunds, InsertRefund, CompleteRefund, FailRefund, CompleteManual
<1>5. CASE SendRefund(h)
  <2> DEFINE p == proc[h].on
             amount == proc[h].amount
             refuses == Refusable(p, amount) /\ moved[p] + amount > Price
  <2>1. CASE UNCHANGED <<moved, keys>>
    BY <2>1
  <2>2. CASE /\ RefundKey(p, amount) \notin keys[p] /\ ~refuses
             /\ moved' = [moved EXCEPT ![p] = @ + amount]
             /\ keys' = [keys EXCEPT ![p] = @ \union {RefundKey(p, amount)}]
    <3>1. CASE o # p
      BY <2>2, <3>1 DEF TypeOK
    <3>2. CASE o = p
      <4>1. /\ moved'[o] = moved[o] + amount
            /\ keys'[o] = keys[o] \union {RefundKey(o, amount)}
        BY <2>2, <3>2 DEF TypeOK
      <4>2. method[o] = "CARD" => moved[o] + amount <= Price
        <5>1. moved[o] + amount \in Nat
          BY <3>2 DEF TypeOK, Local
        <5>2. QED  BY <2>2, <3>2, <5>1, OrdersAssumption DEF Refusable
      <4>3. proc'[h].pc # "send"
        <5>1. Throws(h) \/ Goto(h, "done") \/ Goto(h, "pending")
          BY <1>5 DEF SendRefund
        <5>2. proc \in [Handler -> Local] /\ proc[h] \in Local
          BY DEF TypeOK
        <5>3. Throws(h) => proc'[h].pc = "failed"
          BY <5>2, IdleType DEF Throws, Local
        <5>4. Goto(h, "done") \/ Goto(h, "pending") => proc'[h].pc \in {"done", "pending"}
          BY <5>2 DEF Goto, Local
        <5>5. QED  BY <5>1, <5>3, <5>4
      <4>4. QED  BY <1>5, <2>2, <3>2, <4>1, <4>2, <4>3 DEF Sends
    <3>3. QED  BY <3>1, <3>2
  <2>3. QED  BY <1>5, <2>1, <2>2 DEF SendRefund, ProviderRefunds
<1>6. QED  BY <1>1, <1>2, <1>3, <1>4, <1>5 DEF Continue

\* A row that was sent stays so, and what its rows say of it.
LEMMA SentStays ==
  ASSUME TypeOK, TypeOK', Known, NEW h \in Handler, Start(h) \/ Continue(h) \/ Crash(h),
         NEW o \in Order
  PROVE  /\ Sent(o) \subseteq Sent(o)'
         /\ SumFunctionOnSet(Amounts(refunds'[o]), Sent(o)) =
              SumFunctionOnSet(Amounts(refunds[o]), Sent(o))
<1> DEFINE D == DOMAIN refunds[o]
           E == DOMAIN refunds'[o]
           f == Amounts(refunds[o])
           g == Amounts(refunds'[o])
<1>1. D \subseteq E /\ \A i \in D : refunds'[o][i].amount = refunds[o][i].amount
  BY RefundsStay
<1>2. Sent(o) \subseteq D
  BY DEF Sent
<1>3. ASSUME NEW i \in Sent(o)  PROVE i \in Sent(o)'
  <2>1. i \in D /\ i \in E
    BY <1>1, <1>2
  <2>2. ~(proc'[h].pc = "send" /\ proc'[h].on = o /\ proc'[h].row = i)
    <3>1. ~(proc[h].pc = "send" /\ proc[h].on = o /\ proc[h].row = i)
      BY <1>3 DEF Sent
    <3>2. Len(refunds[o]) + 1 # i
      <4>1. D = 1 .. Len(refunds[o]) /\ Len(refunds[o]) \in Nat
        BY RowsFinite
      <4>2. QED  BY <2>1, <4>1
    <3>3. QED  BY <3>1, <3>2, Enters
  <2>3. \A k \in Handler : k # h => ~(proc'[k].pc = "send" /\ proc'[k].on = o /\ proc'[k].row = i)
    BY <1>3, OthersStay DEF Sent
  <2>4. QED  BY <2>1, <2>2, <2>3 DEF Sent
<1>4. \A i \in Sent(o) : f[i] = g[i]
  BY <1>1, <1>2 DEF Amounts
<1>5. IsFiniteSet(Sent(o))
  BY <1>2, RowsFinite, FS_Subset
<1> HIDE DEF f, g
<1>6. SumFunctionOnSet(f, Sent(o)) = SumFunctionOnSet(g, Sent(o))
  BY <1>4, <1>5, SumSame
<1>7. QED  BY <1>3, <1>6 DEF f, g

\* The row that is sent joins the sent ones.
LEMMA SentGrows ==
  ASSUME TypeOK, TypeOK', Known, Alone, NEW h \in Handler, Continue(h), NEW o \in Order,
         Sends(h, o)
  PROVE  /\ proc[h].row \in Sent(o)' /\ proc[h].row \notin Sent(o)
         /\ refunds'[o][proc[h].row].amount = proc[h].amount
<1> DEFINE i == proc[h].row
<1>1. /\ proc[h].pc = "send" /\ proc[h].on = o /\ refunds' = refunds
      /\ proc'[h].pc # "send"
  BY DEF Sends, SendRefund
<1>2. i \in DOMAIN refunds[o] /\ refunds[o][i].amount = proc[h].amount
  BY <1>1 DEF Known, Knows
<1>3. i \notin Sent(o)
  BY <1>1 DEF Sent
<1>4. \A k \in Handler : k # h => ~(proc[k].pc = "send" /\ proc[k].on = o /\ proc[k].row = i)
  BY <1>1 DEF Alone
<1>5. \A k \in Handler : ~(proc'[k].pc = "send" /\ proc'[k].on = o /\ proc'[k].row = i)
  BY <1>1, <1>4, OthersStay
<1> HIDE DEF i
<1>6. i \in Sent(o)'
  BY <1>1, <1>2, <1>5 DEF Sent
<1>7. QED  BY <1>1, <1>2, <1>3, <1>6 DEF i

LEMMA MovedStep ==
  ASSUME TypeOK, TypeOK', Known, Alone, MovedIsSent, [Next]_vars
  PROVE  MovedIsSent'
<1>1. CASE UNCHANGED vars
  BY <1>1 DEF vars, orderVars, refundVars, MovedIsSent, Sent
<1>2. ASSUME NEW h \in Handler, Start(h) \/ Continue(h) \/ Crash(h), NEW o \in Order
      PROVE  /\ moved'[o] <= SumFunctionOnSet(Amounts(refunds'[o]), Sent(o)')
             /\ moved'[o] <= Price
             /\ method'[o] = "WALLET" /\ 0 \notin keys'[o] => moved'[o] = 0
  <2> DEFINE f == Amounts(refunds[o])
             g == Amounts(refunds'[o])
             S == Sent(o)
             T == Sent(o)'
  <2>1. /\ moved[o] <= SumFunctionOnSet(f, S) /\ moved[o] <= Price
        /\ method[o] = "WALLET" /\ 0 \notin keys[o] => moved[o] = 0
    BY DEF MovedIsSent
  <2>2. S \subseteq T /\ SumFunctionOnSet(g, S) = SumFunctionOnSet(f, S)
    BY <1>2, SentStays
  <2>3. T \subseteq DOMAIN refunds'[o]
    BY DEF Sent
  <2>4. IsFiniteSet(DOMAIN refunds'[o]) /\ \A i \in DOMAIN refunds'[o] :
           g[i] = refunds'[o][i].amount /\ g[i] \in Nat
    <3>1. refunds'[o] \in Seq(RefundRow)
      BY DEF TypeOK
    <3>2. /\ Len(refunds'[o]) \in Nat /\ DOMAIN refunds'[o] = 1 .. Len(refunds'[o])
          /\ \A i \in DOMAIN refunds'[o] : refunds'[o][i] \in RefundRow
      BY <3>1
    <3>3. \A i \in DOMAIN refunds'[o] : refunds'[o][i].amount \in Nat
      BY <3>2, OrdersAssumption DEF RefundRow
    <3>4. IsFiniteSet(DOMAIN refunds'[o])
      BY <3>2, FS_Interval
    <3>5. QED  BY <3>3, <3>4 DEF Amounts
  <2>5. method'[o] = method[o]
    BY <1>2, StableStep DEF Stable
  <2> HIDE DEF f, g, S, T
  <2>6. IsFiniteSet(T) /\ IsFiniteSet(S) /\ \A i \in T : g[i] \in Nat
    BY <2>2, <2>3, <2>4, FS_Subset
  <2>7. /\ SumFunctionOnSet(g, S) <= SumFunctionOnSet(g, T)
        /\ SumFunctionOnSet(g, S) \in Nat /\ SumFunctionOnSet(g, T) \in Nat
    BY <2>2, <2>6, SumPart, SumNat
  <2>8. moved[o] \in Nat /\ moved'[o] \in Nat /\ Price \in Nat
    BY OrdersAssumption DEF TypeOK
  <2>9. CASE moved'[o] = moved[o] /\ keys'[o] = keys[o]
    <3>1. moved'[o] <= SumFunctionOnSet(g, T)
      BY <2>1, <2>2, <2>7, <2>8, <2>9
    <3>2. QED  BY <2>1, <2>5, <2>9, <3>1 DEF g, T
  <2>10. CASE Sends(h, o)
    <3> DEFINE i == proc[h].row
               a == proc[h].amount
    <3>1. /\ SendRefund(h) /\ proc[h].on = o /\ moved'[o] = moved[o] + a
          /\ RefundKey(o, a) \notin keys[o] /\ keys'[o] = keys[o] \union {RefundKey(o, a)}
          /\ method[o] = "CARD" => moved[o] + a <= Price
      BY <2>10 DEF Sends
    <3>2. method[o] \in {"CARD", "WALLET"} /\ a \in 0 .. Price
      <4>1. method[o] # "MPESA"
        BY <3>1 DEF SendRefund, Known, Knows
      <4>2. proc[h] \in Local /\ method[o] \in Method
        BY DEF TypeOK
      <4>3. QED  BY <4>1, <4>2, OrdersAssumption DEF Local
    <3>3. i \in T /\ i \notin S /\ g[i] = a
      <4>1. i \in T /\ i \notin S /\ refunds'[o][i].amount = a
        BY <2>10, <3>1, SentGrows DEF Continue, S, T
      <4>2. QED  BY <2>3, <2>4, <4>1 DEF T
    <3> HIDE DEF i, a
    <3>4. S \union {i} \in SUBSET T
      BY <2>2, <3>3
    <3>5. SumFunctionOnSet(g, S \union {i}) <= SumFunctionOnSet(g, T)
      BY <2>6, <3>4, SumPart
    <3>6. SumFunctionOnSet(g, S \union {i}) = a + SumFunctionOnSet(g, S)
      <4>1. \A j \in S \union {i} : g[j] \in Int
        BY <2>6, <3>4
      <4>2. QED  BY <2>6, <3>3, <4>1, SumAdd
    <3>7. moved'[o] <= SumFunctionOnSet(g, T)
      BY <2>1, <2>2, <2>7, <2>8, <3>1, <3>2, <3>5, <3>6
    <3>8. moved'[o] <= Price
      BY <2>1, <2>8, <3>1, <3>2 DEF RefundKey
    <3>9. method[o] = "WALLET" => 0 \in keys'[o]
      BY <3>1 DEF RefundKey
    <3>10. QED  BY <2>5, <3>7, <3>8, <3>9 DEF g, T
  <2>11. QED  BY <1>2, <2>9, <2>10, MoneyMoves
<1>3. QED  BY <1>1, <1>2 DEF Next, MovedIsSent

-----------------------------------------------------------------------------
(***************************************************************************)
(* The inductive invariant, and what follows from it.                      *)
(***************************************************************************)
LEMMA InvInit == Init => IInv
<1> SUFFICES ASSUME Init PROVE IInv
  OBVIOUS
<1>1. TypeOK
  BY TypeInit
<1>2. \A h \in Handler : proc[h].pc = "idle"
  BY DEF Init, Idle
<1>3. Known
  BY <1>2 DEF Known, Knows, AfterPayment
<1>4. Alone
  BY <1>2 DEF Alone
<1>5. Untouched /\ GoodsOnlyForMoney
  BY DEF Init, Untouched, GoodsOnlyForMoney, OnTheWay
<1>6. RowsPaid
  BY DEF Init, RowsPaid
<1>7. CouponCounted
  BY FS_EmptySet DEF Init, CouponCounted, CouponUsesCounted
<1>8. MovedIsSent
  <2> SUFFICES ASSUME NEW o \in Order
               PROVE  /\ moved[o] <= SumFunctionOnSet(Amounts(refunds[o]), Sent(o))
                      /\ moved[o] <= Price
                      /\ method[o] = "WALLET" /\ 0 \notin keys[o] => moved[o] = 0
    BY DEF MovedIsSent
  <2>1. refunds[o] = <<>> /\ moved[o] = 0
    BY DEF Init
  <2>2. Sent(o) = {}
    BY <2>1 DEF Sent
  <2>3. SumFunctionOnSet(Amounts(refunds[o]), Sent(o)) = 0
    BY <2>2, SumEmpty
  <2>4. QED  BY <2>1, <2>3, OrdersAssumption
<1>9. QED  BY <1>1, <1>3, <1>4, <1>5, <1>6, <1>7, <1>8 DEF IInv

LEMMA InvStep == IInv /\ [Next]_vars => IInv'
BY TypeStep, KnownStep, AloneStep, UntouchedStep, RowsPaidStep, GoodsStep, MovedStep,
   CouponStep DEF IInv

THEOREM Invariance == Spec => []IInv
BY InvInit, InvStep, PTL DEF Spec

\* Variables, rows and locals have their types in every state the requests
\* reach (order.service.ts, refund.service.ts).
THEOREM TypeCorrect == Spec => []TypeOK
<1>1. IInv => TypeOK
  BY DEF IInv
<1>2. QED  BY <1>1, Invariance, PTL

\* No goods leave for an order that was not paid, whatever overlaps the
\* delivery (updateDeliveryStatus, updateOrderStatus).
THEOREM GoodsOnlyForMoneyHolds == Spec => []GoodsOnlyForMoney
<1>1. IInv => GoodsOnlyForMoney
  BY DEF IInv
<1>2. QED  BY <1>1, Invariance, PTL

\* However refunds overlap, crash or lose an answer, no money goes back
\* without a row that says so, nor more than was paid (refundPayment).
THEOREM MoneyBackIsTracedHolds == Spec => []MoneyBackIsTraced
<1>1. ASSUME IInv, NEW o \in Order
      PROVE  moved[o] <= Sum(refunds[o]) /\ moved[o] <= Price
  <2> DEFINE f == Amounts(refunds[o])
             D == DOMAIN refunds[o]
             S == Sent(o)
  <2>1. moved[o] <= SumFunctionOnSet(f, S) /\ moved[o] <= Price /\ moved[o] \in Nat
    BY <1>1 DEF IInv, MovedIsSent, TypeOK
  <2>2. IsFiniteSet(D) /\ \A i \in D : f[i] \in Nat
    BY <1>1, RowsFinite DEF IInv
  <2>3. S \in SUBSET D
    BY DEF Sent
  <2> HIDE DEF f, D, S
  <2>4. SumFunctionOnSet(f, S) <= SumFunctionOnSet(f, D)
    BY <2>2, <2>3, SumPart
  <2>5. SumFunctionOnSet(f, S) \in Nat /\ SumFunctionOnSet(f, D) \in Nat
    BY <2>2, <2>3, SumNat, FS_Subset
  <2>6. moved[o] <= SumFunctionOnSet(f, D)
    BY <2>1, <2>4, <2>5
  <2>7. QED  BY <2>1, <2>6 DEF Sum, f, D
<1>2. IInv => MoneyBackIsTraced
  BY <1>1 DEF MoneyBackIsTraced
<1>3. QED  BY <1>2, Invariance, PTL

\* The coupon's counter is the number of orders that hold a use of it
\* (createOrder, cancelOrder, expireUnpaidOrders).
THEOREM CouponUsesCountedHolds == Spec => []CouponUsesCounted
<1>1. IInv => CouponUsesCounted
  BY DEF IInv, CouponCounted
<1>2. QED  BY <1>1, Invariance, PTL

-----------------------------------------------------------------------------
(***************************************************************************)
(* Stock and deliveries.  A request that overlaps others either writes by  *)
(* what is still so, or its order is remembered as stale.                  *)
(***************************************************************************)
\* An order that nobody has paid for waits, its parcel with it, and nobody has
\* written it by an outdated reading.
Waits(o) ==
  /\ order[o] \in {"NONE", "AWAITING_PAYMENT"} => o \notin stale
  /\ order[o] = "AWAITING_PAYMENT" => delivery[o] = "PENDING" /\ ~Paid(o)

Waiting == \A o \in Order : Waits(o)

Kept(o) == HasUnit(o) \/ o \in stale

UnitsKept == IsFiniteSet({o \in Order : Kept(o)}) /\ NoUnitLost

StockInv == Waiting /\ UnitsKept

LEMMA TransitionsRows ==
  ASSUME NEW from, NEW to \in Transitions(from)
  PROVE  /\ from \notin {"DELIVERED", "RETURNED", "CANCELLED"}
         /\ to \in DOMAIN StageBefore => from \in StageBefore[to]
         /\ to # "PENDING"
<1>1. \/ \E i \in 1 .. 4 : Flow[i] = from /\ to = Flow[i + 1]
      \/ from = "FAILED" /\ to \in {"OUT_FOR_DELIVERY", "RETURNED", "CANCELLED"}
      \/ from \in {"PENDING", "PROCESSING"} /\ to = "CANCELLED"
      \/ from \in {"DISPATCHED", "OUT_FOR_DELIVERY"} /\ to \in {"FAILED", "RETURNED"}
  BY DEF Transitions, Flow
<1>2. \/ from = "PENDING" /\ to = "PROCESSING"
      \/ from = "PROCESSING" /\ to = "DISPATCHED"
      \/ from = "DISPATCHED" /\ to = "OUT_FOR_DELIVERY"
      \/ from = "OUT_FOR_DELIVERY" /\ to = "DELIVERED"
      \/ from = "FAILED" /\ to \in {"OUT_FOR_DELIVERY", "RETURNED", "CANCELLED"}
      \/ from \in {"PENDING", "PROCESSING"} /\ to = "CANCELLED"
      \/ from \in {"DISPATCHED", "OUT_FOR_DELIVERY"} /\ to \in {"FAILED", "RETURNED"}
  BY <1>1 DEF Flow
<1>3. QED  BY <1>2 DEF StageBefore

\* What a step does to the parcel of an order.
Advances(o) ==
  delivery'[o] # delivery[o] =>
    /\ delivery[o] \notin {"DELIVERED", "RETURNED", "CANCELLED"}
    /\ delivery'[o] \in DOMAIN StageBefore => delivery[o] \in StageBefore[delivery'[o]]

\* A step moves one order, and its unit if it has one.
Moves(o) ==
  /\ \A p \in Order \ {o} :
       order'[p] = order[p] /\ delivery'[p] = delivery[p] /\ (p \in stale' <=> p \in stale)
  /\ o \notin stale' => Advances(o)
  /\ \/ stock' = stock + 1
     \/ stock' = stock /\ (HasUnit(o) \/ o \in stale => HasUnit(o)' \/ o \in stale')
     \/ stock' = stock - 1 /\ ~HasUnit(o) /\ o \notin stale /\ HasUnit(o)'

\* Only the request that takes a step can make its order stale, and only by
\* writing it.
LEMMA StaleStep ==
  ASSUME TypeOK, Notes, NEW h \in Handler, Start(h) \/ Continue(h) \/ Crash(h)
  PROVE  /\ stale \subseteq stale'
         /\ \A o \in Order \ {proc[h].on} : o \in stale' <=> o \in stale
         /\ AsRead(h) \/ faults' # faults => stale' = stale
         /\ ~AsRead(h) /\ proc'[h] # proc[h] /\ faults' = faults /\ proc[h].on \in Order =>
              proc[h].on \in stale'
<1>1. \A g \in Handler : g # h => proc'[g] = proc[g]
  BY OthersStay
<1>2. stale' = stale \union {o \in Order : proc[h].on = o /\ ~AsRead(h) /\ proc'[h] # proc[h]
                                           /\ faults' = faults}
  BY <1>1 DEF Notes
<1> HIDE DEF AsRead
<1>3. QED  BY <1>2

\* The requests that write nothing of an order but its payment and refunds.
LEMMA OtherSteps ==
  ASSUME TypeOK, NEW h \in Handler,
         \/ Crash(h) \/ RecordPayment(h) \/ ReadRefunds(h) \/ InsertRefund(h)
         \/ SendRefund(h) \/ CompleteRefund(h) \/ FailRefund(h) \/ CompleteManual(h)
  PROVE  /\ order' = order /\ delivery' = delivery /\ stock' = stock
         /\ AsRead(h) \/ faults' # faults
<1>1. CASE Crash(h)
  <2>1. faults \in Nat /\ faults' = faults + 1
    BY <1>1 DEF Crash, Fault, TypeOK
  <2>2. QED  BY <1>1, <2>1 DEF Crash, orderVars, shopVars
<1>2. CASE \/ RecordPayment(h) \/ ReadRefunds(h) \/ InsertRefund(h)
           \/ SendRefund(h) \/ CompleteRefund(h) \/ FailRefund(h) \/ CompleteManual(h)
  BY <1>2 DEF RecordPayment, ReadRefunds, InsertRefund, SendRefund, CompleteRefund,
              FailRefund, CompleteManual, AsRead, orderVars, shopVars
<1>3. QED  BY <1>1, <1>2

\* What begins has read nothing yet.
LEMMA StartReads ==
  ASSUME NEW h \in Handler, Start(h)
  PROVE  AsRead(h)
<1>1. proc[h].pc = "idle"
  BY DEF Start, Checkout, Settle, SettleFailed, ReadForCancel, ExpireUnpaid,
         ReadOrderStatus, ReadForDelivery, ReadForRefund, ReadManual, Begin, Free
<1>2. QED  BY <1>1 DEF AsRead

\* The requests that write an order or its delivery end, or go on with the
\* refund.
LEMMA WriterMoves ==
  ASSUME TypeOK, NEW h \in Handler,
         CancelOrder(h) \/ UpdateOrderStatus(h) \/ UpdateDelivery(h) \/ MarkRefunded(h)
  PROVE  proc'[h] # proc[h] /\ faults' = faults
<1>1. proc \in [Handler -> Local]
  BY DEF TypeOK
<1>2. \/ proc' = [proc EXCEPT ![h] = Idle]
      \/ proc' = [proc EXCEPT ![h] = [Idle EXCEPT !.pc = "refund", !.on = proc[h].on]]
  BY DEF CancelOrder, UpdateOrderStatus, UpdateDelivery, MarkRefunded, Return
<1>3. proc'[h].pc \in {"idle", "refund"}
  BY <1>1, <1>2, IdleType DEF Local
<1>4. proc[h].pc \in {"cancel", "status", "deliver", "mark"} /\ faults' = faults
  BY DEF CancelOrder, UpdateOrderStatus, UpdateDelivery, MarkRefunded
<1>5. QED  BY <1>3, <1>4

LEMMA GoodsMove ==
  ASSUME TypeOK, Known, Untouched, Waiting, Notes, NEW h \in Handler,
         Start(h) \/ Continue(h) \/ Crash(h)
  PROVE  \/ order' = order /\ delivery' = delivery /\ stock' = stock /\ stale' = stale
         \/ \E o \in Order : Moves(o)
<1> USE DEF orderVars, shopVars
<1>0. order \in [Order -> OrderStatus] /\ delivery \in [Order -> DeliveryStatus]
  BY DEF TypeOK
<1>a. /\ stale \subseteq stale'
      /\ \A o \in Order \ {proc[h].on} : o \in stale' <=> o \in stale
      /\ AsRead(h) \/ faults' # faults => stale' = stale
      /\ ~AsRead(h) /\ proc'[h] # proc[h] /\ faults' = faults /\ proc[h].on \in Order =>
           proc[h].on \in stale'
  BY StaleStep
<1>1. ASSUME NEW o \in Order, Settle(h, o)
      PROVE  (order' = order /\ delivery' = delivery /\ stock' = stock) \/ Moves(o)
  <2>1. stale' = stale
    BY <1>1, <1>a DEF Settle, Free, AsRead
  <2>2. CASE Payable(o)
    <3>1. /\ delivery[o] = "PENDING" /\ order[o] = "AWAITING_PAYMENT" /\ o \notin stale
          /\ order' = [order EXCEPT ![o] = "PAID"] /\ delivery' = delivery
          /\ stock' = stock - 1
      BY <1>1, <2>2 DEF Settle, Payable, Waiting, Waits
    <3>2. QED  BY <1>0, <2>1, <3>1 DEF Moves, Advances, HasUnit
  <2>3. CASE ~Payable(o)
    BY <1>1, <2>3 DEF Settle
  <2>4. QED  BY <2>2, <2>3
<1>2. ASSUME NEW o \in Order, ExpireUnpaid(h, o)  PROVE Moves(o)
  <2>1. /\ delivery[o] = "PENDING" /\ order[o] = "AWAITING_PAYMENT"
        /\ order' = [order EXCEPT ![o] = "CANCELLED"]
        /\ delivery' = [delivery EXCEPT ![o] = "CANCELLED"] /\ stock' = stock
    BY <1>2 DEF ExpireUnpaid, Waiting, Waits
  <2>2. stale' = stale
    BY <1>2, <1>a DEF ExpireUnpaid, Free, AsRead
  <2>3. QED  BY <1>0, <2>1, <2>2 DEF Moves, Advances, HasUnit, StageBefore
<1>3. CASE Start(h)
  <2>1. stale' = stale
    BY <1>3, <1>a, StartReads
  <2>2. QED
    BY <1>1, <1>2, <1>3, <2>1
       DEF Start, Checkout, SettleFailed, ReadForCancel, ReadOrderStatus,
           ReadForDelivery, ReadForRefund, ReadManual
<1>4. CASE PlaceOrder(h)
  <2> DEFINE o == proc[h].on
  <2>1. o \in Order /\ stale' = stale
    BY <1>4, <1>a DEF PlaceOrder, Known, Knows, AsRead
  <2>2. CASE order[o] # "NONE"
    BY <1>4, <2>1, <2>2 DEF PlaceOrder
  <2>3. CASE order[o] = "NONE"
    <3>1. /\ delivery[o] = "NONE" /\ stock' = stock
          /\ order' = [order EXCEPT ![o] = "AWAITING_PAYMENT"]
          /\ delivery' = [delivery EXCEPT ![o] = "PENDING"]
      BY <1>4, <2>1, <2>3 DEF PlaceOrder, Untouched
    <3> HIDE DEF o
    <3>2. Moves(o)
      BY <1>0, <2>1, <2>3, <3>1 DEF Moves, Advances, HasUnit, StageBefore
    <3>3. QED  BY <2>1, <3>2
  <2>4. QED  BY <2>2, <2>3
<1>5. CASE CancelOrder(h) \/ UpdateOrderStatus(h) \/ UpdateDelivery(h) \/ MarkRefunded(h)
  <2>1. PICK o \in Order : o = proc[h].on
    BY <1>5 DEF CancelOrder, UpdateOrderStatus, UpdateDelivery, MarkRefunded, Known, Knows
  <2>2. AsRead(h) \/ o \in stale'
    BY <1>5, <2>1, <1>a, WriterMoves
  <2>3. \A p \in Order \ {o} : p \in stale' <=> p \in stale
    BY <2>1, <1>a
  <2>4. CASE CancelOrder(h)
    <3>1. /\ order' = [order EXCEPT ![o] = "CANCELLED"]
          /\ delivery' = [delivery EXCEPT ![o] = "CANCELLED"]
          /\ stock' = IF proc[h].order = "PAID" THEN stock + 1 ELSE stock
      BY <2>1, <2>4 DEF CancelOrder, ReleaseStock
    <3>2. AsRead(h) => /\ order[o] = proc[h].order /\ order[o] \in {"PAID", "AWAITING_PAYMENT"}
                       /\ delivery[o] \in {"PENDING", "PROCESSING"}
      <4>1. order[o] = "AWAITING_PAYMENT" => delivery[o] = "PENDING"
        BY DEF Waiting, Waits
      <4>2. AsRead(h) => order[o] = proc[h].order /\ OpenToCancel(o)
        BY <2>1, <2>4 DEF CancelOrder, AsRead
      <4>3. QED  BY <4>1, <4>2 DEF OpenToCancel
    <3>3. Moves(o)
      BY <1>0, <1>a, <2>2, <2>3, <3>1, <3>2 DEF Moves, Advances, HasUnit, StageBefore
    <3>4. QED  BY <3>3
  <2>5. CASE UpdateOrderStatus(h)
    <3>1. /\ order' = [order EXCEPT ![o] = IF proc[h].order = "PAID" THEN "PROCESSING"
                                           ELSE "CANCELLED"]
          /\ delivery' = delivery /\ stock' = stock
      BY <2>1, <2>5 DEF UpdateOrderStatus
    <3>2. AsRead(h) => order[o] = proc[h].order /\ order[o] \in {"PAID", "AWAITING_PAYMENT"}
      BY <2>1, <2>5 DEF UpdateOrderStatus, AsRead
    <3>3. Moves(o)
      BY <1>0, <1>a, <2>2, <2>3, <3>1, <3>2 DEF Moves, Advances, HasUnit
    <3>4. QED  BY <3>3
  <2>6. CASE UpdateDelivery(h)
    <3>1. PICK to \in Transitions(proc[h].delivery) :
            /\ delivery' = [delivery EXCEPT ![o] = to]
            /\ order' = CASE to = "PROCESSING" /\ proc[h].order = "PAID" ->
                               [order EXCEPT ![o] = "PROCESSING"]
                          [] to = "DELIVERED" -> [order EXCEPT ![o] = "FULFILLED"]
                          [] OTHER -> order
            /\ ReleaseStock(to \in {"CANCELLED", "RETURNED"})
      BY <2>1, <2>6 DEF UpdateDelivery
    <3>2. \/ order' = [order EXCEPT ![o] = "PROCESSING"]
          \/ order' = [order EXCEPT ![o] = "FULFILLED"]
          \/ order' = order
      BY <3>1
    <3>3. AsRead(h) => delivery[o] = proc[h].delivery
      BY <2>1, <2>6 DEF UpdateDelivery, AsRead
    <3>4. (AsRead(h) => Advances(o)) /\ delivery'[o] = to
      BY <1>0, <3>1, <3>3, TransitionsRows DEF Advances
    <3>5. stock' = IF to \in {"CANCELLED", "RETURNED"} THEN stock + 1 ELSE stock
      BY <3>1 DEF ReleaseStock
    <3>6. HasUnit(o) /\ to \notin {"CANCELLED", "RETURNED"} => HasUnit(o)'
      BY <1>0, <3>2, <3>4 DEF HasUnit
    <3>7. \A p \in Order \ {o} : order'[p] = order[p] /\ delivery'[p] = delivery[p]
      BY <1>0, <3>1, <3>2
    <3>8. Moves(o)
      BY <1>a, <2>2, <2>3, <3>4, <3>5, <3>6, <3>7 DEF Moves
    <3>9. QED  BY <3>8
  <2>7. CASE MarkRefunded(h)
    <3>1. /\ order' = [order EXCEPT ![o] = "REFUNDED"]
          /\ delivery' = IF proc[h].out THEN [delivery EXCEPT ![o] = "CANCELLED"]
                                        ELSE delivery
          /\ stock' = IF proc[h].out THEN stock + 1 ELSE stock
      BY <2>1, <2>7 DEF MarkRefunded, ReleaseStock
    <3>2. AsRead(h) => StillOut(delivery[o]) = proc[h].out
      BY <2>1, <2>7 DEF MarkRefunded, AsRead
    <3>3. Moves(o)
      BY <1>0, <1>a, <2>2, <2>3, <3>1, <3>2 DEF Moves, Advances, HasUnit, StillOut, StageBefore
    <3>4. QED  BY <3>3
  <2>8. QED  BY <1>5, <2>4, <2>5, <2>6, <2>7
<1>6. CASE \/ Crash(h) \/ RecordPayment(h) \/ ReadRefunds(h) \/ InsertRefund(h)
           \/ SendRefund(h) \/ CompleteRefund(h) \/ FailRefund(h) \/ CompleteManual(h)
  BY <1>6, <1>a, OtherSteps
<1>7. QED
  BY <1>3, <1>4, <1>5, <1>6 DEF Continue

LEMMA UnitsMove ==
  ASSUME TypeOK, UnitsKept, NEW o \in Order, Moves(o)
  PROVE  UnitsKept'
<1> DEFINE S == {p \in Order : Kept(p)}
           T == {p \in Order : Kept(p)'}
<1>1. IsFiniteSet(S) /\ stock \in Nat /\ Stock \in Nat /\ stock + Cardinality(S) >= Stock
  BY OrdersAssumption DEF UnitsKept, NoUnitLost, TypeOK, Kept
<1>2. \A p \in Order \ {o} : Kept(p)' <=> Kept(p)
  BY DEF Moves, HasUnit, Kept
<1>3. /\ S \ {o} \subseteq T /\ T \subseteq S \union {o}
      /\ HasUnit(o) \/ o \in stale <=> o \in S
      /\ HasUnit(o)' \/ o \in stale' <=> o \in T
  BY <1>2 DEF Kept
<1>4. /\ IsFiniteSet(S \ {o}) /\ IsFiniteSet(S \union {o}) /\ IsFiniteSet(T)
      /\ Cardinality(S) \in Nat /\ Cardinality(T) \in Nat
  <2> HIDE DEF S, T
  <2>1. IsFiniteSet(S \union {o}) /\ S \ {o} \subseteq S
    BY <1>1, FS_AddElement
  <2>2. QED  BY <1>1, <1>3, <2>1, FS_Subset, FS_CardinalityType
<1>5. T = S \/ (o \in S /\ T = S \ {o}) \/ (o \notin S /\ T = S \union {o})
  BY <1>3
<1>6. \/ stock' = stock + 1
      \/ stock' = stock /\ (o \in S => o \in T)
      \/ stock' = stock - 1 /\ o \notin S /\ o \in T
  <2> HIDE DEF S, T
  <2>1. QED  BY <1>3 DEF Moves
<1>7. (IsFiniteSet(T) /\ stock' + Cardinality(T) >= Stock) => UnitsKept'
  BY DEF UnitsKept, NoUnitLost, Kept
<1> HIDE DEF S, T
<1>8. /\ Cardinality(T) >= Cardinality(S) - 1
      /\ o \in S /\ o \in T => Cardinality(T) = Cardinality(S)
      /\ o \notin S => Cardinality(T) >= Cardinality(S)
      /\ o \notin S /\ o \in T => Cardinality(T) = Cardinality(S) + 1
  BY <1>1, <1>4, <1>5, FS_AddElement, FS_RemoveElement
<1>9. stock' + Cardinality(T) >= Stock
  BY <1>1, <1>4, <1>6, <1>8
<1>10. QED  BY <1>4, <1>7, <1>9

\* What waits was waiting or is new: nobody delivers or pays it in passing.
LEMMA StillWaits ==
  ASSUME TypeOK, Known, Untouched, Waiting, NEW h \in Handler,
         Start(h) \/ Continue(h) \/ Crash(h),
         NEW o \in Order, order'[o] = "AWAITING_PAYMENT"
  PROVE  /\ order[o] \in {"NONE", "AWAITING_PAYMENT"}
         /\ delivery'[o] = "PENDING" /\ ~Paid(o)'
         /\ ~(CancelOrder(h) /\ proc[h].on = o)
         /\ ~(UpdateOrderStatus(h) /\ proc[h].on = o)
         /\ ~(UpdateDelivery(h) /\ proc[h].on = o)
         /\ ~(MarkRefunded(h) /\ proc[h].on = o)
<1> USE DEF orderVars
<1>0. /\ order \in [Order -> OrderStatus] /\ delivery \in [Order -> DeliveryStatus]
      /\ payment \in [Order -> PaymentStatus]
  BY DEF TypeOK
<1>1. order[o] = "AWAITING_PAYMENT" => delivery[o] = "PENDING" /\ ~Paid(o)
  BY DEF Waiting, Waits
<1>2. CASE \/ Crash(h) \/ ReadRefunds(h) \/ InsertRefund(h) \/ SendRefund(h) \/ FailRefund(h)
  <2>1. order' = order /\ delivery' = delivery /\ payment' = payment
    BY <1>2 DEF Crash, ReadRefunds, InsertRefund, SendRefund, FailRefund
  <2>2. /\ ~CancelOrder(h) /\ ~UpdateOrderStatus(h) /\ ~UpdateDelivery(h) /\ ~MarkRefunded(h)
        \/ Crash(h)
    BY <1>2 DEF CancelOrder, UpdateOrderStatus, UpdateDelivery, MarkRefunded,
                ReadRefunds, InsertRefund, SendRefund, FailRefund
  <2>3. Crash(h) => faults' # faults
    BY DEF Crash, Fault, TypeOK
  <2>4. QED
    BY <1>1, <2>1, <2>2, <2>3 DEF Paid, CancelOrder, UpdateOrderStatus, UpdateDelivery,
                                  MarkRefunded
<1>3. CASE Start(h)
  <2>1. proc[h].pc = "idle"
    BY <1>3 DEF Start, Checkout, Settle, SettleFailed, ReadForCancel, ExpireUnpaid,
           ReadOrderStatus, ReadForDelivery, ReadForRefund, ReadManual, Begin, Free
  <2>2. ASSUME NEW p \in Order, Settle(h, p) \/ SettleFailed(h, p) \/ ExpireUnpaid(h, p)
        PROVE  order[o] = "AWAITING_PAYMENT" /\ delivery'[o] = "PENDING" /\ ~Paid(o)'
    BY <1>0, <1>1, <2>2 DEF Settle, SettleFailed, ExpireUnpaid, CancelPending, Paid, Payable
  <2>3. CASE order' = order /\ delivery' = delivery /\ payment' = payment
    BY <1>1, <2>1, <2>3 DEF Paid, CancelOrder, UpdateOrderStatus, UpdateDelivery, MarkRefunded
  <2>4. QED
    BY <1>3, <2>1, <2>2, <2>3 DEF Start, Checkout, ReadForCancel,
           ReadOrderStatus, ReadForDelivery, ReadForRefund, ReadManual,
           CancelOrder, UpdateOrderStatus, UpdateDelivery, MarkRefunded
<1>4. CASE PlaceOrder(h)
  <2>1. payment' = payment /\ (order[o] = "NONE" => payment[o] = "NONE")
    BY <1>4 DEF PlaceOrder, Untouched
  <2>2. /\ ~CancelOrder(h) /\ ~UpdateOrderStatus(h) /\ ~UpdateDelivery(h) /\ ~MarkRefunded(h)
    BY <1>4 DEF PlaceOrder, CancelOrder, UpdateOrderStatus, UpdateDelivery, MarkRefunded
  <2>3. order[o] \in {"NONE", "AWAITING_PAYMENT"} /\ delivery'[o] = "PENDING"
    BY <1>0, <1>1, <1>4 DEF PlaceOrder
  <2>4. QED  BY <1>1, <2>1, <2>2, <2>3 DEF Paid
<1>5. CASE RecordPayment(h) \/ CompleteRefund(h) \/ CompleteManual(h)
  <2>1. order' = order /\ delivery' = delivery
    BY <1>5 DEF RecordPayment, CompleteRefund, CompleteManual
  <2>2. /\ ~CancelOrder(h) /\ ~UpdateOrderStatus(h) /\ ~UpdateDelivery(h) /\ ~MarkRefunded(h)
    BY <1>5 DEF RecordPayment, CompleteRefund, CompleteManual, CancelOrder,
                UpdateOrderStatus, UpdateDelivery, MarkRefunded
  <2>3. CASE RecordPayment(h)
    BY <1>0, <1>1, <2>1, <2>2, <2>3 DEF RecordPayment, Paid
  <2>4. CASE CompleteRefund(h) \/ CompleteManual(h)
    <3>1. Paid(proc[h].on) /\ proc[h].on # o
      BY <1>1, <2>1, <2>4 DEF CompleteRefund, CompleteManual, Known, Knows, AfterPayment
    <3>2. payment'[o] = payment[o]
      BY <1>0, <2>4, <3>1 DEF CompleteRefund, CompleteManual
    <3>3. QED  BY <1>1, <2>1, <2>2, <3>2 DEF Paid
  <2>5. QED  BY <1>5, <2>3, <2>4
<1>6. CASE CancelOrder(h) \/ UpdateOrderStatus(h) \/ MarkRefunded(h)
  <2>1. proc[h].on # o
    BY <1>0, <1>6 DEF CancelOrder, UpdateOrderStatus, MarkRefunded
  <2>2. order'[o] = order[o] /\ delivery'[o] = delivery[o] /\ payment'[o] = payment[o]
    BY <1>0, <1>6, <2>1 DEF CancelOrder, UpdateOrderStatus, MarkRefunded, CancelPending
  <2>3. QED  BY <1>1, <2>1, <2>2 DEF Paid
<1>7. CASE UpdateDelivery(h)
  <2>1. Paid(proc[h].on) /\ payment' = payment
    BY <1>7 DEF UpdateDelivery, Known, Knows, AfterPayment
  <2>2. \/ order' = [order EXCEPT ![proc[h].on] = "PROCESSING"]
        \/ order' = [order EXCEPT ![proc[h].on] = "FULFILLED"]
        \/ order' = order
    BY <1>7 DEF UpdateDelivery
  <2>3. order[o] = "AWAITING_PAYMENT" /\ proc[h].on # o
    BY <1>0, <1>1, <2>1, <2>2
  <2>4. delivery'[o] = delivery[o]
    BY <1>0, <1>7, <2>3 DEF UpdateDelivery
  <2>5. QED  BY <1>1, <2>1, <2>3, <2>4 DEF Paid
<1>8. QED  BY <1>2, <1>3, <1>4, <1>5, <1>6, <1>7 DEF Continue

LEMMA WaitingStep ==
  ASSUME TypeOK, Known, Untouched, Waiting, Notes, NEW h \in Handler,
         Start(h) \/ Continue(h) \/ Crash(h)
  PROVE  Waiting'
<1>1. SUFFICES ASSUME NEW o \in Order, order'[o] \in {"NONE", "AWAITING_PAYMENT"}
               PROVE  /\ o \notin stale'
                      /\ order'[o] = "AWAITING_PAYMENT" => delivery'[o] = "PENDING" /\ ~Paid(o)'
  BY DEF Waiting, Waits
<1>2. order[o] \in {"NONE", "AWAITING_PAYMENT"}
  BY <1>1, StillWaits, OrdersStay
<1>3. o \notin stale
  BY <1>2 DEF Waiting, Waits
<1>4. o \notin stale'
  <2>1. SUFFICES ASSUME o \in stale' PROVE FALSE
    OBVIOUS
  <2>2. proc[h].on = o /\ ~AsRead(h) /\ faults' = faults
    BY <1>3, <2>1, StaleStep
  <2>3. order[o] = "AWAITING_PAYMENT" /\ order'[o] = "AWAITING_PAYMENT"
    <3>1. order[o] # "NONE"
      BY <2>2 DEF AsRead, Known, Knows
    <3>2. QED  BY <1>1, <1>2, <3>1, OrdersStay
  <2>4. CancelOrder(h) \/ UpdateOrderStatus(h) \/ UpdateDelivery(h) \/ MarkRefunded(h)
    <3>1. ~Start(h)
      BY <2>2, StartReads
    <3>2. ~PlaceOrder(h)
      BY <2>2 DEF AsRead, PlaceOrder
    <3>3. QED  BY <2>2, <3>1, <3>2, OtherSteps DEF Continue
  <2>5. QED  BY <2>2, <2>3, <2>4, StillWaits
<1>5. QED  BY <1>1, <1>4, StillWaits

LEMMA StockStarts == NotedInit => StockInv
<1> SUFFICES ASSUME NotedInit PROVE StockInv
  OBVIOUS
<1> USE DEF NotedInit, Init
<1>1. Waiting
  BY DEF Waiting, Waits
<1>2. {o \in Order : Kept(o)} = {}
  BY DEF Kept, HasUnit
<1>3. IsFiniteSet({}) /\ Cardinality({}) = 0
  BY FS_EmptySet
<1>4. stock = Stock /\ Stock \in Nat
  BY OrdersAssumption
<1>5. UnitsKept
  <2>1. {o \in Order : HasUnit(o) \/ o \in stale} = {}
    BY <1>2 DEF Kept
  <2> HIDE DEF NotedInit, Init
  <2>2. IsFiniteSet({o \in Order : Kept(o)})
    BY <1>2, <1>3
  <2>3. NoUnitLost
    BY <1>3, <1>4, <2>1 DEF NoUnitLost
  <2>4. QED  BY <2>2, <2>3 DEF UnitsKept
<1>6. QED  BY <1>1, <1>5 DEF StockInv

LEMMA StockStep ==
  ASSUME IInv, StockInv, [Next /\ Notes]_<<vars, stale>>
  PROVE  StockInv' /\ [\A o \in Order \ stale' : Advances(o)]_<<vars, stale>>
<1>1. CASE UNCHANGED <<vars, stale>>
  <2>1. UNCHANGED <<order, delivery, payment, stock, stale>>
    BY <1>1 DEF vars, orderVars, shopVars
  <2>2. QED
    BY <1>1, <2>1 DEF StockInv, Waiting, Waits, Paid, UnitsKept, NoUnitLost, Kept, HasUnit
<1>2. ASSUME Notes, NEW h \in Handler, Start(h) \/ Continue(h) \/ Crash(h)
      PROVE  StockInv' /\ \A o \in Order \ stale' : Advances(o)
  <2>1. TypeOK /\ Known /\ Untouched /\ Waiting /\ UnitsKept
    BY DEF IInv, StockInv
  <2>2. Waiting'
    BY <1>2, <2>1, WaitingStep
  <2>3. CASE order' = order /\ delivery' = delivery /\ stock' = stock /\ stale' = stale
    <3>1. UnitsKept'
      BY <2>1, <2>3 DEF UnitsKept, NoUnitLost, Kept, HasUnit
    <3>2. QED  BY <2>2, <2>3, <3>1 DEF StockInv, Advances
  <2>4. ASSUME NEW o \in Order, Moves(o)
        PROVE  StockInv' /\ \A p \in Order \ stale' : Advances(p)
    <3>1. UnitsKept'
      BY <2>1, <2>4, UnitsMove
    <3>2. \A p \in Order \ stale' : Advances(p)
      BY <2>4 DEF Moves, Advances
    <3>3. QED  BY <2>2, <3>1, <3>2 DEF StockInv
  <2>5. QED  BY <1>2, <2>1, <2>3, <2>4, GoodsMove
<1>3. QED  BY <1>1, <1>2 DEF Next

\* No unit is lost, however orders are settled, cancelled, returned and
\* refunded by requests that overlap, and wherever a request dies, but one
\* whose order was written by an outdated reading.
THEOREM NoUnitLostHolds == NotedSpec => []NoUnitLost
<1>1. NotedInit => IInv /\ StockInv
  BY InvInit, StockStarts DEF NotedInit
<1>2. IInv /\ StockInv /\ [Next /\ Notes]_<<vars, stale>> => (IInv /\ StockInv)'
  BY InvStep, StockStep
<1>3. IInv /\ StockInv => NoUnitLost
  BY DEF StockInv, UnitsKept
<1>4. QED  BY <1>1, <1>2, <1>3, PTL DEF NotedSpec

\* A delivery advances one stage at a time, and what is delivered, returned or
\* cancelled stays so (delivery.ts), whatever requests overlap, until one
\* writes by an outdated reading.
THEOREM DeliveryStepByStepHolds == NotedSpec => DeliveryStepByStep
<1>1. NotedInit => IInv /\ StockInv
  BY InvInit, StockStarts DEF NotedInit
<1>2. IInv /\ StockInv /\ [Next /\ Notes]_<<vars, stale>> => (IInv /\ StockInv)'
  BY InvStep, StockStep
<1>3. IInv /\ StockInv /\ [Next /\ Notes]_<<vars, stale>> =>
        [\A o \in Order \ stale' :
           delivery'[o] # delivery[o] =>
             /\ delivery[o] \notin {"DELIVERED", "RETURNED", "CANCELLED"}
             /\ delivery'[o] \in DOMAIN StageBefore =>
                  delivery[o] \in StageBefore[delivery'[o]]]_<<vars, stale>>
  BY StockStep DEF Advances
<1>4. QED  BY <1>1, <1>2, <1>3, PTL DEF NotedSpec, DeliveryStepByStep

-----------------------------------------------------------------------------
(***************************************************************************)
(* Reservations: the wish that orders name, and the claims on it.          *)
(***************************************************************************)
\* A request that has found a claim remembers one that there is; no row of
\* gift_reservations goes away.
Claims(h) ==
  LET l == request[h] IN
  /\ l.pc # "idle" => l.claim \in DOMAIN claims
  /\ l.pc = "update" => l.to # "CANCELLED"
  /\ l.pc \in {"release", "held"} => l.order \in GiftOrder

ClaimsInOrder == Len(claims) <= MaxClaims /\ \A h \in Request : Claims(h)

LEMMA Rows ==
  ASSUME ReservationsTypeOK
  PROVE  /\ Len(claims) \in Nat /\ DOMAIN claims = 1 .. Len(claims)
         /\ \A i \in DOMAIN claims : claims[i] \in Claim
         /\ IsFiniteSet(DOMAIN claims)
<1>1. claims \in Seq(Claim)
  BY DEF ReservationsTypeOK
<1> HIDE DEF Claim
<1>2. /\ Len(claims) \in Nat /\ DOMAIN claims = 1 .. Len(claims)
      /\ \A i \in DOMAIN claims : claims[i] \in Claim
  BY <1>1
<1>3. QED  BY <1>2, FS_Interval

\* A table whose rows are claims, as many as before.
LEMMA SameLength ==
  ASSUME ReservationsTypeOK, NEW t, t = [i \in DOMAIN claims |-> t[i]],
         \A i \in DOMAIN claims : t[i] \in Claim
  PROVE  t \in Seq(Claim) /\ Len(t) = Len(claims) /\ DOMAIN t = DOMAIN claims
<1> HIDE DEF Claim
<1>1. Len(claims) \in Nat /\ DOMAIN claims = 1 .. Len(claims)
  BY Rows
<1>2. t \in [1 .. Len(claims) -> Claim]
  BY <1>1
<1>3. QED  BY <1>1, <1>2

\* What a status that is set does to the rows.
LEMMA SetStatus ==
  ASSUME ReservationsTypeOK, NEW i \in DOMAIN claims, NEW status \in ClaimStatus,
         SetClaim(i, status)
  PROVE  /\ claims' \in Seq(Claim) /\ Len(claims') = Len(claims)
         /\ DOMAIN claims' = DOMAIN claims
         /\ \A k \in DOMAIN claims :
              /\ claims'[k].quantity = claims[k].quantity
              /\ claims'[k].order = claims[k].order
              /\ claims'[k].status = IF k = i THEN status ELSE claims[k].status
<1>1. claims' = [claims EXCEPT ![i].status = status]
  BY DEF SetClaim
<1>2. \A k \in DOMAIN claims : claims[k] \in Claim
  BY Rows
<1>3. /\ claims' = [k \in DOMAIN claims |-> claims'[k]]
      /\ \A k \in DOMAIN claims :
           claims'[k] = IF k = i THEN [claims[k] EXCEPT !.status = status]
                              ELSE claims[k]
  BY <1>1
<1>4. ASSUME NEW k \in DOMAIN claims
      PROVE  /\ claims'[k] \in Claim
             /\ claims'[k].quantity = claims[k].quantity
             /\ claims'[k].order = claims[k].order
             /\ claims'[k].status = IF k = i THEN status ELSE claims[k].status
  BY <1>2, <1>3 DEF Claim
<1>5. QED  BY <1>3, <1>4, SameLength

\* A row that is added.
LEMMA AddClaim ==
  ASSUME ReservationsTypeOK, NEW p \in Person, NEW q \in 1 .. MaxQuantity,
         NEW status \in ClaimStatus, NEW o \in GiftOrder \union {NoOrder},
         NewClaim(p, q, status, o)
  PROVE  LET n == Len(claims) + 1 IN
         /\ claims' \in Seq(Claim) /\ Len(claims') = n /\ n <= MaxClaims
         /\ DOMAIN claims' = DOMAIN claims \union {n} /\ n \notin DOMAIN claims
         /\ \A k \in DOMAIN claims : claims'[k] = claims[k]
         /\ claims'[n].quantity = q /\ claims'[n].status = status
<1> DEFINE c == [by |-> p, quantity |-> q, status |-> status, order |-> o]
<1>1. /\ Len(claims) \in Nat /\ DOMAIN claims = 1 .. Len(claims)
      /\ claims \in Seq(Claim)
  BY Rows DEF ReservationsTypeOK
<1>2. c \in Claim
  BY DEF Claim
<1>3. claims' = Append(claims, c) /\ Len(claims) < MaxClaims
  BY DEF NewClaim
<1>4. c.quantity = q /\ c.status = status
  OBVIOUS
<1> HIDE DEF c, Claim
<1>5. /\ claims' \in Seq(Claim) /\ Len(claims') = Len(claims) + 1
      /\ claims'[Len(claims) + 1] = c
      /\ \A k \in 1 .. Len(claims) : claims'[k] = claims[k]
      /\ DOMAIN claims' = 1 .. Len(claims) + 1
  BY <1>1, <1>2, <1>3
<1>6. Len(claims) + 1 <= MaxClaims
  <2>1. MaxClaims \in Nat
    BY ReservationsAssumption
  <2>2. QED  BY <1>1, <1>3, <2>1
<1>7. QED  BY <1>1, <1>4, <1>5, <1>6

-----------------------------------------------------------------------------
(***************************************************************************)
(* Types.                                                                  *)
(***************************************************************************)
\* The work of a request at a claim, and what it may be.
LEMMA Working ==
  ASSUME ReservationsTypeOK, ClaimsInOrder, NEW h \in Request
  PROVE  /\ request[h] \in Work /\ NoWork \in Work
         /\ \A i \in DOMAIN claims : i \in 0 .. MaxClaims
<1>1. \A i \in DOMAIN claims : i \in 0 .. MaxClaims
  BY Rows, ReservationsAssumption DEF ClaimsInOrder
<1>2. NoWork \in Work
  BY ReservationsAssumption DEF NoWork, Work, ClaimStatus
<1>3. QED  BY <1>1, <1>2 DEF ReservationsTypeOK

\* As many claims as before, and one request at other work.
LEMMA ClaimsStay ==
  ASSUME ReservationsTypeOK, ClaimsInOrder, Len(claims') = Len(claims),
         DOMAIN claims' = DOMAIN claims, NEW h \in Request, NEW l,
         request' = [request EXCEPT ![h] = l],
         l.pc # "idle" => l.claim \in DOMAIN claims,
         l.pc = "update" => l.to # "CANCELLED",
         l.pc \in {"release", "held"} => l.order \in GiftOrder
  PROVE  ClaimsInOrder'
<1>1. \A k \in Request : request'[k] = IF k = h THEN l ELSE request[k]
  BY DEF ReservationsTypeOK
<1>2. ASSUME NEW k \in Request  PROVE Claims(k)'
  <2>1. CASE k = h
    BY <1>1, <2>1 DEF Claims
  <2>2. CASE k # h
    BY <1>1, <2>2 DEF Claims, ClaimsInOrder
  <2>3. QED  BY <2>1, <2>2
<1>3. QED  BY <1>2 DEF ClaimsInOrder

\* Nobody goes on with other work.
LEMMA ClaimsGrow ==
  ASSUME ClaimsInOrder, DOMAIN claims \subseteq DOMAIN claims',
         Len(claims') <= MaxClaims, request' = request
  PROVE  ClaimsInOrder'
BY DEF ClaimsInOrder, Claims

LEMMA WishStays ==
  ASSUME ReservationsTypeOK,
         NEW r \in 0 .. wish.quantity, NEW status \in WishStatus
  PROVE  LET w == [wish EXCEPT !.reserved = r, !.status = status] IN
         w \in Wish /\ WithinQuantity(w)
<1>1. /\ wish \in Wish /\ MaxQuantity \in Nat
      /\ wish.quantity \in 1 .. MaxQuantity /\ r \in 0 .. MaxQuantity
  BY ReservationsAssumption DEF ReservationsTypeOK, Wish
<1>2. [wish EXCEPT !.reserved = r, !.status = status] \in Wish
  BY <1>1 DEF Wish
<1>3. QED  BY <1>1, <1>2 DEF WithinQuantity, Wish

LEMMA ReserveTypes ==
  ASSUME ReservationsTypeOK, ClaimsInOrder, NEW h \in Request,
         NEW p \in Person, NEW q \in 1 .. MaxQuantity, ReserveItem(h, p, q)
  PROVE  ReservationsTypeOK' /\ ClaimsInOrder'
<1>1. /\ NewClaim(p, q, "RESERVED", NoOrder) /\ Left(q)
      /\ wish' = [wish EXCEPT !.reserved = wish.reserved + q,
           !.status = IF wish.reserved + q >= wish.quantity THEN "RESERVED"
                                                            ELSE "AVAILABLE"]
      /\ UNCHANGED <<bought, history, request>>
  BY DEF ReserveItem
<1>2. /\ claims' \in Seq(Claim) /\ Len(claims') <= MaxClaims
      /\ DOMAIN claims \subseteq DOMAIN claims'
  <2>1. "RESERVED" \in ClaimStatus
    BY DEF ClaimStatus
  <2>2. QED  BY <1>1, <2>1, AddClaim
<1>3. wish' \in Wish /\ WithinQuantity(wish')
  <2>1. wish.reserved + q \in 0 .. wish.quantity
    BY <1>1 DEF ReservationsTypeOK, Wish, WithinQuantity, Left
  <2> DEFINE status == IF wish.reserved + q >= wish.quantity THEN "RESERVED"
                                                             ELSE "AVAILABLE"
  <2>2. status \in WishStatus
    BY DEF WishStatus
  <2>3. wish' = [wish EXCEPT !.reserved = wish.reserved + q, !.status = status]
    BY <1>1
  <2> HIDE DEF status
  <2>4. QED  BY <2>1, <2>2, <2>3, WishStays
<1>4. QED  BY <1>1, <1>2, <1>3, ClaimsGrow DEF ReservationsTypeOK

LEMMA CancelTypes ==
  ASSUME ReservationsTypeOK, ClaimsInOrder, NEW h \in Request,
         NEW i \in DOMAIN claims, CancelReservation(h, i)
  PROVE  ReservationsTypeOK' /\ ClaimsInOrder'
<1>1. /\ SetClaim(i, "CANCELLED")
      /\ wish' = [wish EXCEPT !.reserved = Monus(wish.reserved, claims[i].quantity),
           !.status = IF Monus(wish.reserved, claims[i].quantity) >= wish.quantity
                        THEN "RESERVED" ELSE "AVAILABLE"]
      /\ UNCHANGED <<bought, history, request>>
  BY DEF CancelReservation
<1>2. claims' \in Seq(Claim) /\ Len(claims') = Len(claims) /\ DOMAIN claims' = DOMAIN claims
  BY <1>1, SetStatus DEF ClaimStatus
<1>3. claims[i].quantity \in 1 .. MaxQuantity
  BY Rows DEF Claim
<1>4. wish' \in Wish /\ WithinQuantity(wish')
  <2> DEFINE r == Monus(wish.reserved, claims[i].quantity)
             status == IF r >= wish.quantity THEN "RESERVED" ELSE "AVAILABLE"
  <2>1. r \in 0 .. wish.quantity
    BY <1>3 DEF ReservationsTypeOK, Wish, WithinQuantity, Monus
  <2>2. status \in WishStatus
    BY DEF WishStatus
  <2>3. wish' = [wish EXCEPT !.reserved = r, !.status = status]
    BY <1>1
  <2> HIDE DEF r, status
  <2>4. QED  BY <2>1, <2>2, <2>3, WishStays
<1>5. QED  BY <1>1, <1>2, <1>4, ClaimsGrow DEF ReservationsTypeOK, ClaimsInOrder

LEMMA UpdateTypes ==
  ASSUME ReservationsTypeOK, ClaimsInOrder, NEW h \in Request,
         \/ \E i \in DOMAIN claims, to \in {"PURCHASED", "DELIVERED"} :
              ReadForUpdate(h, i, to)
         \/ UpdateReservation(h)
  PROVE  ReservationsTypeOK' /\ ClaimsInOrder'
<1>1. ASSUME NEW i \in DOMAIN claims, NEW to \in {"PURCHASED", "DELIVERED"},
             ReadForUpdate(h, i, to)
      PROVE  ReservationsTypeOK' /\ ClaimsInOrder'
  <2> DEFINE l == [NoWork EXCEPT !.pc = "update", !.claim = i, !.to = to]
  <2>1. /\ request' = [request EXCEPT ![h] = l]
        /\ UNCHANGED <<wish, claims, bought, history>>
    BY <1>1 DEF ReadForUpdate
  <2>2. l \in Work /\ l.pc = "update" /\ l.claim = i /\ l.to = to
    BY Working DEF NoWork, Work, ClaimStatus
  <2> HIDE DEF l
  <2>3. ClaimsInOrder'
    BY <2>1, <2>2, ClaimsStay
  <2>4. QED  BY <2>1, <2>2, <2>3 DEF ReservationsTypeOK
<1>2. CASE UpdateReservation(h)
  <2> DEFINE i  == request[h].claim
             to == request[h].to
  <2>1. /\ request[h].pc = "update" /\ SetClaim(i, to)
        /\ wish' = [wish EXCEPT !.status = to]
        /\ history' = IF to = "DELIVERED" THEN history \union {i} ELSE history
        /\ request' = [request EXCEPT ![h] = NoWork] /\ bought' = bought
    BY <1>2 DEF UpdateReservation
  <2>2. i \in DOMAIN claims /\ to \in ClaimStatus /\ to # "CANCELLED"
    BY <2>1, Working DEF ClaimsInOrder, Claims, Work
  <2> HIDE DEF i, to
  <2>3. claims' \in Seq(Claim) /\ Len(claims') = Len(claims) /\ DOMAIN claims' = DOMAIN claims
    BY <2>1, <2>2, SetStatus
  <2>4. ClaimsInOrder'
    BY <2>1, <2>3, ClaimsStay DEF NoWork
  <2>5. wish' \in Wish /\ WithinQuantity(wish')
    <3>1. to \in WishStatus
      BY <2>2 DEF ClaimStatus, WishStatus
    <3>2. wish \in Wish /\ WithinQuantity(wish)
      BY DEF ReservationsTypeOK
    <3>3. QED  BY <2>1, <3>1, <3>2 DEF Wish, WithinQuantity
  <2>6. QED  BY <2>1, <2>2, <2>3, <2>4, <2>5, Working DEF ReservationsTypeOK
<1>3. QED  BY <1>1, <1>2

LEMMA PaidTypes ==
  ASSUME ReservationsTypeOK, ClaimsInOrder, NEW h \in Request,
         NEW o \in GiftOrder, OrderPaid(h, o)
  PROVE  ReservationsTypeOK' /\ ClaimsInOrder'
<1> DEFINE mine == {i \in DOMAIN claims : /\ claims[i].by = Buyer[o]
                                          /\ claims[i].status = "RESERVED"}
           q == Least(Wanted[o], wish.quantity - wish.reserved)
<1>1. /\ bought' = [bought EXCEPT ![o] = "PAID"]
      /\ UNCHANGED <<history, request>>
  BY DEF OrderPaid
<1>2. \/ \E i \in mine :
           /\ claims' = [claims EXCEPT ![i].status = "PURCHASED", ![i].order = o]
           /\ wish' = [wish EXCEPT !.status = "PURCHASED"]
      \/ /\ wish.reserved < wish.quantity
         /\ NewClaim(Buyer[o], q, "PURCHASED", o)
         /\ wish' = [wish EXCEPT !.reserved = wish.reserved + q,
              !.status = IF wish.reserved + q >= wish.quantity THEN "PURCHASED"
                                                               ELSE "AVAILABLE"]
      \/ UNCHANGED <<claims, wish>>
  BY DEF OrderPaid
<1>3. /\ wish \in Wish /\ WithinQuantity(wish) /\ claims \in Seq(Claim)
      /\ Len(claims) <= MaxClaims
  BY DEF ReservationsTypeOK, ClaimsInOrder
<1>4. bought' \in [GiftOrder -> {"UNPAID", "PAID", "DELIVERED", "RELEASED"}]
  BY <1>1 DEF ReservationsTypeOK
<1>5. ASSUME claims' \in Seq(Claim), DOMAIN claims \subseteq DOMAIN claims',
             Len(claims') <= MaxClaims, wish' \in Wish, WithinQuantity(wish')
      PROVE  ReservationsTypeOK' /\ ClaimsInOrder'
  BY <1>1, <1>4, <1>5, ClaimsGrow DEF ReservationsTypeOK
<1>6. ASSUME NEW i \in mine,
             claims' = [claims EXCEPT ![i].status = "PURCHASED", ![i].order = o],
             wish' = [wish EXCEPT !.status = "PURCHASED"]
      PROVE  ReservationsTypeOK' /\ ClaimsInOrder'
  <2>1. \A k \in DOMAIN claims : claims'[k] \in Claim
    <3>1. \A k \in DOMAIN claims : claims[k] \in Claim
      BY Rows
    <3>2. QED  BY <1>6, <3>1 DEF Claim, ClaimStatus
  <2>2. claims' = [k \in DOMAIN claims |-> claims'[k]]
    BY <1>6
  <2>3. claims' \in Seq(Claim) /\ Len(claims') = Len(claims) /\ DOMAIN claims' = DOMAIN claims
    BY <2>1, <2>2, SameLength
  <2>4. wish' \in Wish /\ WithinQuantity(wish')
    BY <1>3, <1>6 DEF Wish, WithinQuantity, WishStatus
  <2>5. QED  BY <1>3, <1>5, <2>3, <2>4
<1>7. ASSUME wish.reserved < wish.quantity,
             NewClaim(Buyer[o], q, "PURCHASED", o),
             wish' = [wish EXCEPT !.reserved = wish.reserved + q,
               !.status = IF wish.reserved + q >= wish.quantity THEN "PURCHASED"
                                                                ELSE "AVAILABLE"]
      PROVE  ReservationsTypeOK' /\ ClaimsInOrder'
  <2> DEFINE status == IF wish.reserved + q >= wish.quantity THEN "PURCHASED"
                                                             ELSE "AVAILABLE"
  <2>1. q \in 1 .. MaxQuantity /\ wish.reserved + q \in 0 .. wish.quantity
    BY <1>3, <1>7, ReservationsAssumption DEF Wish, WithinQuantity, Least
  <2>2. Buyer[o] \in Person /\ "PURCHASED" \in ClaimStatus
    BY ReservationsAssumption DEF ClaimStatus
  <2> HIDE DEF q
  <2>3. /\ claims' \in Seq(Claim) /\ DOMAIN claims \subseteq DOMAIN claims'
        /\ Len(claims') <= MaxClaims
    BY <1>7, <2>1, <2>2, AddClaim
  <2>4. status \in WishStatus /\ wish' = [wish EXCEPT !.reserved = wish.reserved + q, !.status = status]
    BY <1>7 DEF WishStatus
  <2> HIDE DEF status
  <2>5. wish' \in Wish /\ WithinQuantity(wish')
    BY <2>1, <2>4, WishStays
  <2>6. QED  BY <1>5, <2>3, <2>5
<1>8. CASE UNCHANGED <<claims, wish>>
  BY <1>3, <1>5, <1>8
<1> HIDE DEF mine, q
<1>9. QED  BY <1>2, <1>6, <1>7, <1>8

\* Delivery changes statuses only.
LEMMA DeliveredRows ==
  ASSUME ReservationsTypeOK, NEW h \in Request, NEW o \in GiftOrder, OrderDelivered(h, o)
  PROVE  /\ claims' \in Seq(Claim) /\ Len(claims') = Len(claims)
         /\ DOMAIN claims' = DOMAIN claims
         /\ \A i \in DOMAIN claims :
              /\ claims'[i].quantity = claims[i].quantity
              /\ Live(i)' <=> Live(i)
<1>1. claims' = [i \in DOMAIN claims |->
        IF i \in OfOrder(o) THEN [claims[i] EXCEPT !.status = "DELIVERED"]
                              ELSE claims[i]]
  BY DEF OrderDelivered
<1>2. claims' = [i \in DOMAIN claims |-> claims'[i]]
  BY <1>1
<1>3. ASSUME NEW i \in DOMAIN claims
      PROVE  /\ claims'[i] \in Claim
             /\ claims'[i].quantity = claims[i].quantity
             /\ Live(i)' <=> Live(i)
  <2>1. claims[i] \in Claim
    BY Rows
  <2>2. CASE i \in OfOrder(o)
    <3>1. claims[i].status \in {"RESERVED", "PURCHASED"}
      BY <2>2 DEF OfOrder
    <3>2. QED  BY <1>1, <2>1, <2>2, <3>1 DEF Claim, ClaimStatus, Live
  <2>3. CASE i \notin OfOrder(o)
    BY <1>1, <2>1, <2>3 DEF Live
  <2>4. QED  BY <2>2, <2>3
<1>4. QED  BY <1>2, <1>3, SameLength

LEMMA DeliveredTypes ==
  ASSUME ReservationsTypeOK, ClaimsInOrder, NEW h \in Request, NEW o \in GiftOrder,
         OrderDelivered(h, o)
  PROVE  ReservationsTypeOK' /\ ClaimsInOrder'
<1>1. /\ bought' = [bought EXCEPT ![o] = "DELIVERED"]
      /\ wish' = [wish EXCEPT !.status = "DELIVERED"]
      /\ UNCHANGED <<history, request>>
  BY DEF OrderDelivered
<1>2. wish \in Wish /\ WithinQuantity(wish) /\ Len(claims) <= MaxClaims
  BY DEF ReservationsTypeOK, ClaimsInOrder
<1>3. wish' \in Wish /\ WithinQuantity(wish')
  BY <1>1, <1>2 DEF Wish, WithinQuantity, WishStatus
<1>4. claims' \in Seq(Claim) /\ Len(claims') = Len(claims) /\ DOMAIN claims' = DOMAIN claims
  BY DeliveredRows
<1>5. ClaimsInOrder'
  BY <1>1, <1>2, <1>4, ClaimsGrow
<1>6. QED  BY <1>1, <1>3, <1>4, <1>5 DEF ReservationsTypeOK

LEMMA ReleaseTypes ==
  ASSUME ReservationsTypeOK, ClaimsInOrder, NEW h \in Request,
         \/ \E o \in GiftOrder : ReadForRelease(h, o)
         \/ HoldClaim(h)
         \/ Release(h)
  PROVE  ReservationsTypeOK' /\ ClaimsInOrder'
<1>0. request[h] \in Work /\ Claims(h) /\ NoWork \in Work
  BY Working DEF ClaimsInOrder
<1>1. ASSUME NEW o \in GiftOrder, ReadForRelease(h, o)
      PROVE  ReservationsTypeOK' /\ ClaimsInOrder'
  <2>1. CASE OfOrder(o) = {}
    <3>1. /\ bought' = [bought EXCEPT ![o] = "RELEASED"]
          /\ UNCHANGED <<request, wish, claims, history>>
      BY <1>1, <2>1 DEF ReadForRelease
    <3>2. Len(claims') <= MaxClaims
      BY <3>1 DEF ClaimsInOrder
    <3>3. ClaimsInOrder'
      BY <3>1, <3>2, ClaimsGrow
    <3>4. QED  BY <3>1, <3>3 DEF ReservationsTypeOK
  <2>2. ASSUME NEW i \in OfOrder(o),
               request' = [request EXCEPT ![h] =
                 [NoWork EXCEPT !.pc = "release", !.claim = i, !.order = o]],
               bought' = bought
        PROVE  ReservationsTypeOK' /\ ClaimsInOrder'
    <3> DEFINE l == [NoWork EXCEPT !.pc = "release", !.claim = i, !.order = o]
    <3>1. i \in DOMAIN claims
      BY DEF OfOrder
    <3>2. l \in Work /\ l.pc = "release" /\ l.claim = i /\ l.order = o
      BY <3>1, Working DEF NoWork, Work
    <3>3. request' = [request EXCEPT ![h] = l] /\ UNCHANGED <<wish, claims, bought, history>>
      BY <1>1, <2>2 DEF ReadForRelease
    <3> HIDE DEF l
    <3>4. ClaimsInOrder'
      BY <3>1, <3>2, <3>3, ClaimsStay
    <3>5. QED  BY <3>2, <3>3, <3>4 DEF ReservationsTypeOK
  <2>3. QED  BY <1>1, <2>1, <2>2 DEF ReadForRelease
<1>2. CASE HoldClaim(h)
  <2> DEFINE l == [request[h] EXCEPT !.pc = "held", !.seen = wish.reserved]
  <2>1. /\ request[h].pc = "release" /\ UNCHANGED <<wish, claims, bought, history>>
        /\ request' = [request EXCEPT ![h] = l]
    BY <1>2 DEF HoldClaim, ReservationsTypeOK
  <2>2. wish.reserved \in 0 .. MaxQuantity
    BY DEF ReservationsTypeOK, Wish
  <2>3. l \in Work /\ l.pc = "held" /\ l.claim = request[h].claim /\ l.order = request[h].order
    BY <1>0, <2>2 DEF Work
  <2>4. l.claim \in DOMAIN claims /\ l.order \in GiftOrder
    BY <1>0, <2>1, <2>3 DEF Claims
  <2> HIDE DEF l
  <2>5. ClaimsInOrder'
    BY <2>1, <2>3, <2>4, ClaimsStay
  <2>6. QED  BY <2>1, <2>3, <2>5 DEF ReservationsTypeOK
<1>3. CASE Release(h)
  <2> DEFINE i == request[h].claim
             r == Freed(request[h].seen, claims[i].quantity)
             w == [wish EXCEPT !.reserved = r, !.status = "AVAILABLE"]
  <2>1. /\ request[h].pc = "held" /\ request' = [request EXCEPT ![h] = NoWork]
        /\ history' = history
    BY <1>3 DEF Release
  <2>2. i \in DOMAIN claims /\ request[h].order \in GiftOrder
    BY <1>0, <2>1 DEF Claims
  <2>3. CASE WithinQuantity(w)
    <3>1. /\ SetClaim(i, "CANCELLED") /\ wish' = w
          /\ bought' = [bought EXCEPT ![request[h].order] = "RELEASED"]
      BY <1>3, <2>3 DEF Release
    <3>2. claims' \in Seq(Claim) /\ Len(claims') = Len(claims) /\ DOMAIN claims' = DOMAIN claims
      BY <2>2, <3>1, SetStatus DEF ClaimStatus
    <3>3. r \in 0 .. wish.quantity
      <4>1. wish \in Wish
        BY DEF ReservationsTypeOK
      <4>2. w.reserved = r /\ w.quantity = wish.quantity
        BY <4>1 DEF Wish
      <4>3. QED  BY <2>3, <4>2 DEF WithinQuantity
    <3>4. wish' \in Wish /\ WithinQuantity(wish')
      <4> HIDE DEF r
      <4>1. QED  BY <3>1, <3>3, WishStays DEF WishStatus
    <3> HIDE DEF i, w
    <3>5. ClaimsInOrder'
      BY <2>1, <3>2, ClaimsStay DEF NoWork
    <3>6. QED  BY <1>0, <2>1, <2>2, <3>1, <3>2, <3>4, <3>5 DEF ReservationsTypeOK
  <2>4. CASE ~WithinQuantity(w)
    <3>1. UNCHANGED <<claims, wish, bought>>
      BY <1>3, <2>4 DEF Release
    <3>2. ClaimsInOrder'
      BY <2>1, <3>1, ClaimsStay DEF NoWork
    <3>3. QED  BY <1>0, <2>1, <3>1, <3>2 DEF ReservationsTypeOK
  <2>5. QED  BY <2>3, <2>4
<1>4. QED  BY <1>1, <1>2, <1>3

LEMMA OwnerTypes ==
  ASSUME ReservationsTypeOK, ClaimsInOrder, NEW h \in Request,
         \/ \E n \in 1 .. MaxQuantity : ChangeQuantity(h, n)
         \/ DeleteItem(h)
  PROVE  ReservationsTypeOK' /\ ClaimsInOrder'
<1>1. wish \in Wish /\ WithinQuantity(wish) /\ Len(claims) <= MaxClaims
  BY DEF ReservationsTypeOK, ClaimsInOrder
<1>2. UNCHANGED <<claims, bought, history, request>>
  BY DEF ChangeQuantity, DeleteItem
<1>3. wish' \in Wish /\ WithinQuantity(wish')
  <2>1. ASSUME NEW n \in 1 .. MaxQuantity, ChangeQuantity(h, n)
        PROVE  wish' \in Wish /\ WithinQuantity(wish')
    <3>1. wish' = [wish EXCEPT !.quantity = n] /\ n >= wish.reserved /\ n \in Nat
      BY <2>1, ReservationsAssumption DEF ChangeQuantity
    <3>2. QED  BY <1>1, <3>1 DEF Wish, WithinQuantity
  <2>2. CASE DeleteItem(h)
    <3>1. wish' = [wish EXCEPT !.deleted = TRUE, !.status = "ARCHIVED"]
      BY <2>2 DEF DeleteItem
    <3>2. QED  BY <1>1, <3>1 DEF Wish, WithinQuantity, WishStatus
  <2>3. QED  BY <2>1, <2>2
<1>4. ClaimsInOrder'
  BY <1>1, <1>2, ClaimsGrow
<1>5. QED  BY <1>2, <1>3, <1>4 DEF ReservationsTypeOK

LEMMA TypesNext ==
  ASSUME ReservationsTypeOK, ClaimsInOrder, [ReservationsNext]_reservationsVars
  PROVE  ReservationsTypeOK' /\ ClaimsInOrder'
<1>1. CASE UNCHANGED reservationsVars
  <2>1. Len(claims') <= MaxClaims
    BY <1>1 DEF reservationsVars, ClaimsInOrder
  <2>2. ClaimsInOrder'
    BY <1>1, <2>1, ClaimsGrow DEF reservationsVars
  <2>3. QED  BY <1>1, <2>2 DEF reservationsVars, ReservationsTypeOK
<1>2. CASE ReservationsNext
  BY <1>2, ReserveTypes, CancelTypes, UpdateTypes, PaidTypes, DeliveredTypes,
     ReleaseTypes, OwnerTypes DEF ReservationsNext
<1>3. QED  BY <1>1, <1>2

LEMMA InitTypes ==
  ASSUME ReservationsInit
  PROVE  ReservationsTypeOK /\ ClaimsInOrder
<1>1. claims = <<>> /\ history = {} /\ request = [h \in Request |-> NoWork]
  BY DEF ReservationsInit
<1>2. NoWork \in Work
  BY ReservationsAssumption DEF NoWork, Work, ClaimStatus
<1>3. wish \in Wish /\ WithinQuantity(wish)
  <2>1. PICK q \in 1 .. MaxQuantity :
          wish = [quantity |-> q, reserved |-> 0, status |-> "AVAILABLE", deleted |-> FALSE]
    BY DEF ReservationsInit
  <2>2. MaxQuantity \in Nat
    BY ReservationsAssumption
  <2>3. QED  BY <2>1, <2>2 DEF Wish, WishStatus, WithinQuantity
<1>4. claims \in Seq(Claim) /\ Len(claims) = 0
  <2> HIDE DEF Claim
  <2>1. QED  BY <1>1
<1>5. ReservationsTypeOK
  BY <1>1, <1>2, <1>3, <1>4 DEF ReservationsTypeOK, ReservationsInit
<1>6. ClaimsInOrder
  BY <1>1, <1>4, ReservationsAssumption DEF ClaimsInOrder, Claims, NoWork
<1>7. QED  BY <1>5, <1>6

\* The rows of a wish and of its claims, and what every request works on,
\* have their types, however requests overlap.
THEOREM ReservationTypes == ReservationsSpec => []ReservationsTypeOK
<1>1. ReservationsInit => ReservationsTypeOK /\ ClaimsInOrder
  BY InitTypes
<1>2. ReservationsTypeOK /\ ClaimsInOrder /\ [ReservationsNext]_reservationsVars
        => (ReservationsTypeOK /\ ClaimsInOrder)'
  BY TypesNext
<1>3. QED  BY <1>1, <1>2, PTL DEF ReservationsSpec

-----------------------------------------------------------------------------
(***************************************************************************)
(* The count, until a write by an outdated reading.                        *)
(***************************************************************************)
Counting == {i \in DOMAIN claims : Live(i)}

Exact  == wish.reserved = Claimed
Enough == Claimed <= wish.reserved

Counted ==
  /\ blind = {} => Exact
  /\ blind \subseteq {"kept"} => Enough

\* The instance brings its own copy of the library's fold.
LEMMA SameSum ==
  ASSUME NEW f, NEW S
  PROVE  SumFunctionOnSet(f, S) = SumFunctionOnSet(f, S)
<1>1. SumFunctionOnSet(f, S) = FoldOf(f, S)[S]
  BY DEF SumFunctionOnSet, FoldFunctionOnSet, MapThenFoldSet, FoldOf, IsFold, Pick
<1>2. QED  BY <1>1, SumIsFold

LEMMA ClaimedIs == Claimed = SumFunctionOnSet(Quantities, Counting)
BY SameSum DEF Claimed, Counting

LEMMA Weighed ==
  ASSUME ReservationsTypeOK
  PROVE  /\ IsFiniteSet(Counting) /\ Counting \subseteq DOMAIN claims
         /\ \A i \in DOMAIN claims : /\ Quantities[i] = claims[i].quantity
                                     /\ Quantities[i] \in 1 .. MaxQuantity
                                     /\ Quantities[i] \in Nat
         /\ Claimed \in Nat
<1>1. Counting \subseteq DOMAIN claims
  BY DEF Counting
<1>2. IsFiniteSet(Counting)
  BY <1>1, Rows, FS_Subset
<1>3. \A i \in DOMAIN claims : /\ Quantities[i] = claims[i].quantity
                               /\ Quantities[i] \in 1 .. MaxQuantity
                               /\ Quantities[i] \in Nat
  BY Rows, ReservationsAssumption DEF Quantities, Claim
<1>4. Claimed \in Nat
  BY <1>1, <1>2, <1>3, SumNat, ClaimedIs
<1>5. QED  BY <1>1, <1>2, <1>3, <1>4

\* The same claims count, and for as much.
LEMMA CountKept ==
  ASSUME ReservationsTypeOK, DOMAIN claims' = DOMAIN claims,
         \A i \in DOMAIN claims : /\ claims'[i].quantity = claims[i].quantity
                                  /\ Live(i)' <=> Live(i)
  PROVE  Claimed' = Claimed
<1> DEFINE f == Quantities
           g == Quantities'
           S == Counting
           T == Counting'
<1>1. T = S
  BY DEF Counting
<1>2. \A i \in S : f[i] = g[i]
  BY Weighed DEF Quantities
<1>3. IsFiniteSet(S)
  BY Weighed
<1>4. Claimed = SumFunctionOnSet(f, S) /\ Claimed' = SumFunctionOnSet(g, T)
  <2>1. Claimed = SumFunctionOnSet(Quantities, Counting)
    BY ClaimedIs
  <2>2. Claimed' = SumFunctionOnSet(Quantities', Counting')
    BY SameSum DEF Claimed, Counting
  <2>3. QED  BY <2>1, <2>2
<1> HIDE DEF f, g, S, T
<1>5. QED  BY <1>1, <1>2, <1>3, <1>4, SumSame

\* A claim that is cancelled counts no longer.
LEMMA CountCancelled ==
  ASSUME ReservationsTypeOK, NEW i \in DOMAIN claims, Live(i),
         SetClaim(i, "CANCELLED")
  PROVE  Claimed = claims[i].quantity + Claimed' /\ Claimed' \in Nat
<1> DEFINE f == Quantities
           g == Quantities'
           S == Counting
           T == Counting'
<1>1. /\ DOMAIN claims' = DOMAIN claims
      /\ \A k \in DOMAIN claims :
           /\ claims'[k].quantity = claims[k].quantity
           /\ claims'[k].status = IF k = i THEN "CANCELLED" ELSE claims[k].status
  BY SetStatus DEF ClaimStatus
<1>2. T = S \ {i} /\ i \in S
  BY <1>1 DEF Counting, Live
<1>3. \A k \in S : f[k] = g[k] /\ f[k] \in Nat
  BY <1>1, Weighed DEF Quantities
<1>4. IsFiniteSet(S) /\ f[i] = claims[i].quantity
  BY Weighed
<1>5. Claimed = SumFunctionOnSet(f, S) /\ Claimed' = SumFunctionOnSet(g, T)
  <2>1. Claimed = SumFunctionOnSet(Quantities, Counting)
    BY ClaimedIs
  <2>2. Claimed' = SumFunctionOnSet(Quantities', Counting')
    BY SameSum DEF Claimed, Counting
  <2>3. QED  BY <2>1, <2>2
<1> HIDE DEF f, g, S, T
<1>6. IsFiniteSet(T)
  BY <1>2, <1>4, FS_RemoveElement
<1>7. SumFunctionOnSet(g, T) = SumFunctionOnSet(f, T)
  BY <1>2, <1>3, <1>6, SumSame
<1>8. SumFunctionOnSet(f, S) = f[i] + SumFunctionOnSet(f, T)
  BY <1>2, <1>3, <1>4, SumRemove
<1>9. SumFunctionOnSet(f, T) \in Nat
  BY <1>2, <1>3, <1>6, SumNat
<1>10. QED  BY <1>4, <1>5, <1>7, <1>8, <1>9

\* A claim that is added counts.
LEMMA CountAdded ==
  ASSUME ReservationsTypeOK, NEW p \in Person,
         NEW q \in 1 .. MaxQuantity, NEW status \in ClaimStatus \ {"CANCELLED"},
         NEW o \in GiftOrder \union {NoOrder}, NewClaim(p, q, status, o)
  PROVE  Claimed' = Claimed + q
<1> DEFINE f == Quantities
           g == Quantities'
           S == Counting
           T == Counting'
           n == Len(claims) + 1
<1>1. /\ DOMAIN claims' = DOMAIN claims \union {n} /\ n \notin DOMAIN claims
      /\ \A k \in DOMAIN claims : claims'[k] = claims[k]
      /\ claims'[n].quantity = q /\ claims'[n].status = status
  BY AddClaim
<1>2. T = S \union {n} /\ n \notin S
  BY <1>1 DEF Counting, Live
<1>3. \A k \in S : f[k] = g[k] /\ g[k] \in Nat
  BY <1>1, Weighed DEF Quantities
<1>4. IsFiniteSet(S) /\ g[n] = q /\ q \in Nat
  BY <1>1, Weighed, ReservationsAssumption DEF Quantities
<1>5. Claimed = SumFunctionOnSet(f, S) /\ Claimed' = SumFunctionOnSet(g, T)
  <2>1. Claimed = SumFunctionOnSet(Quantities, Counting)
    BY ClaimedIs
  <2>2. Claimed' = SumFunctionOnSet(Quantities', Counting')
    BY SameSum DEF Claimed, Counting
  <2>3. QED  BY <2>1, <2>2
<1>6. Claimed \in Nat
  BY Weighed
<1> HIDE DEF f, g, S, T, n
<1>7. SumFunctionOnSet(g, S) = SumFunctionOnSet(f, S)
  BY <1>3, <1>4, SumSame
<1>8. \A k \in S \union {n} : g[k] \in Int
  BY <1>3, <1>4
<1>9. SumFunctionOnSet(g, S \union {n}) = g[n] + SumFunctionOnSet(g, S)
  BY <1>2, <1>4, <1>8, SumAdd
<1>10. QED  BY <1>2, <1>4, <1>5, <1>6, <1>7, <1>9

\* What a step without a blunder does to the count.
KeepsCount ==
  /\ Blunders = {} => (Exact => Exact')
  /\ Blunders \subseteq {"kept"} => (Enough => Enough')

LEMMA SameCount ==
  ASSUME ReservationsTypeOK, wish'.reserved = wish.reserved, Claimed' = Claimed
  PROVE  KeepsCount
BY DEF KeepsCount, Exact, Enough

LEMMA MoreClaimed ==
  ASSUME ReservationsTypeOK, NEW q \in Nat,
         wish'.reserved = wish.reserved + q, Claimed' = Claimed + q
  PROVE  KeepsCount
<1>1. Claimed \in Nat /\ wish.reserved \in Nat
  BY Weighed, ReservationsAssumption DEF ReservationsTypeOK, Wish
<1>2. QED  BY <1>1 DEF KeepsCount, Exact, Enough

\* A claim is taken off a count that is no smaller than the one it finds.
LEMMA LessClaimed ==
  ASSUME ReservationsTypeOK, NEW q \in Nat, NEW n \in Nat, n >= wish.reserved,
         wish'.reserved = Monus(n, q), Claimed = q + Claimed', Claimed' \in Nat
  PROVE  /\ Enough => Enough'
         /\ n = wish.reserved => (Exact => Exact')
<1>1. wish.reserved \in Nat
  BY ReservationsAssumption DEF ReservationsTypeOK, Wish
<1>2. QED  BY <1>1 DEF Exact, Enough, Monus

LEMMA ReserveCount ==
  ASSUME ReservationsTypeOK, NEW h \in Request, NEW p \in Person,
         NEW q \in 1 .. MaxQuantity, ReserveItem(h, p, q)
  PROVE  KeepsCount
<1>1. /\ NewClaim(p, q, "RESERVED", NoOrder)
      /\ wish' = [wish EXCEPT !.reserved = wish.reserved + q,
           !.status = IF wish.reserved + q >= wish.quantity THEN "RESERVED"
                                                            ELSE "AVAILABLE"]
  BY DEF ReserveItem
<1>2. Claimed' = Claimed + q
  BY <1>1, CountAdded DEF ClaimStatus
<1>3. wish'.reserved = wish.reserved + q
  BY <1>1 DEF ReservationsTypeOK, Wish
<1>4. q \in Nat
  BY ReservationsAssumption
<1>5. QED  BY <1>2, <1>3, <1>4, MoreClaimed

LEMMA CancelCount ==
  ASSUME ReservationsTypeOK, NEW h \in Request, NEW i \in DOMAIN claims,
         CancelReservation(h, i)
  PROVE  KeepsCount
<1>1. /\ Live(i) /\ SetClaim(i, "CANCELLED")
      /\ wish' = [wish EXCEPT !.reserved = Monus(wish.reserved, claims[i].quantity),
           !.status = IF Monus(wish.reserved, claims[i].quantity) >= wish.quantity
                        THEN "RESERVED" ELSE "AVAILABLE"]
  BY DEF CancelReservation, Cancellable, Live
<1>2. Claimed = claims[i].quantity + Claimed' /\ Claimed' \in Nat
  BY <1>1, CountCancelled
<1>3. wish'.reserved = Monus(wish.reserved, claims[i].quantity)
  BY <1>1 DEF ReservationsTypeOK, Wish
<1>4. claims[i].quantity \in Nat
  BY Weighed
<1>5. wish.reserved \in Nat /\ wish.reserved >= wish.reserved
  BY ReservationsAssumption DEF ReservationsTypeOK, Wish
<1>6. QED  BY <1>2, <1>3, <1>4, <1>5, LessClaimed DEF KeepsCount

LEMMA Blundered ==
  ASSUME NEW h \in Request, NEW b \in Blunder, Makes(h, b),
         request'[h] # request[h], wish' # wish \/ claims' # claims
  PROVE  b \in Blunders
BY DEF Blunders

\* A claim that was live when it was read and is live when it is written.
LEMMA UpdateCount ==
  ASSUME ReservationsTypeOK, ClaimsInOrder, NEW h \in Request, UpdateReservation(h)
  PROVE  KeepsCount
<1> DEFINE i  == request[h].claim
           to == request[h].to
<1>1. /\ request[h].pc = "update" /\ SetClaim(i, to)
      /\ wish' = [wish EXCEPT !.status = to]
      /\ request' = [request EXCEPT ![h] = NoWork]
  BY DEF UpdateReservation
<1>2. i \in DOMAIN claims /\ to \in ClaimStatus /\ to # "CANCELLED"
  BY <1>1, Working DEF ClaimsInOrder, Claims, Work
<1>3. request'[h] # request[h]
  BY <1>1 DEF ReservationsTypeOK, NoWork
<1> HIDE DEF i, to
<1>4. claims'[i].status = to
  BY <1>1, <1>2, SetStatus
<1>5. wish'.reserved = wish.reserved
  BY <1>1 DEF ReservationsTypeOK, Wish
<1>6. CASE Live(i)
  <2>1. Claimed' = Claimed
    BY <1>1, <1>2, <1>6, SetStatus, CountKept DEF Live
  <2>2. QED  BY <1>5, <2>1, SameCount
<1>7. CASE ~Live(i)
  <2>1. claims' # claims
    BY <1>2, <1>4, <1>7 DEF Live
  <2>2. Makes(h, "revived")
    BY <1>1, <1>7 DEF Makes, i
  <2>3. "revived" \in Blunders
    BY <1>3, <2>1, <2>2, Blundered DEF Blunder
  <2>4. QED  BY <2>3 DEF KeepsCount
<1>8. QED  BY <1>6, <1>7

LEMMA PaidCount ==
  ASSUME ReservationsTypeOK, NEW h \in Request, NEW o \in GiftOrder, OrderPaid(h, o)
  PROVE  KeepsCount
<1> DEFINE mine == {i \in DOMAIN claims : /\ claims[i].by = Buyer[o]
                                          /\ claims[i].status = "RESERVED"}
           q == Least(Wanted[o], wish.quantity - wish.reserved)
<1>1. \/ \E i \in mine :
           /\ claims' = [claims EXCEPT ![i].status = "PURCHASED", ![i].order = o]
           /\ wish' = [wish EXCEPT !.status = "PURCHASED"]
      \/ /\ wish.reserved < wish.quantity
         /\ NewClaim(Buyer[o], q, "PURCHASED", o)
         /\ wish' = [wish EXCEPT !.reserved = wish.reserved + q,
              !.status = IF wish.reserved + q >= wish.quantity THEN "PURCHASED"
                                                               ELSE "AVAILABLE"]
      \/ UNCHANGED <<claims, wish>>
  BY DEF OrderPaid
<1>2. ASSUME NEW i \in mine,
             claims' = [claims EXCEPT ![i].status = "PURCHASED", ![i].order = o],
             wish' = [wish EXCEPT !.status = "PURCHASED"]
      PROVE  KeepsCount
  <2>1. \A k \in DOMAIN claims : /\ claims'[k].quantity = claims[k].quantity
                                 /\ Live(k)' <=> Live(k)
    <3>1. \A k \in DOMAIN claims : claims[k] \in Claim
      BY Rows
    <3>2. QED  BY <1>2, <3>1 DEF Claim, Live
  <2>2. DOMAIN claims' = DOMAIN claims
    BY <1>2
  <2>3. Claimed' = Claimed
    BY <2>1, <2>2, CountKept
  <2>4. wish'.reserved = wish.reserved
    BY <1>2 DEF ReservationsTypeOK, Wish
  <2>5. QED  BY <2>3, <2>4, SameCount
<1>3. ASSUME wish.reserved < wish.quantity,
             NewClaim(Buyer[o], q, "PURCHASED", o),
             wish' = [wish EXCEPT !.reserved = wish.reserved + q,
               !.status = IF wish.reserved + q >= wish.quantity THEN "PURCHASED"
                                                                ELSE "AVAILABLE"]
      PROVE  KeepsCount
  <2>1. q \in 1 .. MaxQuantity
    BY <1>3, ReservationsAssumption DEF ReservationsTypeOK, Wish, WithinQuantity, Least
  <2>2. Buyer[o] \in Person /\ "PURCHASED" \in ClaimStatus \ {"CANCELLED"}
    BY ReservationsAssumption DEF ClaimStatus
  <2>3. wish'.reserved = wish.reserved + q
    BY <1>3 DEF ReservationsTypeOK, Wish
  <2>4. q \in Nat
    BY <2>1, ReservationsAssumption
  <2> HIDE DEF q
  <2>5. Claimed' = Claimed + q
    BY <1>3, <2>1, <2>2, CountAdded
  <2>6. QED  BY <2>3, <2>4, <2>5, MoreClaimed
<1>4. ASSUME UNCHANGED <<claims, wish>>
      PROVE  KeepsCount
  BY <1>4, CountKept, SameCount DEF Live
<1> HIDE DEF mine, q
<1>5. QED  BY <1>1, <1>2, <1>3, <1>4

LEMMA DeliveredCount ==
  ASSUME ReservationsTypeOK, NEW h \in Request, NEW o \in GiftOrder, OrderDelivered(h, o)
  PROVE  KeepsCount
<1>1. wish' = [wish EXCEPT !.status = "DELIVERED"]
  BY DEF OrderDelivered
<1>2. Claimed' = Claimed
  BY DeliveredRows, CountKept
<1>3. wish'.reserved = wish.reserved
  BY <1>1 DEF ReservationsTypeOK, Wish
<1>4. QED  BY <1>2, <1>3, SameCount

\* releaseOrderSideEffects without a blunder: the claim is live, and the count
\* is what was read, or has shrunk since.
LEMMA ReleaseCount ==
  ASSUME ReservationsTypeOK, ClaimsInOrder, NEW h \in Request, Release(h)
  PROVE  KeepsCount
<1> DEFINE i == request[h].claim
           n == request[h].seen
           q == claims[i].quantity
           w == [wish EXCEPT !.reserved = Freed(n, q), !.status = "AVAILABLE"]
<1>1. request[h].pc = "held" /\ request' = [request EXCEPT ![h] = NoWork]
  BY DEF Release
<1>2. i \in DOMAIN claims /\ n \in Nat
  BY <1>1, Working, ReservationsAssumption DEF ClaimsInOrder, Claims, Work
<1>3. request'[h] # request[h]
  BY <1>1 DEF ReservationsTypeOK, NoWork
<1>4. \/ SetClaim(i, "CANCELLED") /\ wish' = w
      \/ UNCHANGED <<claims, wish>>
  BY DEF Release
<1>5. Makes(h, "lost") <=> (~Live(i) \/ n < wish.reserved)
  BY <1>1 DEF Makes
<1>6. Makes(h, "kept") <=> n > wish.reserved
  BY <1>1 DEF Makes
<1>7. q \in Nat
  BY <1>2, Weighed
<1>8. wish.reserved \in Nat
  BY ReservationsAssumption DEF ReservationsTypeOK, Wish
<1>9. CASE UNCHANGED <<claims, wish>>
  BY <1>9, CountKept, SameCount DEF Live
<1>10. CASE SetClaim(i, "CANCELLED") /\ wish' = w /\ Live(i)
  <2>1. wish'.reserved = Monus(n, q)
    BY <1>10 DEF ReservationsTypeOK, Wish, Freed
  <2> HIDE DEF i, n
  <2>2. Claimed = q + Claimed' /\ Claimed' \in Nat
    BY <1>2, <1>10, CountCancelled
  <2>3. claims' # claims
    BY <1>2, <1>10, SetStatus DEF Live, ClaimStatus
  <2> HIDE DEF q
  <2>4. n >= wish.reserved
          => /\ Enough => Enough'
             /\ n = wish.reserved => (Exact => Exact')
    BY <1>2, <1>7, <2>1, <2>2, LessClaimed
  <2>5. n < wish.reserved => "lost" \in Blunders
    BY <1>3, <1>5, <2>3, Blundered DEF Blunder
  <2>6. n > wish.reserved => "kept" \in Blunders
    BY <1>3, <1>6, <2>3, Blundered DEF Blunder
  <2>7. Blunders \subseteq {"kept"} => n >= wish.reserved
    BY <1>2, <1>8, <2>5
  <2>8. Blunders = {} => n = wish.reserved
    BY <1>2, <1>8, <2>5, <2>6
  <2>9. QED  BY <1>2, <1>8, <2>4, <2>7, <2>8 DEF KeepsCount
<1>11. CASE SetClaim(i, "CANCELLED") /\ ~Live(i)
  <2> HIDE DEF i, w
  <2>1. Claimed' = Claimed
    BY <1>2, <1>11, SetStatus, CountKept DEF Live, ClaimStatus
  <2>2. CASE wish' = wish
    BY <2>1, <2>2, SameCount
  <2>3. CASE wish' # wish
    <3>1. "lost" \in Blunders
      BY <1>3, <1>5, <1>11, <2>3, Blundered DEF Blunder
    <3>2. QED  BY <3>1 DEF KeepsCount
  <2>4. QED  BY <2>2, <2>3
<1> HIDE DEF i, w
<1>12. QED  BY <1>4, <1>9, <1>10, <1>11

LEMMA CountStep ==
  ASSUME ReservationsTypeOK, ClaimsInOrder, Counted,
         [ReservationsNext /\ blind' = blind \union Blunders]_<<reservationsVars, blind>>
  PROVE  Counted'
<1>1. CASE UNCHANGED <<reservationsVars, blind>>
  <2>1. Claimed' = Claimed
    BY <1>1, CountKept DEF reservationsVars, Live
  <2>2. QED  BY <1>1, <2>1 DEF reservationsVars, Counted, Exact, Enough
<1>2. CASE ReservationsNext /\ blind' = blind \union Blunders
  <2>1. ASSUME NEW h \in Request, NEW i \in DOMAIN claims,
               NEW to \in {"PURCHASED", "DELIVERED"}, ReadForUpdate(h, i, to)
        PROVE  KeepsCount
    BY <2>1, CountKept, SameCount DEF ReadForUpdate, Live
  <2>2. ASSUME NEW h \in Request, NEW o \in GiftOrder, ReadForRelease(h, o)
        PROVE  KeepsCount
    BY <2>2, CountKept, SameCount DEF ReadForRelease, Live
  <2>3. ASSUME NEW h \in Request, HoldClaim(h)
        PROVE  KeepsCount
    BY <2>3, CountKept, SameCount DEF HoldClaim, Live
  <2>4. ASSUME NEW h \in Request,
               (\E n \in 1 .. MaxQuantity : ChangeQuantity(h, n)) \/ DeleteItem(h)
        PROVE  KeepsCount
    <3>1. claims' = claims /\ wish'.reserved = wish.reserved
      BY <2>4 DEF ChangeQuantity, DeleteItem, ReservationsTypeOK, Wish
    <3>2. QED  BY <3>1, CountKept, SameCount DEF Live
  <2>5. KeepsCount
    BY <1>2, <2>1, <2>2, <2>3, <2>4, ReserveCount, CancelCount, UpdateCount, PaidCount,
       DeliveredCount, ReleaseCount DEF ReservationsNext
  <2>6. blind' = {} => blind = {} /\ Blunders = {}
    BY <1>2
  <2>7. blind' \subseteq {"kept"} => blind \subseteq {"kept"} /\ Blunders \subseteq {"kept"}
    BY <1>2
  <2>8. QED  BY <2>5, <2>6, <2>7 DEF Counted, KeepsCount
<1>3. QED  BY <1>1, <1>2

LEMMA InitCount ==
  ASSUME NotedReservationsInit
  PROVE  Counted
<1>1. claims = <<>> /\ wish.reserved = 0
  BY DEF NotedReservationsInit, ReservationsInit
<1>2. Counting = {}
  BY <1>1 DEF Counting
<1>3. Claimed = 0
  BY <1>2, ClaimedIs, SumEmpty
<1>4. QED  BY <1>1, <1>3 DEF Counted, Exact, Enough

LEMMA NotedTypes ==
  ASSUME ReservationsTypeOK, ClaimsInOrder,
         [ReservationsNext /\ blind' = blind \union Blunders]_<<reservationsVars, blind>>
  PROVE  ReservationsTypeOK' /\ ClaimsInOrder'
<1>1. [ReservationsNext]_reservationsVars
  BY DEF reservationsVars
<1>2. QED  BY <1>1, TypesNext

ReservationsIInv == ReservationsTypeOK /\ ClaimsInOrder /\ Counted

LEMMA ReservationsInvariant == NotedReservations => []ReservationsIInv
<1>1. NotedReservationsInit => ReservationsIInv
  BY InitTypes, InitCount DEF NotedReservationsInit, ReservationsIInv
<1>2. ReservationsIInv
      /\ [ReservationsNext /\ blind' = blind \union Blunders]_<<reservationsVars, blind>>
        => ReservationsIInv'
  BY NotedTypes, CountStep DEF ReservationsIInv
<1>3. QED  BY <1>1, <1>2, PTL DEF NotedReservations

\* However requests overlap, reservedQuantity is what the claims add up to,
\* through every mix of reservations, purchases, deliveries, orders taken back
\* and edits by the owner, until updateReservation or releaseOrderSideEffects
\* writes by an outdated reading.
THEOREM CountsClaimsHolds == NotedReservations => []CountsClaims
<1>1. ReservationsIInv => CountsClaims
  BY DEF ReservationsIInv, Counted, Exact, CountsClaims
<1>2. QED  BY <1>1, ReservationsInvariant, PTL

\* However requests overlap, reservations and orders together never claim more
\* than the owner wishes for (README: "No duplicate gifts"), unless a claim was
\* revived or a count was lost; a count that stays too high does no harm.
THEOREM NoDuplicateGiftsHolds == NotedReservations => []NoDuplicateGifts
<1>1. ReservationsIInv => NoDuplicateGifts
  <2> SUFFICES ASSUME ReservationsIInv, blind \subseteq {"kept"}
               PROVE  Claimed <= wish.quantity
    BY DEF NoDuplicateGifts
  <2>1. Claimed \in Nat /\ Claimed <= wish.reserved
    BY Weighed DEF ReservationsIInv, Counted, Enough
  <2>2. QED
    BY <2>1, ReservationsAssumption DEF ReservationsIInv, ReservationsTypeOK, Wish,
       WithinQuantity
<1>2. QED  BY <1>1, ReservationsInvariant, PTL
=============================================================================
