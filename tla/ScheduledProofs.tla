-------------------------- MODULE ScheduledProofs --------------------------
(***************************************************************************)
(* Proofs about Scheduled, for any gifts, wishes, reminders, days, workers *)
(* and stops of workers; and about Calendar, which says when a birthday    *)
(* and its reminders are due, for any dates, years and zones.              *)
(***************************************************************************)
EXTENDS Scheduled, Calendar, TLAPS

Paid(i) == row[i].payment \in {"NONE", "SUCCESSFUL"}

\* What holds of one row whatever its state, and of one nobody wrote yet.
RowsInOrder ==
  \A i \in Item :
    /\ row[i].is = "none" => row[i].payment = "NONE" /\ ~row[i].delivered
    /\ row[i].delivered => IsDue(i) /\ Paid(i)
    /\ i \in Wish => row[i].payment = "NONE"

\* What a run still has to do was due and paid when it was found, and stays so.
TodoInOrder ==
  \A w \in Worker : \A i \in proc[w].todo \intersect Item :
    row[i].is # "none" /\ IsDue(i) /\ Paid(i)

\* A mark that is set once, before anybody is told: deliveredAt of an item, the
\* dispatch row of a reminder.
Marked(n) == IF n \in Item THEN row[n].delivered ELSE n \in claimed

On(w, n) == n \in proc[w].on

\* Whoever set the mark holds the news alone, until it has told it; a call that
\* is repeated tells once more, whoever holds the news.
HeldByOne ==
  \A n \in News :
    /\ told[n] <= 1 + Repeats(n) /\ pushed[n] <= told[n]
    /\ ~Marked(n) => told[n] <= Repeats(n) /\ n \notin duty /\ \A w \in Worker : ~On(w, n)
    /\ n \in duty => told[n] <= Repeats(n) /\ \A w \in Worker : ~On(w, n)
    /\ \A w \in Worker : On(w, n) =>
         /\ proc[w].pc = "notify" => told[n] <= Repeats(n)
         /\ proc[w].pc # "notify" => pushed[n] < told[n]
         /\ \A v \in Worker : On(v, n) => v = w

\* A worker holds at most one news.
OneAtATime ==
  \A w \in Worker : \A m, n \in proc[w].on : m = n

\* What is being opened can be opened, and what is handed over was opened.
OpensInOrder ==
  \A g \in Gift :
    /\ opening[g] > 0 \/ granted[g] > 0 \/ row[g].opened => Ready(g)
    /\ granted[g] <= 1
    /\ granted[g] > 0 => row[g].opened

IInv ==
  /\ TypeOK
  /\ RowsInOrder
  /\ TodoInOrder
  /\ HeldByOne
  /\ OneAtATime
  /\ OpensInOrder

-----------------------------------------------------------------------------
(***************************************************************************)
(* Types.                                                                  *)
(***************************************************************************)
USE DEF rows, opens, jobs

LEMMA Sets ==
  /\ Gift \subseteq Item /\ Wish \subseteq Item /\ PaidGift \subseteq Gift
  /\ Item \subseteq News /\ Reminder \subseteq News
  /\ \A n \in News : n \notin Item => n \in Reminder
BY DEF Gift, Item, News

LEMMA IdleType == Idle \in Local /\ Idle.pc = "idle" /\ Idle.todo = {} /\ Idle.on = {}
BY DEF Idle, Local, Job

LEMMA TypeInit == Init => TypeOK
<1> SUFFICES ASSUME Init PROVE TypeOK
  OBVIOUS
<1>1. row \in [Item -> Row]
  BY DEF Init, Row, RowStatus
<1>2. proc \in [Worker -> Local] /\ \A w \in Worker : proc[w].pc = "idle" /\ proc[w].on = {}
  BY IdleType DEF Init
<1>3. QED  BY <1>1, <1>2, ScheduledAssumption DEF Init, TypeOK, Day

\* The step of a worker, field by field; the others stay as they are.
Becomes(w, pc, todo, on) ==
  /\ proc' \in [Worker -> Local]
  /\ proc'[w].pc = pc /\ proc'[w].todo = todo /\ proc'[w].on = on
  /\ \A v \in Worker : v # w => proc'[v] = proc[v]

LEMMA WorkerMoves ==
  ASSUME TypeOK, NEW w \in Worker
  PROVE  /\ \A job \in Job : AcquireLock(w, job) => Becomes(w, "scan", {}, {})
         /\ Scan(w) => \E t \in SUBSET News :
              /\ Becomes(w, "job", t, proc[w].on)
              /\ \A i \in t \intersect Item : Releasable(i)
         /\ SendPush(w) => Becomes(w, "job", proc[w].todo, {})
         /\ ReleaseLock(w) \/ Crash(w) => Becomes(w, "idle", {}, {})
<1>0. proc \in [Worker -> Local] /\ proc[w] \in Local
  BY DEF TypeOK
<1>1. ASSUME NEW job \in Job, AcquireLock(w, job)  PROVE Becomes(w, "scan", {}, {})
  BY <1>0, <1>1, IdleType DEF AcquireLock, Local, Becomes
<1>2. ASSUME Scan(w)
      PROVE  \E t \in SUBSET News : /\ Becomes(w, "job", t, proc[w].on)
                                    /\ \A i \in t \intersect Item : Releasable(i)
  <2> DEFINE t == IF proc[w].job = "birthday-reminders"
                    THEN {n \in Reminder : Due[n] = today}
                    ELSE {i \in Item : Releasable(i)}
  <2>1. proc' = [proc EXCEPT ![w].pc = "job", ![w].todo = t]
    BY <1>2 DEF Scan
  <2>2. t \in SUBSET News /\ \A i \in t \intersect Item : Releasable(i)
    BY Sets, ScheduledAssumption
  <2> HIDE DEF t
  <2>3. Becomes(w, "job", t, proc[w].on)
    BY <1>0, <2>1, <2>2 DEF Local, Becomes
  <2>4. QED  BY <2>2, <2>3
<1>3. ASSUME SendPush(w)  PROVE Becomes(w, "job", proc[w].todo, {})
  BY <1>0, <1>3 DEF SendPush, Local, Becomes
<1>4. ASSUME proc' = [proc EXCEPT ![w] = Idle]  PROVE Becomes(w, "idle", {}, {})
  BY <1>0, <1>4, IdleType DEF Becomes
<1>5. QED  BY <1>1, <1>2, <1>3, <1>4 DEF ReleaseLock, Crash

\* Whoever set the mark of a news goes on to tell it.
LEMMA WorkerHolds ==
  ASSUME TypeOK, NEW w \in Worker, NEW n \in News, NEW won \in BOOLEAN,
         proc' = [proc EXCEPT ![w].todo = @ \ {n},
                              ![w].pc = IF won THEN "notify" ELSE "job",
                              ![w].on = IF won THEN {n} ELSE {}]
  PROVE  Becomes(w, IF won THEN "notify" ELSE "job", proc[w].todo \ {n},
                 IF won THEN {n} ELSE {})
<1>1. proc \in [Worker -> Local] /\ proc[w] \in Local
  BY DEF TypeOK
<1>2. CASE won
  BY <1>1, <1>2 DEF Local, Becomes
<1>3. CASE ~won
  BY <1>1, <1>3 DEF Local, Becomes
<1>4. QED  BY <1>2, <1>3

Wins(w, n, won) ==
  Becomes(w, IF won THEN "notify" ELSE "job", proc[w].todo \ {n},
          IF won THEN {n} ELSE {})

LEMMA WorkerWins ==
  ASSUME TypeOK, NEW w \in Worker, NEW n \in News
  PROVE  /\ ReleaseItem(w, n) => Wins(w, n, Undelivered(n))
         /\ ClaimReminder(w, n) => Wins(w, n, Unclaimed(n))
<1> DEFINE a == Undelivered(n)
           b == Unclaimed(n)
<1>1. a \in BOOLEAN /\ b \in BOOLEAN
  BY DEF Undelivered, Unclaimed
<1>2. /\ ReleaseItem(w, n) =>
           proc' = [proc EXCEPT ![w].todo = @ \ {n},
                                ![w].pc = IF a THEN "notify" ELSE "job",
                                ![w].on = IF a THEN {n} ELSE {}]
      /\ ClaimReminder(w, n) =>
           proc' = [proc EXCEPT ![w].todo = @ \ {n},
                                ![w].pc = IF b THEN "notify" ELSE "job",
                                ![w].on = IF b THEN {n} ELSE {}]
  BY DEF ReleaseItem, ClaimReminder
<1> HIDE DEF a, b
<1>3. /\ ReleaseItem(w, n) => Wins(w, n, a)
      /\ ClaimReminder(w, n) => Wins(w, n, b)
  BY <1>1, <1>2, WorkerHolds DEF Wins
<1>4. QED  BY <1>3 DEF a, b

LEMMA WorkerTells ==
  ASSUME TypeOK, NEW w \in Worker, Notify(w)
  PROVE  IF told' = told THEN Becomes(w, "job", proc[w].todo, {})
                         ELSE Becomes(w, "push", proc[w].todo, proc[w].on)
<1>1. proc \in [Worker -> Local] /\ proc[w] \in Local
  BY DEF TypeOK
<1>2. CASE told' = told
  <2>1. proc' = [proc EXCEPT ![w].pc = "job", ![w].on = {}]
    BY <1>2 DEF Notify
  <2>2. QED  BY <1>1, <1>2, <2>1 DEF Local, Becomes
<1>3. CASE told' # told
  <2>1. proc' = [proc EXCEPT ![w].pc = "push", ![w].on = @]
    BY <1>3 DEF Notify
  <2>2. QED  BY <1>1, <1>3, <2>1 DEF Local, Becomes
<1>4. QED  BY <1>2, <1>3

\* What a step of a worker is, as far as the workers go.
WorkerStep(w) == JobStep(w) \/ Crash(w) \/ \E job \in Job : AcquireLock(w, job)

LEMMA WorkerType ==
  ASSUME TypeOK, NEW w \in Worker, WorkerStep(w)
  PROVE  /\ proc' \in [Worker -> Local]
         /\ \A v \in Worker : proc'[v].pc \in {"notify", "push"} <=> proc'[v].on # {}
<1>1. ASSUME NEW pc, NEW todo, NEW on, Becomes(w, pc, todo, on),
             pc \in {"notify", "push"} <=> on # {}
      PROVE  /\ proc' \in [Worker -> Local]
             /\ \A v \in Worker : proc'[v].pc \in {"notify", "push"} <=> proc'[v].on # {}
  BY <1>1 DEF Becomes, TypeOK
<1>2. CASE SendPush(w) \/ ReleaseLock(w) \/ Crash(w) \/ \E job \in Job : AcquireLock(w, job)
  BY <1>1, <1>2, WorkerMoves
<1>3. CASE Scan(w)
  <2>1. proc[w].on = {}
    BY <1>3 DEF Scan, TypeOK
  <2>2. QED  BY <1>1, <1>3, <2>1, WorkerMoves
<1>4. CASE \E n \in News : ReleaseItem(w, n) \/ ClaimReminder(w, n)
  BY <1>1, <1>4, WorkerWins DEF Wins
<1>5. CASE Notify(w)
  <2>1. proc[w].on # {}
    BY <1>5 DEF Notify
  <2>2. QED  BY <1>1, <1>5, <2>1, WorkerTells
<1>6. QED  BY <1>2, <1>3, <1>4, <1>5 DEF WorkerStep, JobStep

LEMMA StoreType ==
  ASSUME TypeOK, NEW n \in News, Store(n)
  PROVE  /\ told' \in [News -> Nat]
         /\ \A m \in News : m # n => told'[m] = told[m]
         /\ told' = told \/ told'[n] = told[n] + 1
BY DEF TypeOK, Store

LEMMA TellType ==
  ASSUME TypeOK, NEW n \in News, Tell(n)
  PROVE  told' \in [News -> Nat] /\ pushed' \in [News -> Nat]
BY StoreType DEF Tell, TypeOK

LEMMA RowType ==
  ASSUME TypeOK, NEW i \in Item, NEW r \in Row, row' = [row EXCEPT ![i] = r]
  PROVE  row' \in [Item -> Row]
BY DEF TypeOK

LEMMA TypeStep == TypeOK /\ [Next]_vars => TypeOK'
<1> SUFFICES ASSUME TypeOK, [Next]_vars PROVE TypeOK'
  OBVIOUS
<1> USE ScheduledAssumption, Sets
<1>1. CASE UNCHANGED vars
  BY <1>1 DEF vars, TypeOK
<1>2. CASE NextDay
  BY <1>2 DEF NextDay, TypeOK, Day
<1>3. ASSUME NEW i \in Item, NEW payment \in {"NONE", "PENDING"}, NEW now \in BOOLEAN,
             NewRow(i, payment, now)
      PROVE  TypeOK'
  <2>1. row' \in [Item -> Row]
    BY <1>3 DEF NewRow, TypeOK, Row, RowStatus
  <2>2. QED  BY <1>3, <2>1 DEF NewRow, TypeOK
<1>4. ASSUME NEW i \in Item, SendDigitalGift(i) \/ SendWish(i)  PROVE TypeOK'
  <2>1. IsDue(i) \in BOOLEAN
    BY DEF IsDue
  <2>2. QED  BY <1>3, <1>4, <2>1 DEF SendDigitalGift, SendWish
<1>5. ASSUME NEW i \in Item, SettleDigitalGift(i) \/ PaymentFails(i)  PROVE TypeOK'
  <2>1. row' \in [Item -> Row]
    <3> DEFINE d == row[i].delivered \/ DueNow(i)
    <3>1. d \in BOOLEAN
      OBVIOUS
    <3>2. row' = [row EXCEPT ![i].payment = "SUCCESSFUL", ![i].delivered = d]
          \/ row' = [row EXCEPT ![i].payment = "FAILED"]
      BY <1>5 DEF SettleDigitalGift, PaymentFails
    <3> HIDE DEF d
    <3>3. CASE row' = [row EXCEPT ![i].payment = "SUCCESSFUL", ![i].delivered = d]
      <4>1. row \in [Item -> Row] /\ row[i] \in Row
        BY DEF TypeOK
      <4> DEFINE r == [row[i] EXCEPT !.payment = "SUCCESSFUL", !.delivered = d]
      <4>2. r \in Row
        BY <3>1, <4>1 DEF Row
      <4>3. row' = [row EXCEPT ![i] = r]
        BY <3>3
      <4> HIDE DEF r
      <4>4. QED  BY <4>2, <4>3, RowType
    <3>4. CASE row' = [row EXCEPT ![i].payment = "FAILED"]
      BY <3>4 DEF TypeOK, Row
    <3>5. QED  BY <3>2, <3>3, <3>4
  <2>2. QED  BY <1>5, <2>1 DEF SettleDigitalGift, PaymentFails, TypeOK
<1>6. ASSUME NEW i \in Item, Announce(i)  PROVE TypeOK'
  <2>1. told' \in [News -> Nat] /\ faults' \in 0 .. MaxFaults
    BY <1>6, TellType DEF Announce, TypeOK
  <2>2. pushed' \in [News -> Nat]
    BY <1>6, TellType DEF Announce, TypeOK
  <2>3. QED  BY <1>6, <2>1, <2>2 DEF Announce, TypeOK
<1>a. ASSUME NEW i \in FreeGift, RepeatDigitalGift(i)  PROVE TypeOK'
  <2>1. told' \in [News -> Nat] /\ pushed' \in [News -> Nat]
    BY <1>a, TellType DEF RepeatDigitalGift, Gift
  <2>2. repeats' \in [FreeGift -> 0 .. MaxRepeats]
    BY <1>a DEF RepeatDigitalGift, TypeOK
  <2>3. QED  BY <1>a, <2>1, <2>2 DEF RepeatDigitalGift, TypeOK
<1>7. ASSUME NEW g \in Gift, ReadForOpen(g) \/ OpenDigitalGift(g)  PROVE TypeOK'
  <2>1. CASE ReadForOpen(g)
    BY <2>1 DEF ReadForOpen, TypeOK
  <2>2. CASE OpenDigitalGift(g)
    <3>1. row' \in [Item -> Row]
      <4>1. g \in Item /\ row' = [row EXCEPT ![g].opened = TRUE]
        BY <2>2 DEF OpenDigitalGift
      <4>2. row \in [Item -> Row] /\ row[g] \in Row
        BY <4>1 DEF TypeOK
      <4> DEFINE r == [row[g] EXCEPT !.opened = TRUE]
      <4>3. r \in Row
        BY <4>2 DEF Row
      <4>4. row' = [row EXCEPT ![g] = r]
        BY <4>1
      <4> HIDE DEF r
      <4>5. QED  BY <4>1, <4>3, <4>4, RowType
    <3>2. opening' \in [Gift -> 0 .. 2] /\ granted' \in [Gift -> Nat]
      BY <2>2 DEF OpenDigitalGift, HandOver, TypeOK
    <3>3. QED  BY <2>2, <3>1, <3>2 DEF OpenDigitalGift, TypeOK
  <2>3. QED  BY <1>7, <2>1, <2>2
<1>8. ASSUME NEW i \in Wish, DeleteWish(i) \/ \E who \in Deleter : ReadForUnsend(i, who)
      PROVE  TypeOK'
  <2>1. ASSUME DeleteWish(i)  PROVE row' \in [Item -> Row]
    <3>1. row \in [Item -> Row] /\ row' = [row EXCEPT ![i].is = "deleted"]
      BY <2>1 DEF DeleteWish, TypeOK
    <3>2. QED  BY <3>1 DEF Row, RowStatus
  <2>2. QED  BY <1>8, <2>1 DEF ReadForUnsend, DeleteWish, TypeOK
<1>9. ASSUME NEW job \in Job, LockExpires(job)  PROVE TypeOK'
  BY <1>9 DEF LockExpires, TypeOK
<1>10. ASSUME NEW w \in Worker, WorkerStep(w)  PROVE TypeOK'
  <2>1. /\ proc' \in [Worker -> Local]
        /\ \A v \in Worker : proc'[v].pc \in {"notify", "push"} <=> proc'[v].on # {}
    BY <1>10, WorkerType
  <2>2. CASE Crash(w) \/ Scan(w) \/ ReleaseLock(w) \/ \E job \in Job : AcquireLock(w, job)
    <3>1. CASE Crash(w)
      BY <2>1, <3>1 DEF Crash, TypeOK
    <3>2. CASE Scan(w)
      BY <2>1, <3>2 DEF Scan, TypeOK
    <3>3. CASE ReleaseLock(w) \/ \E job \in Job : AcquireLock(w, job)
      BY <2>1, <3>3 DEF ReleaseLock, AcquireLock, TypeOK
    <3>4. QED  BY <2>2, <3>1, <3>2, <3>3
  <2>3. CASE SendPush(w)
    <3>1. pushed' \in [News -> Nat]
      BY <2>3 DEF SendPush, TypeOK
    <3>2. QED  BY <2>1, <2>3, <3>1 DEF SendPush, TypeOK
  <2>4. CASE Notify(w)
    <3>1. \A n \in proc[w].on : n \in News
      BY DEF TypeOK, Local
    <3>2. told' \in [News -> Nat]
      BY <2>4, <3>1, StoreType DEF Notify
    <3>3. QED  BY <2>1, <2>4, <3>2 DEF Notify, TypeOK
  <2>5. ASSUME NEW n \in News, ReleaseItem(w, n)  PROVE TypeOK'
    <3>1. row' \in [Item -> Row]
      <4>1. n \in Item /\ (row' = [row EXCEPT ![n].delivered = TRUE] \/ row' = row)
        BY <2>5 DEF ReleaseItem
      <4>2. row \in [Item -> Row] /\ row[n] \in Row
        BY <4>1 DEF TypeOK
      <4> DEFINE r == [row[n] EXCEPT !.delivered = TRUE]
      <4>3. r \in Row
        BY <4>2 DEF Row
      <4>4. row' = [row EXCEPT ![n] = r] \/ row' = row
        BY <4>1
      <4> HIDE DEF r
      <4>5. QED  BY <4>1, <4>2, <4>3, <4>4, RowType DEF TypeOK
    <3>2. QED  BY <2>1, <2>5, <3>1 DEF ReleaseItem, TypeOK
  <2>6. ASSUME NEW n \in News, ClaimReminder(w, n)  PROVE TypeOK'
    BY <2>1, <2>6 DEF ClaimReminder, TypeOK
  <2>7. QED  BY <1>10, <2>2, <2>3, <2>4, <2>5, <2>6 DEF WorkerStep, JobStep
<1>11. QED
  BY <1>1, <1>2, <1>4, <1>5, <1>6, <1>7, <1>8, <1>9, <1>10, <1>a DEF Next, WorkerStep

-----------------------------------------------------------------------------
(***************************************************************************)
(* Rows.                                                                   *)
(***************************************************************************)
\* What a step makes of one row: nothing, or one of the ways the code has to
\* write, settle, open, delete or release it.
Fields(i, is, payment, delivered, opened) ==
  /\ row'[i].is = is /\ row'[i].payment = payment
  /\ row'[i].delivered = delivered /\ row'[i].opened = opened

Sent(i) ==
  /\ row[i].is = "none"
  /\ \/ i \in PaidGift /\ Fields(i, "kept", "PENDING", FALSE, FALSE)
     \/ Fields(i, "kept", "NONE", IsDue(i), FALSE)
Settled(i) ==
  /\ row[i].payment = "PENDING"
  /\ \/ Fields(i, row[i].is, "FAILED", row[i].delivered, row[i].opened)
     \/ \E d \in {row[i].delivered, TRUE} :
          /\ d => row[i].delivered \/ IsDue(i)
          /\ Fields(i, row[i].is, "SUCCESSFUL", d, row[i].opened)
Opened(i) ==
  /\ i \in Gift /\ opening[i] > 0
  /\ Fields(i, row[i].is, row[i].payment, row[i].delivered, TRUE)
Deleted(i) ==
  /\ i \in Wish
  /\ Fields(i, "deleted", row[i].payment, row[i].delivered, row[i].opened)
Released(i) ==
  /\ Undelivered(i) /\ \E w \in Worker : i \in proc[w].todo
  /\ Fields(i, row[i].is, row[i].payment, TRUE, row[i].opened)

LEMMA RowMoves ==
  ASSUME TypeOK, [Next]_vars, NEW i \in Item
  PROVE  row'[i] = row[i] \/ Sent(i) \/ Settled(i) \/ Opened(i) \/ Deleted(i) \/ Released(i)
<1> USE ScheduledAssumption, Sets
<1>0. row \in [Item -> Row] /\ row[i] \in Row
  BY DEF TypeOK
<1>1. CASE row' = row
  BY <1>1
<1>2. ASSUME NEW j \in Item, SendDigitalGift(j) \/ SendWish(j)
      PROVE  row'[i] = row[i] \/ Sent(i)
  <2>1. ASSUME NEW payment, NEW now, NewRow(i, payment, now)
        PROVE  row[i].is = "none" /\ Fields(i, "kept", payment, now, FALSE)
    BY <1>0, <2>1 DEF NewRow, Fields
  <2>2. CASE j = i
    BY <1>2, <2>1, <2>2 DEF SendDigitalGift, SendWish, Sent
  <2>3. CASE j # i
    BY <1>0, <1>2, <2>3 DEF SendDigitalGift, SendWish, NewRow
  <2>4. QED  BY <2>2, <2>3
<1>3. ASSUME NEW j \in Item, SettleDigitalGift(j) \/ PaymentFails(j)
      PROVE  row'[i] = row[i] \/ Settled(i)
  <2>1. CASE j = i
    <3> DEFINE d == row[i].delivered \/ DueNow(i)
    <3>0. row[i].payment = "PENDING"
      BY <1>3, <2>1 DEF SettleDigitalGift, PaymentFails
    <3>1. \/ row' = [row EXCEPT ![i].payment = "SUCCESSFUL", ![i].delivered = d]
          \/ row' = [row EXCEPT ![i].payment = "FAILED"]
      BY <1>3, <2>1 DEF SettleDigitalGift, PaymentFails
    <3>2. /\ d => row[i].delivered \/ IsDue(i)
          /\ d \in {row[i].delivered, TRUE}
      BY <1>0 DEF DueNow, Row
    <3> HIDE DEF d
    <3>3. CASE row' = [row EXCEPT ![i].payment = "SUCCESSFUL", ![i].delivered = d]
      <4>1. Fields(i, row[i].is, "SUCCESSFUL", d, row[i].opened)
        BY <1>0, <3>3 DEF Row, Fields
      <4>2. QED  BY <3>0, <3>2, <4>1 DEF Settled
    <3>4. CASE row' = [row EXCEPT ![i].payment = "FAILED"]
      BY <1>0, <3>0, <3>4 DEF Row, Settled, Fields
    <3>5. QED  BY <3>1, <3>3, <3>4
  <2>2. CASE j # i
    BY <1>0, <1>3, <2>2 DEF SettleDigitalGift, PaymentFails
  <2>3. QED  BY <2>1, <2>2
<1>4. ASSUME NEW g \in Gift, OpenDigitalGift(g)  PROVE row'[i] = row[i] \/ Opened(i)
  <2>1. g \in Item /\ row' = [row EXCEPT ![g].opened = TRUE] /\ opening[g] > 0
    BY <1>4 DEF OpenDigitalGift
  <2>2. QED  BY <1>0, <2>1 DEF Row, Opened, Fields
<1>5. ASSUME NEW j \in Wish, DeleteWish(j)  PROVE row'[i] = row[i] \/ Deleted(i)
  <2>1. j \in Item /\ row' = [row EXCEPT ![j].is = "deleted"]
    BY <1>5 DEF DeleteWish
  <2>2. QED  BY <1>0, <2>1 DEF Row, Deleted, Fields
<1>6. ASSUME NEW w \in Worker, NEW n \in News, ReleaseItem(w, n)
      PROVE  row'[i] = row[i] \/ Released(i)
  <2>1. /\ n \in Item /\ n \in proc[w].todo
        /\ (row' = [row EXCEPT ![n].delivered = TRUE] /\ Undelivered(n)) \/ row' = row
    BY <1>6 DEF ReleaseItem
  <2>2. QED  BY <1>0, <1>1, <2>1 DEF Row, Released, Fields
<1>7. CASE UNCHANGED vars
  BY <1>1, <1>7 DEF vars
<1>8. CASE \/ NextDay
           \/ \E j \in Item : Announce(j)
           \/ \E g \in Gift : ReadForOpen(g)
           \/ \E j \in Wish : \E who \in Deleter : ReadForUnsend(j, who)
           \/ \E j \in FreeGift : RepeatDigitalGift(j)
           \/ \E job \in Job : LockExpires(job) \/ \E w \in Worker : AcquireLock(w, job)
  BY <1>1, <1>8 DEF NextDay, Announce, ReadForOpen, ReadForUnsend, RepeatDigitalGift,
     LockExpires, AcquireLock
<1>9. CASE \E w \in Worker : JobStep(w) \/ Crash(w)
  <2>1. PICK w \in Worker : JobStep(w) \/ Crash(w)
    BY <1>9
  <2>2. CASE Scan(w) \/ Notify(w) \/ SendPush(w) \/ ReleaseLock(w) \/ Crash(w)
    BY <1>1, <2>2 DEF Scan, Notify, SendPush, ReleaseLock, Crash
  <2>3. ASSUME NEW n \in News, ClaimReminder(w, n)  PROVE row' = row
    BY <2>3 DEF ClaimReminder
  <2>4. QED  BY <1>1, <1>6, <2>1, <2>2, <2>3 DEF JobStep
<1>10. QED
  BY <1>2, <1>3, <1>4, <1>5, <1>7, <1>8, <1>9 DEF Next

LEMMA DaysPass ==
  ASSUME TypeOK, [Next]_vars
  PROVE  today \in Nat /\ today' \in {today, today + 1}
<1>1. today \in Nat
  BY ScheduledAssumption DEF TypeOK, Day
<1>2. QED
  BY <1>1 DEF Next, vars, NextDay, SendDigitalGift, SendWish, NewRow, Announce,
     SettleDigitalGift, PaymentFails, ReadForOpen, OpenDigitalGift, ReadForUnsend, RepeatDigitalGift,
     DeleteWish, LockExpires, AcquireLock, JobStep, Scan, Notify, SendPush, ReleaseLock,
     ReleaseItem, ClaimReminder, Crash

\* A row is written once; what is paid stays paid, and what is due stays due.
LEMMA RowKept ==
  ASSUME TypeOK, [Next]_vars, NEW i \in Item
  PROVE  /\ IsDue(i) => IsDue(i)'
         /\ row[i].is # "none" =>
              /\ row'[i].is # "none"
              /\ Paid(i) => Paid(i)'
              /\ row[i].delivered => row'[i].delivered
              /\ row[i].opened => row'[i].opened
<1>1. IsDue(i) => IsDue(i)'
  <2>1. Due[i] \in Nat
    BY ScheduledAssumption, Sets DEF Day
  <2>2. QED  BY <2>1, DaysPass DEF IsDue
<1>2. QED
  BY <1>1, RowMoves DEF Sent, Settled, Opened, Deleted, Released, Fields, Paid

LEMMA RowsStep ==
  ASSUME TypeOK, RowsInOrder, TodoInOrder, OpensInOrder, [Next]_vars
  PROVE  RowsInOrder'
<1> SUFFICES ASSUME NEW i \in Item
             PROVE  /\ row'[i].is = "none" => row'[i].payment = "NONE" /\ ~row'[i].delivered
                    /\ row'[i].delivered => IsDue(i)' /\ Paid(i)'
                    /\ i \in Wish => row'[i].payment = "NONE"
  BY DEF RowsInOrder
<1>0. /\ row[i].is = "none" => row[i].payment = "NONE" /\ ~row[i].delivered
      /\ row[i].delivered => IsDue(i) /\ Paid(i)
      /\ i \in Wish => row[i].payment = "NONE"
  BY DEF RowsInOrder
<1>1. IsDue(i) => IsDue(i)'
  BY RowKept
<1>2. CASE row'[i] = row[i]
  BY <1>0, <1>1, <1>2 DEF Paid
<1>3. CASE Sent(i)
  <2>1. i \in PaidGift => i \notin Wish
    BY ScheduledAssumption, Sets
  <2>2. QED  BY <1>1, <1>3, <2>1 DEF Sent, Fields, Paid
<1>4. CASE Settled(i)
  <2>1. ~row[i].delivered /\ row[i].is # "none" /\ i \notin Wish
    BY <1>0, <1>4 DEF Settled, Paid
  <2>2. CASE Fields(i, row[i].is, "FAILED", row[i].delivered, row[i].opened)
    BY <2>1, <2>2 DEF Fields
  <2>3. ASSUME NEW d \in {row[i].delivered, TRUE}, d => row[i].delivered \/ IsDue(i),
               Fields(i, row[i].is, "SUCCESSFUL", d, row[i].opened)
        PROVE  /\ row'[i].is # "none" /\ i \notin Wish
               /\ row'[i].delivered => IsDue(i)' /\ Paid(i)'
    BY <1>1, <2>1, <2>3 DEF Fields, Paid
  <2>4. QED  BY <1>4, <2>1, <2>2, <2>3 DEF Settled
<1>5. CASE Opened(i)
  BY <1>0, <1>1, <1>5 DEF Opened, Fields, Paid
<1>6. CASE Deleted(i)
  BY <1>0, <1>1, <1>6 DEF Deleted, Fields, Paid
<1>7. CASE Released(i)
  <2>1. IsDue(i) /\ Paid(i)
    BY <1>7 DEF Released, TodoInOrder
  <2>2. QED  BY <1>0, <1>1, <1>7, <2>1 DEF Released, Undelivered, Fields, Paid
<1>8. QED  BY <1>2, <1>3, <1>4, <1>5, <1>6, <1>7, RowMoves

-----------------------------------------------------------------------------
(***************************************************************************)
(* Workers.                                                                *)
(***************************************************************************)
\* What a step makes of a worker's list.
LEMMA TodoMoves ==
  ASSUME TypeOK, [Next]_vars, NEW w \in Worker
  PROVE  \/ proc'[w].todo \subseteq proc[w].todo
         \/ \A i \in proc'[w].todo \intersect Item : Releasable(i)
<1>1. CASE proc' = proc
  BY <1>1
<1>2. ASSUME NEW v \in Worker, WorkerStep(v)
      PROVE  \/ proc'[w].todo \subseteq proc[w].todo
             \/ \A i \in proc'[w].todo \intersect Item : Releasable(i)
  <2>1. ASSUME NEW pc, NEW on, NEW todo, Becomes(v, pc, todo, on),
               todo \subseteq proc[v].todo \/ \A i \in todo \intersect Item : Releasable(i)
        PROVE  \/ proc'[w].todo \subseteq proc[w].todo
               \/ \A i \in proc'[w].todo \intersect Item : Releasable(i)
    BY <2>1 DEF Becomes
  <2>2. CASE Scan(v) \/ SendPush(v) \/ ReleaseLock(v) \/ Crash(v)
             \/ \E job \in Job : AcquireLock(v, job)
    BY <2>1, <2>2, WorkerMoves
  <2>3. CASE Notify(v)
    BY <2>1, <2>3, WorkerTells
  <2>4. ASSUME NEW n \in News, ReleaseItem(v, n) \/ ClaimReminder(v, n)
        PROVE  \/ proc'[w].todo \subseteq proc[w].todo
               \/ \A i \in proc'[w].todo \intersect Item : Releasable(i)
    BY <2>1, <2>4, WorkerWins DEF Wins
  <2>5. QED  BY <1>2, <2>2, <2>3, <2>4 DEF WorkerStep, JobStep
<1>3. CASE \E v \in Worker : WorkerStep(v)
  BY <1>2, <1>3
<1>4. CASE ~\E v \in Worker : WorkerStep(v)
  <2>1. proc' = proc
    BY <1>4 DEF WorkerStep, Next, vars, NextDay, SendDigitalGift, SendWish, NewRow, Announce,
       SettleDigitalGift, PaymentFails, ReadForOpen, OpenDigitalGift, ReadForUnsend, RepeatDigitalGift,
       DeleteWish, LockExpires
  <2>2. QED  BY <1>1, <2>1
<1>5. QED  BY <1>3, <1>4

LEMMA TodoStep ==
  ASSUME TypeOK, TodoInOrder, [Next]_vars
  PROVE  TodoInOrder'
<1> SUFFICES ASSUME NEW w \in Worker, NEW i \in proc'[w].todo \intersect Item
             PROVE  row'[i].is # "none" /\ IsDue(i)' /\ Paid(i)'
  BY DEF TodoInOrder
<1>1. row[i].is # "none" /\ IsDue(i) /\ Paid(i)
  BY TodoMoves DEF TodoInOrder, Releasable, Payable, Paid
<1>2. QED  BY <1>1, RowKept

-----------------------------------------------------------------------------
(***************************************************************************)
(* Opening.                                                                *)
(***************************************************************************)
LEMMA OpensMove ==
  ASSUME TypeOK, [Next]_vars, NEW g \in Gift
  PROVE  \/ opening'[g] = opening[g] /\ granted'[g] = granted[g]
         \/ opening'[g] = opening[g] + 1 /\ granted'[g] = granted[g] /\ Ready(g)
         \/ /\ opening[g] > 0 /\ opening'[g] = opening[g] - 1 /\ row'[g].opened
            /\ granted'[g] = IF row[g].opened THEN granted[g] ELSE granted[g] + 1
<1>1. CASE UNCHANGED <<opening, granted>>
  BY <1>1
<1>2. ASSUME NEW i \in Gift, ReadForOpen(i)
      PROVE  \/ opening'[g] = opening[g] /\ granted'[g] = granted[g]
             \/ opening'[g] = opening[g] + 1 /\ granted'[g] = granted[g] /\ Ready(g)
  BY <1>2 DEF ReadForOpen, TypeOK
<1>3. ASSUME NEW i \in Gift, OpenDigitalGift(i), i # g
      PROVE  opening'[g] = opening[g] /\ granted'[g] = granted[g]
  BY <1>3 DEF OpenDigitalGift, HandOver, TypeOK
<1>4. ASSUME OpenDigitalGift(g)
      PROVE  /\ opening[g] > 0 /\ opening'[g] = opening[g] - 1 /\ row'[g].opened
             /\ granted'[g] = IF row[g].opened THEN granted[g] ELSE granted[g] + 1
  <2>1. g \in Item /\ row \in [Item -> Row] /\ row[g] \in Row
    BY Sets DEF TypeOK
  <2>2. row' = [row EXCEPT ![g].opened = TRUE]
    BY <1>4 DEF OpenDigitalGift
  <2>3. row'[g].opened
    BY <2>1, <2>2 DEF Row
  <2>4. QED  BY <1>4, <2>3 DEF OpenDigitalGift, HandOver, StillClosed, TypeOK
<1>5. QED
  BY <1>1, <1>2, <1>3, <1>4 DEF Next, vars, NextDay, SendDigitalGift, SendWish, NewRow,
     Announce, SettleDigitalGift, PaymentFails, ReadForUnsend, RepeatDigitalGift, DeleteWish, LockExpires,
     AcquireLock, JobStep, Scan, Notify, SendPush, ReleaseLock, ReleaseItem,
     ClaimReminder, Crash

LEMMA OpensStep ==
  ASSUME TypeOK, RowsInOrder, OpensInOrder, [Next]_vars
  PROVE  OpensInOrder'
<1> SUFFICES ASSUME NEW g \in Gift
             PROVE  /\ opening'[g] > 0 \/ granted'[g] > 0 \/ row'[g].opened => Ready(g)'
                    /\ granted'[g] <= 1
                    /\ granted'[g] > 0 => row'[g].opened
  BY DEF OpensInOrder
<1>0. /\ opening[g] > 0 \/ granted[g] > 0 \/ row[g].opened => Ready(g)
      /\ granted[g] <= 1
      /\ granted[g] > 0 => row[g].opened
      /\ opening[g] \in Nat /\ granted[g] \in Nat /\ g \in Item
  BY Sets DEF OpensInOrder, TypeOK
<1>1. Ready(g) => row[g].is # "none"
  BY <1>0 DEF RowsInOrder, Ready
<1>2. Ready(g) => Ready(g)'
  BY <1>0, <1>1, RowKept DEF Ready, Paid
<1>3. row[g].opened => row'[g].opened
  BY <1>0, <1>1, RowKept
<1>4. row'[g].opened => row[g].opened \/ opening[g] > 0
  BY <1>0, RowMoves DEF Sent, Settled, Opened, Deleted, Released, Fields
<1>5. QED  BY <1>0, <1>2, <1>3, <1>4, OpensMove

-----------------------------------------------------------------------------
(***************************************************************************)
(* Telling.                                                                *)
(***************************************************************************)
LEMMA MarksStay ==
  ASSUME TypeOK, RowsInOrder, [Next]_vars, NEW n \in News
  PROVE  Marked(n) => Marked(n)'
<1>1. CASE n \in Item
  BY <1>1, RowKept DEF Marked, RowsInOrder
<1>2. claimed \subseteq claimed'
  BY DEF Next, vars, NextDay, SendDigitalGift, SendWish, NewRow, Announce,
     SettleDigitalGift, PaymentFails, ReadForOpen, OpenDigitalGift, ReadForUnsend, RepeatDigitalGift,
     DeleteWish, LockExpires, AcquireLock, JobStep, Scan, Notify, SendPush, ReleaseLock,
     ReleaseItem, ClaimReminder, Crash
<1>3. QED  BY <1>1, <1>2 DEF Marked

LEMMA RepeatsType ==
  ASSUME TypeOK, NEW n \in News
  PROVE  Repeats(n) \in Nat /\ told[n] \in Nat /\ pushed[n] \in Nat
BY ScheduledAssumption DEF Repeats, TypeOK

\* The part of the invariant about one news.
HeldFor(n) ==
  /\ told[n] <= 1 + Repeats(n) /\ pushed[n] <= told[n]
  /\ ~Marked(n) => told[n] <= Repeats(n) /\ n \notin duty /\ \A w \in Worker : ~On(w, n)
  /\ n \in duty => told[n] <= Repeats(n) /\ \A w \in Worker : ~On(w, n)
  /\ \A w \in Worker : On(w, n) =>
       /\ proc[w].pc = "notify" => told[n] <= Repeats(n)
       /\ proc[w].pc # "notify" => pushed[n] < told[n]
       /\ \A v \in Worker : On(v, n) => v = w

\* A step that tells nothing of n and takes up nothing of n.
Quiet(n) ==
  /\ told'[n] = told[n] /\ pushed'[n] = pushed[n] /\ (n \in duty' => n \in duty)
  /\ Repeats(n)' = Repeats(n)
  /\ \A w \in Worker : On(w, n)' => On(w, n) /\ proc'[w].pc = proc[w].pc

LEMMA QuietKeeps ==
  ASSUME NEW n \in News, HeldFor(n), Quiet(n), Marked(n) => Marked(n)'
  PROVE  HeldFor(n)'
BY DEF HeldFor, Quiet, On

\* Steps that take up or tell another news are quiet for n.
LEMMA DutyStep ==
  ASSUME TypeOK, RowsInOrder, HeldByOne, [Next]_vars, NEW n \in News,
         NEW i \in Item, SendDigitalGift(i) \/ SendWish(i) \/ SettleDigitalGift(i)
  PROVE  HeldFor(n)'
<1>0. HeldFor(n) /\ (Marked(n) => Marked(n)')
  BY MarksStay DEF HeldByOne, HeldFor
<1>1. /\ told' = told /\ pushed' = pushed /\ proc' = proc /\ Repeats(n)' = Repeats(n)
      /\ duty' \in {duty, duty \union {i}}
  BY DEF SendDigitalGift, SendWish, SettleDigitalGift, NewRow, Repeats
<1>2. CASE n \in duty' => n \in duty
  <2>1. Quiet(n)
    BY <1>1, <1>2 DEF Quiet, On
  <2>2. QED  BY <1>0, <2>1, QuietKeeps
<1>3. CASE n \in duty' /\ n \notin duty
  <2>1. n = i
    BY <1>1, <1>3
  <2>2. ~Marked(n)
    BY <2>1 DEF SendDigitalGift, SendWish, SettleDigitalGift, NewRow, RowsInOrder, Marked, Paid
  <2>3. Marked(n)'
    <3>1. row \in [Item -> Row] /\ row[i] \in Row
      BY DEF TypeOK
    <3>2. CASE SettleDigitalGift(i)
      <4> DEFINE d == row[i].delivered \/ DueNow(i)
      <4>1. d /\ row' = [row EXCEPT ![i].payment = "SUCCESSFUL", ![i].delivered = d]
        BY <1>3, <3>2 DEF SettleDigitalGift
      <4> HIDE DEF d
      <4>2. row'[i].delivered
        BY <3>1, <4>1 DEF Row
      <4>3. QED  BY <2>1, <4>2 DEF Marked
    <3>3. ASSUME NEW payment, NEW now \in BOOLEAN, NewRow(i, payment, now)
          PROVE  row'[i].delivered
      BY <1>3, <3>1, <3>3 DEF NewRow
    <3>4. CASE SendDigitalGift(i) \/ SendWish(i)
      <4>1. IsDue(i) \in BOOLEAN
        BY DEF IsDue
      <4>2. QED  BY <2>1, <3>3, <3>4, <4>1 DEF SendDigitalGift, SendWish, Marked
    <3>5. QED  BY <3>2, <3>4
  <2>4. told[n] <= Repeats(n) /\ pushed[n] <= told[n] /\ \A w \in Worker : ~On(w, n)
    BY <1>0, <2>2 DEF HeldFor
  <2>5. QED  BY <1>1, <2>3, <2>4, RepeatsType DEF HeldFor, On
<1>4. QED  BY <1>2, <1>3

\* What Tell makes of the notifications of n.
LEMMA ToldBy ==
  ASSUME TypeOK, NEW i \in News, NEW n \in News, Tell(i)
  PROVE  /\ told'[n] \in {told[n], told[n] + 1}
         /\ pushed[n] <= told[n] => pushed'[n] <= told'[n]
         /\ pushed[n] < told[n] => pushed'[n] < told'[n]
         /\ n # i => told'[n] = told[n] /\ pushed'[n] = pushed[n]
<1>0. told[n] \in Nat /\ pushed[n] \in Nat
  BY DEF TypeOK
<1>1. CASE told' = told
  <2>1. pushed' = pushed
    BY <1>1 DEF Tell
  <2>2. QED  BY <1>1, <2>1
<1>2. CASE told' # told
  <2>1. (n = i => told'[n] = told[n] + 1) /\ (n # i => told'[n] = told[n])
    BY <1>2, StoreType DEF Tell
  <2>2. pushed' = pushed \/ pushed' = [pushed EXCEPT ![i] = @ + 1]
    BY <1>2 DEF Tell
  <2>3. (n = i => pushed'[n] \in {pushed[n], pushed[n] + 1}) /\ (n # i => pushed'[n] = pushed[n])
    BY <2>2 DEF TypeOK
  <2>4. QED  BY <1>0, <2>1, <2>3
<1>3. QED  BY <1>1, <1>2

LEMMA AnnounceStep ==
  ASSUME TypeOK, RowsInOrder, HeldByOne, [Next]_vars, NEW n \in News,
         NEW i \in Item, Announce(i)
  PROVE  HeldFor(n)'
<1>0. HeldFor(n) /\ (Marked(n) => Marked(n)')
  BY MarksStay DEF HeldByOne, HeldFor
<1>1. /\ proc' = proc /\ duty' = duty \ {i} /\ i \in News /\ i \in duty
      /\ Repeats(n)' = Repeats(n)
  BY Sets DEF Announce, Repeats
<1>a. (told' = told /\ pushed' = pushed) \/ Tell(i)
  BY DEF Announce
<1>2. CASE n # i
  <2>1. told'[n] = told[n] /\ pushed'[n] = pushed[n]
    BY <1>1, <1>2, <1>a, ToldBy
  <2>2. Quiet(n)
    BY <1>1, <2>1 DEF Quiet, On
  <2>3. QED  BY <1>0, <2>2, QuietKeeps
<1>3. CASE n = i
  <2>1. /\ told[n] <= Repeats(n) /\ pushed[n] <= told[n] /\ Marked(n)
        /\ \A w \in Worker : ~On(w, n)
    BY <1>0, <1>1, <1>3 DEF HeldFor
  <2>2. told'[n] \in {told[n], told[n] + 1} /\ pushed'[n] <= told'[n]
    BY <1>1, <1>3, <1>a, <2>1, ToldBy
  <2>3. QED  BY <1>0, <1>1, <1>3, <2>1, <2>2, RepeatsType DEF HeldFor, On
<1>4. QED  BY <1>2, <1>3

\* A call that is repeated tells once more than anybody else may.
LEMMA RepeatStep ==
  ASSUME TypeOK, RowsInOrder, HeldByOne, [Next]_vars, NEW n \in News,
         NEW i \in FreeGift, RepeatDigitalGift(i)
  PROVE  HeldFor(n)'
<1>0. HeldFor(n) /\ (Marked(n) => Marked(n)')
  BY MarksStay DEF HeldByOne, HeldFor
<1>1. /\ proc' = proc /\ duty' = duty /\ i \in Item /\ i \in News /\ Tell(i)
      /\ repeats' = [repeats EXCEPT ![i] = @ + 1]
  BY Sets DEF RepeatDigitalGift, Gift
<1>2. CASE n # i
  <2>1. told'[n] = told[n] /\ pushed'[n] = pushed[n]
    BY <1>1, <1>2, ToldBy
  <2>2. Repeats(n)' = Repeats(n)
    BY <1>1, <1>2 DEF Repeats, TypeOK
  <2>3. Quiet(n)
    BY <1>1, <2>1, <2>2 DEF Quiet, On
  <2>4. QED  BY <1>0, <2>3, QuietKeeps
<1>3. CASE n = i
  <2>1. Repeats(n)' = Repeats(n) + 1 /\ Repeats(n) \in Nat
    BY <1>1, <1>3, RepeatsType DEF Repeats, TypeOK
  <2>2. /\ told[n] \in Nat /\ pushed[n] \in Nat
        /\ told'[n] \in {told[n], told[n] + 1} /\ pushed[n] \in Nat
        /\ pushed[n] <= told[n] => pushed'[n] <= told'[n]
        /\ pushed[n] < told[n] => pushed'[n] < told'[n]
    BY <1>1, <1>3, ToldBy, RepeatsType
  <2>3. \A w \in Worker : On(w, n)' = On(w, n) /\ proc'[w].pc = proc[w].pc
    BY <1>1 DEF On
  <2>4. /\ told'[n] <= 1 + Repeats(n)' /\ pushed'[n] <= told'[n]
        /\ told[n] <= Repeats(n) => told'[n] <= Repeats(n)'
    BY <1>0, <2>1, <2>2 DEF HeldFor
  <2>5. QED  BY <1>0, <1>1, <2>2, <2>3, <2>4 DEF HeldFor
<1>4. QED  BY <1>2, <1>3

\* A worker that wins a news holds it alone; one that does not holds nothing.
LEMMA WinStep ==
  ASSUME TypeOK, RowsInOrder, HeldByOne, [Next]_vars, NEW n \in News,
         NEW w \in Worker, NEW m \in News, NEW won \in BOOLEAN, Wins(w, m, won),
         won => ~Marked(m) /\ Marked(m)',
         told' = told, pushed' = pushed, duty' = duty, repeats' = repeats
  PROVE  HeldFor(n)'
<1>0. HeldFor(n) /\ (Marked(n) => Marked(n)')
  BY MarksStay DEF HeldByOne, HeldFor
<1>1. CASE ~won \/ m # n
  <2>1. Quiet(n)
    BY <1>1 DEF Quiet, On, Wins, Becomes, Repeats
  <2>2. QED  BY <1>0, <2>1, QuietKeeps
<1>2. CASE won /\ m = n
  <2>1. /\ told[n] <= Repeats(n) /\ pushed[n] <= told[n] /\ n \notin duty /\ Marked(n)'
        /\ Repeats(n)' = Repeats(n) /\ \A v \in Worker : ~On(v, n)
    BY <1>0, <1>2 DEF HeldFor, Repeats
  <2>2. proc'[w].pc = "notify" /\ \A v \in Worker : On(v, n)' => v = w
    BY <1>2, <2>1 DEF Wins, Becomes, On
  <2>3. QED  BY <2>1, <2>2, RepeatsType DEF HeldFor, On
<1>3. QED  BY <1>1, <1>2

LEMMA NotifyStep ==
  ASSUME TypeOK, RowsInOrder, HeldByOne, OneAtATime, [Next]_vars, NEW n \in News,
         NEW w \in Worker, Notify(w)
  PROVE  HeldFor(n)'
<1>0. HeldFor(n) /\ (Marked(n) => Marked(n)')
  BY MarksStay DEF HeldByOne, HeldFor
<1>1. /\ pushed' = pushed /\ duty' = duty /\ proc[w].pc = "notify"
      /\ Repeats(n)' = Repeats(n)
  BY DEF Notify, Repeats
<1>2. PICK m \in proc[w].on : Store(m)
  BY DEF Notify
<1>3. m \in News /\ proc[w].on = {m}
  BY <1>2 DEF TypeOK, Local, OneAtATime
<1>4. CASE told' = told
  <2>1. Becomes(w, "job", proc[w].todo, {})
    BY <1>4, WorkerTells
  <2>2. Quiet(n)
    BY <1>1, <1>4, <2>1 DEF Quiet, On, Becomes
  <2>3. QED  BY <1>0, <2>2, QuietKeeps
<1>5. CASE told' # told
  <2>1. Becomes(w, "push", proc[w].todo, {m})
    BY <1>3, <1>5, WorkerTells
  <2>2. told'[m] = told[m] + 1 /\ (n # m => told'[n] = told[n])
    BY <1>2, <1>3, <1>5, StoreType
  <2>3. CASE n # m
    <3>1. Quiet(n)
      BY <1>1, <2>1, <2>2, <2>3 DEF Quiet, On, Becomes
    <3>2. QED  BY <1>0, <3>1, QuietKeeps
  <2>4. CASE n = m
    <3>1. On(w, n)
      BY <1>3, <2>4 DEF On
    <3>2. /\ told[n] <= Repeats(n) /\ pushed[n] <= told[n] /\ n \notin duty /\ Marked(n)
          /\ \A v \in Worker : On(v, n) => v = w
      BY <1>0, <1>1, <3>1 DEF HeldFor
    <3>3. told'[n] <= 1 + Repeats(n) /\ pushed[n] < told'[n] /\ pushed[n] <= told'[n]
      BY <2>2, <2>4, <3>2, RepeatsType
    <3>4. proc'[w].pc = "push" /\ \A v \in Worker : On(v, n)' => v = w
      BY <2>1, <3>2 DEF Becomes, On
    <3>5. QED  BY <1>0, <1>1, <3>2, <3>3, <3>4 DEF HeldFor, On
  <2>5. QED  BY <2>3, <2>4
<1>6. QED  BY <1>4, <1>5

LEMMA PushStep ==
  ASSUME TypeOK, RowsInOrder, HeldByOne, [Next]_vars, NEW n \in News,
         NEW w \in Worker, SendPush(w)
  PROVE  HeldFor(n)'
<1>0. HeldFor(n) /\ (Marked(n) => Marked(n)')
  BY MarksStay DEF HeldByOne, HeldFor
<1>1. /\ told' = told /\ duty' = duty /\ proc[w].pc = "push"
      /\ Becomes(w, "job", proc[w].todo, {}) /\ Repeats(n)' = Repeats(n)
  BY WorkerMoves DEF SendPush, Repeats
<1>2. CASE ~On(w, n)
  <2>1. pushed'[n] = pushed[n]
    BY <1>2 DEF SendPush, On, TypeOK
  <2>2. Quiet(n)
    BY <1>1, <2>1 DEF Quiet, On, Becomes
  <2>3. QED  BY <1>0, <2>2, QuietKeeps
<1>3. CASE On(w, n)
  <2>1. /\ told[n] <= 1 + Repeats(n) /\ pushed[n] < told[n] /\ n \notin duty /\ Marked(n)
        /\ \A v \in Worker : On(v, n) => v = w
    BY <1>0, <1>1, <1>3 DEF HeldFor
  <2>2. pushed'[n] <= told[n]
    BY <2>1, RepeatsType DEF SendPush, TypeOK
  <2>3. \A v \in Worker : ~On(v, n)'
    BY <1>1, <2>1 DEF Becomes, On
  <2>4. QED  BY <1>0, <1>1, <2>1, <2>2, <2>3 DEF HeldFor, On
<1>4. QED  BY <1>2, <1>3

LEMMA HeldStep ==
  ASSUME TypeOK, RowsInOrder, HeldByOne, OneAtATime, [Next]_vars
  PROVE  HeldByOne'
<1> SUFFICES ASSUME NEW n \in News PROVE HeldFor(n)'
  BY DEF HeldByOne, HeldFor
<1>0. HeldFor(n) /\ (Marked(n) => Marked(n)')
  BY MarksStay DEF HeldByOne, HeldFor
<1>1. ASSUME Quiet(n)  PROVE HeldFor(n)'
  BY <1>0, <1>1, QuietKeeps
<1>2. CASE UNCHANGED <<told, pushed, duty, proc, repeats>>
  <2>1. Quiet(n)
    BY <1>2 DEF Quiet, On, Repeats
  <2>2. QED  BY <1>1, <2>1
<1>3. ASSUME NEW w \in Worker,
             Scan(w) \/ ReleaseLock(w) \/ Crash(w) \/ \E job \in Job : AcquireLock(w, job)
      PROVE  HeldFor(n)'
  <2>1. \E pc, todo : Becomes(w, pc, todo, {})
    <3>1. Scan(w) => proc[w].on = {}
      BY DEF Scan, TypeOK
    <3>2. QED  BY <1>3, <3>1, WorkerMoves
  <2>2. told' = told /\ pushed' = pushed /\ duty' = duty /\ Repeats(n)' = Repeats(n)
    BY <1>3 DEF Scan, ReleaseLock, Crash, AcquireLock, Repeats
  <2>3. Quiet(n)
    BY <2>1, <2>2 DEF Quiet, On, Becomes
  <2>4. QED  BY <1>1, <2>3
<1>4. ASSUME NEW w \in Worker, NEW m \in News, ReleaseItem(w, m)  PROVE HeldFor(n)'
  <2>1. Undelivered(m) => ~Marked(m)
    BY <1>4 DEF ReleaseItem, Undelivered, Marked
  <2>2. Undelivered(m) => Marked(m)'
    <3>1. m \in Item /\ row \in [Item -> Row] /\ row[m] \in Row
      BY <1>4 DEF ReleaseItem, TypeOK
    <3>2. ASSUME Undelivered(m)  PROVE row'[m].delivered
      <4>1. row' = [row EXCEPT ![m].delivered = TRUE]
        BY <1>4, <3>2 DEF ReleaseItem
      <4>2. QED  BY <3>1, <4>1 DEF Row
    <3>3. QED  BY <3>1, <3>2 DEF Marked
  <2>3. Undelivered(m) \in BOOLEAN /\ Wins(w, m, Undelivered(m))
    BY <1>4, WorkerWins DEF Undelivered
  <2>4. told' = told /\ pushed' = pushed /\ duty' = duty /\ repeats' = repeats
    BY <1>4 DEF ReleaseItem
  <2> DEFINE won == Undelivered(m)
  <2> HIDE DEF won
  <2>5. won \in BOOLEAN /\ Wins(w, m, won) /\ (won => ~Marked(m) /\ Marked(m)')
    BY <2>1, <2>2, <2>3 DEF won
  <2>6. QED  BY <2>4, <2>5, WinStep
<1>5. ASSUME NEW w \in Worker, NEW m \in News, ClaimReminder(w, m)  PROVE HeldFor(n)'
  <2>1. /\ Unclaimed(m) => ~Marked(m)
        /\ Marked(m)'
    BY <1>5, ScheduledAssumption DEF ClaimReminder, Unclaimed, Marked
  <2>2. Unclaimed(m) \in BOOLEAN /\ Wins(w, m, Unclaimed(m))
    BY <1>5, WorkerWins DEF Unclaimed
  <2>3. told' = told /\ pushed' = pushed /\ duty' = duty /\ repeats' = repeats
    BY <1>5 DEF ClaimReminder
  <2> DEFINE won == Unclaimed(m)
  <2> HIDE DEF won
  <2>4. won \in BOOLEAN /\ Wins(w, m, won) /\ (won => ~Marked(m) /\ Marked(m)')
    BY <2>1, <2>2 DEF won
  <2>5. QED  BY <2>3, <2>4, WinStep
<1>6. CASE \/ UNCHANGED vars \/ NextDay
           \/ \E i \in PaidGift : PaymentFails(i)
           \/ \E g \in Gift : ReadForOpen(g) \/ OpenDigitalGift(g)
           \/ \E i \in Wish : DeleteWish(i) \/ \E who \in Deleter : ReadForUnsend(i, who)
           \/ \E job \in Job : LockExpires(job)
  BY <1>2, <1>6 DEF vars, NextDay, PaymentFails, ReadForOpen, OpenDigitalGift,
     ReadForUnsend, DeleteWish, LockExpires
<1>7. CASE \/ \E g \in Gift : SendDigitalGift(g)
           \/ \E i \in Wish : SendWish(i)
           \/ \E i \in PaidGift : SettleDigitalGift(i)
  BY <1>7, DutyStep, Sets
<1>8. CASE \E i \in Item : Announce(i)
  BY <1>8, AnnounceStep
<1>a. CASE \E i \in FreeGift : RepeatDigitalGift(i)
  BY <1>a, RepeatStep
<1>9. CASE \E w \in Worker : JobStep(w)
  BY <1>3, <1>4, <1>5, <1>9, NotifyStep, PushStep DEF JobStep
<1>10. CASE \E w \in Worker : Crash(w) \/ \E job \in Job : AcquireLock(w, job)
  BY <1>3, <1>10
<1>11. QED  BY <1>6, <1>7, <1>8, <1>9, <1>10, <1>a DEF Next

LEMMA OneStep ==
  ASSUME TypeOK, OneAtATime, [Next]_vars
  PROVE  OneAtATime'
<1>1. CASE proc' = proc
  BY <1>1 DEF OneAtATime
<1>2. ASSUME NEW w \in Worker, NEW pc, NEW todo, NEW on, Becomes(w, pc, todo, on),
             on \in {{}, proc[w].on} \/ \E n \in News : on = {n}
      PROVE  OneAtATime'
  BY <1>2 DEF Becomes, OneAtATime
<1>3. ASSUME NEW w \in Worker, WorkerStep(w)  PROVE OneAtATime'
  <2>1. CASE SendPush(w) \/ ReleaseLock(w) \/ Crash(w) \/ Scan(w)
             \/ \E job \in Job : AcquireLock(w, job)
    BY <1>2, <2>1, WorkerMoves
  <2>2. CASE Notify(w)
    BY <1>2, <2>2, WorkerTells
  <2>3. ASSUME NEW n \in News, NEW won \in BOOLEAN, Wins(w, n, won)
        PROVE  OneAtATime'
    BY <1>2, <2>3 DEF Wins
  <2>4. CASE \E n \in News : ReleaseItem(w, n) \/ ClaimReminder(w, n)
    <3>1. PICK n \in News : ReleaseItem(w, n) \/ ClaimReminder(w, n)
      BY <2>4
    <3>2. \E won \in BOOLEAN : Wins(w, n, won)
      BY <3>1, WorkerWins DEF Undelivered, Unclaimed
    <3>3. QED  BY <2>3, <3>2
  <2>5. QED  BY <1>3, <2>1, <2>2, <2>4 DEF WorkerStep, JobStep
<1>4. CASE ~\E w \in Worker : WorkerStep(w)
  <2>1. proc' = proc
    BY <1>4 DEF WorkerStep, Next, vars, NextDay, SendDigitalGift, SendWish, NewRow, Announce,
       SettleDigitalGift, PaymentFails, ReadForOpen, OpenDigitalGift, ReadForUnsend, RepeatDigitalGift,
       DeleteWish, LockExpires
  <2>2. QED  BY <1>1, <2>1
<1>5. QED  BY <1>3, <1>4

-----------------------------------------------------------------------------
(***************************************************************************)
(* The inductive invariant, and what follows from it.                      *)
(***************************************************************************)
LEMMA InvInit == Init => IInv
<1> SUFFICES ASSUME Init PROVE IInv
  OBVIOUS
<1>1. TypeOK
  BY TypeInit
<1>2. \A w \in Worker : proc[w].todo = {} /\ proc[w].on = {}
  BY IdleType DEF Init
<1>3. RowsInOrder /\ OpensInOrder
  BY Sets DEF Init, RowsInOrder, OpensInOrder
<1>4. TodoInOrder /\ OneAtATime
  BY <1>2 DEF TodoInOrder, OneAtATime
<1>5. HeldByOne
  <2> SUFFICES ASSUME NEW n \in News
               PROVE  /\ told[n] = 0 /\ pushed[n] = 0 /\ Repeats(n) \in Nat
                      /\ n \notin duty /\ \A w \in Worker : ~On(w, n)
    BY DEF HeldByOne
  <2>1. QED  BY <1>1, <1>2, RepeatsType DEF Init, On
<1>6. QED  BY <1>1, <1>3, <1>4, <1>5 DEF IInv

LEMMA InvStep == IInv /\ [Next]_vars => IInv'
BY TypeStep, RowsStep, TodoStep, HeldStep, OneStep, OpensStep DEF IInv

THEOREM Invariance == Spec => []IInv
BY InvInit, InvStep, PTL DEF Spec

\* Rows, dispatches, notifications and workers have their types, and a worker
\* has a news in hand exactly while it tells it (workers/jobs.ts).
THEOREM TypeCorrect == Spec => []TypeOK
<1>1. IInv => TypeOK
  BY DEF IInv
<1>2. QED  BY <1>1, Invariance, PTL

\* Nothing arrives or is shown before its day or its payment, whichever of a
\* request, a settlement and the jobs of any instances delivers it.
THEOREM DeliveredWhenDueAndPaidHolds == Spec => []DeliveredWhenDueAndPaid
<1>1. IInv => DeliveredWhenDueAndPaid
  <2> SUFFICES ASSUME IInv, NEW i \in Item, row[i].delivered \/ Visible(i)
               PROVE  IsDue(i) /\ Paid(i)
    BY DEF DeliveredWhenDueAndPaid, Paid
  <2>1. /\ row[i].delivered => IsDue(i) /\ Paid(i)
        /\ i \in Wish => Paid(i)
    BY DEF IInv, RowsInOrder, Paid
  <2>2. i \in Gift \/ i \in Wish
    BY DEF Item
  <2>3. QED  BY <2>1, <2>2 DEF Visible
<1>2. QED  BY <1>1, Invariance, PTL

\* However locks run out, instances stop and runs overlap, nobody is told
\* twice, nor before the mark that makes it so is set (workers/jobs.ts), but
\* for the repetitions of the call that sent a free gift (sendDigitalGift).
THEOREM AnnouncedOnceHolds == Spec => []AnnouncedOnce
<1>1. IInv => AnnouncedOnce
  <2> SUFFICES ASSUME IInv, NEW n \in News
               PROVE  /\ told[n] <= 1 + Repeats(n) /\ pushed[n] <= told[n]
                      /\ n \in Item /\ told[n] > Repeats(n) => row[n].delivered
                      /\ n \in Reminder /\ told[n] > 0 => n \in claimed
    BY DEF AnnouncedOnce
  <2>1. /\ told[n] <= 1 + Repeats(n) /\ pushed[n] <= told[n]
        /\ told[n] > Repeats(n) => Marked(n)
    BY RepeatsType DEF IInv, HeldByOne
  <2>2. n \in Reminder => n \notin Item /\ Repeats(n) = 0
    BY ScheduledAssumption DEF Repeats, Gift, Item
  <2>3. QED  BY <2>1, <2>2 DEF Marked
<1>2. QED  BY <1>1, Invariance, PTL

\* Any number of taps hand the value over once, and only of a gift that was
\* delivered and paid (openDigitalGift).
THEOREM GrantedOnceHolds == Spec => []GrantedOnce
<1>1. IInv => GrantedOnce
  BY DEF IInv, OpensInOrder, GrantedOnce
<1>2. QED  BY <1>1, Invariance, PTL
-----------------------------------------------------------------------------
(***************************************************************************)
(* Calendar: birthdays on a calendar on the wall, in every year.           *)
(***************************************************************************)
\* Days before a year, and before a month of it.
YearStart(y) ==
  365 * (y - 1) + (y - 1) \div 4 - (y - 1) \div 100 + (y - 1) \div 400

Before(m, y) ==
  MonthStart[m] + (IF m > 2 /\ IsLeapYear(y) THEN 1 ELSE 0)

YearLength(y) == IF IsLeapYear(y) THEN 366 ELSE 365

\* A date whose day may lie outside its month, and one whose day does not.
AnyDate == [year : Int, month : 1 .. 12, day : Int]

CivilDate ==
  {d \in AnyDate : 1 <= d.day /\ d.day <= DaysInMonth(d.month, d.year)}

LEMMA MonthLengths ==
  ASSUME NEW y \in Int, NEW m \in 1 .. 12
  PROVE  /\ DaysInMonth(m, y) \in 28 .. 31
         /\ m \notin {2, 4, 6, 9, 11} => DaysInMonth(m, y) = 31
         /\ m \in {4, 6, 9, 11} => DaysInMonth(m, y) = 30
         /\ m = 2 => DaysInMonth(m, y) = (IF IsLeapYear(y) THEN 29 ELSE 28)
BY DEF DaysInMonth

LEMMA Befores ==
  ASSUME NEW y \in Int
  PROVE  /\ Before(1, y) = 0 /\ Before(2, y) = 31
         /\ LET leap == IF IsLeapYear(y) THEN 1 ELSE 0 IN
            /\ Before(3, y) = 59 + leap /\ Before(4, y) = 90 + leap
            /\ Before(5, y) = 120 + leap /\ Before(6, y) = 151 + leap
            /\ Before(7, y) = 181 + leap /\ Before(8, y) = 212 + leap
            /\ Before(9, y) = 243 + leap /\ Before(10, y) = 273 + leap
            /\ Before(11, y) = 304 + leap /\ Before(12, y) = 334 + leap
BY DEF Before, MonthStart

\* One month ends where the next one starts, and December with the year.
LEMMA MonthStep ==
  ASSUME NEW y \in Int, NEW m \in 1 .. 12
  PROVE  /\ Before(m, y) \in Nat
         /\ m < 12 => Before(m + 1, y) = Before(m, y) + DaysInMonth(m, y)
         /\ m = 12 => Before(m, y) + DaysInMonth(m, y) = YearLength(y)
<1>1. m \in {1, 2, 3, 4, 5, 6, 7, 8, 9, 10, 11, 12}
  OBVIOUS
<1>2. QED  BY <1>1, Befores, MonthLengths DEF YearLength

\* A later month starts after it.
LEMMA MonthEnd ==
  ASSUME NEW y \in Int, NEW m \in 1 .. 12, NEW n \in 1 .. 12, m < n
  PROVE  Before(m, y) + DaysInMonth(m, y) <= Before(n, y)
<1>1. /\ m \in {1, 2, 3, 4, 5, 6, 7, 8, 9, 10, 11, 12}
      /\ n \in {1, 2, 3, 4, 5, 6, 7, 8, 9, 10, 11, 12}
  OBVIOUS
<1>2. QED  BY <1>1, Befores, MonthLengths

LEMMA Divided ==
  ASSUME NEW y \in Int
  PROVE  /\ y \div 4 = (y - 1) \div 4 + (IF y % 4 = 0 THEN 1 ELSE 0)
         /\ y \div 100 = (y - 1) \div 100 + (IF y % 100 = 0 THEN 1 ELSE 0)
         /\ y \div 400 = (y - 1) \div 400 + (IF y % 400 = 0 THEN 1 ELSE 0)
         /\ y % 400 = 0 => y % 100 = 0
         /\ y % 100 = 0 => y % 4 = 0
         /\ y \div 4 \in Int /\ y \div 100 \in Int /\ y \div 400 \in Int
OBVIOUS

\* A year is as long as its February makes it.
LEMMA YearStep ==
  ASSUME NEW y \in Int
  PROVE  /\ YearStart(y) \in Int /\ YearLength(y) \in 365 .. 366
         /\ YearStart(y + 1) = YearStart(y) + YearLength(y)
<1>1. YearStart(y + 1) = 365 * y + y \div 4 - y \div 100 + y \div 400
  BY DEF YearStart
<1>2. (y - 1) \div 4 \in Int /\ (y - 1) \div 100 \in Int /\ (y - 1) \div 400 \in Int
  OBVIOUS
<1>3. YearLength(y) = 365 + (IF y % 4 = 0 THEN 1 ELSE 0) - (IF y % 100 = 0 THEN 1 ELSE 0)
                          + (IF y % 400 = 0 THEN 1 ELSE 0)
  BY Divided DEF YearLength, IsLeapYear
<1>4. YearLength(y) \in 365 .. 366
  BY DEF YearLength
<1>5. QED  BY <1>1, <1>2, <1>3, <1>4, Divided DEF YearStart

LEMMA DayNumberIs ==
  ASSUME NEW d \in AnyDate
  PROVE  /\ DayNumber(d) = YearStart(d.year) + Before(d.month, d.year) + d.day
         /\ DayNumber(d) \in Int
<1>1. /\ YearStart(d.year) \in Int /\ Before(d.month, d.year) \in Nat
      /\ d.day \in Int /\ d.year \in Int
  BY YearStep, MonthStep DEF AnyDate
<1>2. MonthStart[d.month] \in Int
  BY DEF AnyDate, MonthStart
<1>3. QED  BY <1>1, <1>2 DEF DayNumber, YearStart, Before

LEMMA YearsGrow ==
  ASSUME NEW y \in Int, NEW z \in Int, y <= z
  PROVE  YearStart(y) + 365 * (z - y) <= YearStart(z)
<1> DEFINE a == y - 1
           b == z - 1
<1>1. a \in Int /\ b \in Int /\ a <= b
  OBVIOUS
<1>2. /\ a \div 4 \in Int /\ a \div 100 \in Int /\ a \div 400 \in Int
      /\ b \div 4 \in Int /\ b \div 100 \in Int /\ b \div 400 \in Int
  OBVIOUS
<1>3. a \div 400 <= b \div 400
  BY <1>1
<1>4. a \div 4 - a \div 100 <= b \div 4 - b \div 100
  BY <1>1, <1>2
<1>5. YearStart(y) = 365 * a + a \div 4 - a \div 100 + a \div 400
  BY DEF YearStart
<1>6. YearStart(z) = 365 * b + b \div 4 - b \div 100 + b \div 400
  BY DEF YearStart
<1>7. QED  BY <1>1, <1>2, <1>3, <1>4, <1>5, <1>6

-----------------------------------------------------------------------------
(***************************************************************************)
(* Dates and their numbers.                                                *)
(***************************************************************************)
LEMMA Dates ==
  ASSUME NEW d \in CivilDate
  PROVE  /\ d \in AnyDate /\ d.year \in Int /\ d.month \in 1 .. 12
         /\ d.day \in 1 .. DaysInMonth(d.month, d.year)
         /\ d = [year |-> d.year, month |-> d.month, day |-> d.day]
         /\ DayNumber(d) \in Int
BY DayNumberIs, MonthLengths DEF CivilDate, AnyDate

LEMMA DateIsCivil == Date \subseteq CivilDate
BY DEF Date, CivilDate, AnyDate

\* A day of a year has a number within the year.
LEMMA WithinYear ==
  ASSUME NEW d \in CivilDate
  PROVE  /\ YearStart(d.year) < DayNumber(d)
         /\ DayNumber(d) <= YearStart(d.year) + YearLength(d.year)
<1>1. d.year \in Int /\ d.month \in 1 .. 12 /\ d.day \in Int /\ 1 <= d.day
      /\ d.day <= DaysInMonth(d.month, d.year)
      /\ DaysInMonth(d.month, d.year) \in Int
  BY Dates, MonthLengths
<1>2. DayNumber(d) = YearStart(d.year) + Before(d.month, d.year) + d.day
  BY Dates, DayNumberIs
<1>3. /\ Before(d.month, d.year) \in Nat /\ YearStart(d.year) \in Int
      /\ YearLength(d.year) \in Int
  <2>1. Before(d.month, d.year) \in Nat
    BY <1>1, MonthStep
  <2>2. YearStart(d.year) \in Int /\ YearLength(d.year) \in 365 .. 366
    BY <1>1, YearStep
  <2>3. QED  BY <2>1, <2>2
<1>4. Before(d.month, d.year) + DaysInMonth(d.month, d.year) <= YearLength(d.year)
  <2>1. CASE d.month = 12
    <3>1. Before(d.month, d.year) + DaysInMonth(d.month, d.year) = YearLength(d.year)
      BY <1>1, <2>1, MonthStep
    <3>2. QED  BY <1>3, <3>1
  <2>2. CASE d.month < 12
    <3>1. 12 \in 1 .. 12
      OBVIOUS
    <3>2. Before(12, d.year) + DaysInMonth(12, d.year) = YearLength(d.year)
      BY <1>1, <3>1, MonthStep
    <3>3. DaysInMonth(12, d.year) \in 28 .. 31 /\ Before(12, d.year) \in Nat
      BY <1>1, <3>1, MonthStep, MonthLengths
    <3>4. Before(d.month, d.year) + DaysInMonth(d.month, d.year) <= Before(12, d.year)
      BY <1>1, <2>2, <3>1, MonthEnd
    <3>5. QED  BY <1>1, <1>3, <3>2, <3>3, <3>4
  <2>3. QED  BY <1>1, <2>1, <2>2
<1>5. QED  BY <1>1, <1>2, <1>3, <1>4

\* A later year has later days.
LEMMA LaterYear ==
  ASSUME NEW d \in CivilDate, NEW e \in CivilDate, d.year < e.year
  PROVE  /\ DayNumber(d) < DayNumber(e)
         /\ DayNumber(e) - DayNumber(d) >= 1 + 365 * (e.year - d.year - 1)
<1>1. d.year \in Int /\ e.year \in Int /\ DayNumber(d) \in Int /\ DayNumber(e) \in Int
  BY Dates
<1>2. YearStart(d.year + 1) = YearStart(d.year) + YearLength(d.year)
      /\ YearStart(d.year + 1) \in Int /\ YearStart(d.year) \in Int
      /\ YearStart(e.year) \in Int
  BY <1>1, YearStep
<1>3. YearStart(d.year + 1) + 365 * (e.year - (d.year + 1)) <= YearStart(e.year)
  <2>1. d.year + 1 \in Int /\ d.year + 1 <= e.year
    BY <1>1
  <2>2. QED  BY <1>1, <2>1, YearsGrow
<1>4. DayNumber(d) <= YearStart(d.year + 1) /\ YearStart(e.year) < DayNumber(e)
  BY <1>2, WithinYear
<1>5. QED  BY <1>1, <1>2, <1>3, <1>4

LEMMA LaterMonth ==
  ASSUME NEW d \in CivilDate, NEW e \in CivilDate, d.year = e.year,
         d.month < e.month
  PROVE  DayNumber(d) < DayNumber(e)
<1>1. /\ d.year \in Int /\ d.month \in 1 .. 12 /\ e.month \in 1 .. 12
      /\ d.day \in Int /\ e.day \in Int /\ 1 <= e.day
      /\ d.day <= DaysInMonth(d.month, d.year)
      /\ DaysInMonth(d.month, d.year) \in Int
  BY Dates, MonthLengths
<1>2. /\ DayNumber(d) = YearStart(d.year) + Before(d.month, d.year) + d.day
      /\ DayNumber(e) = YearStart(d.year) + Before(e.month, d.year) + e.day
  BY Dates, DayNumberIs
<1>3. /\ Before(d.month, d.year) \in Nat /\ Before(e.month, d.year) \in Nat
      /\ YearStart(d.year) \in Int
  BY <1>1, MonthStep, YearStep
<1>4. Before(d.month, d.year) + DaysInMonth(d.month, d.year) <= Before(e.month, d.year)
  BY <1>1, MonthEnd
<1>5. QED  BY <1>1, <1>2, <1>3, <1>4

LEMMA LaterDay ==
  ASSUME NEW d \in CivilDate, NEW e \in CivilDate, d.year = e.year,
         d.month = e.month, d.day < e.day
  PROVE  DayNumber(d) < DayNumber(e)
<1>1. d.year \in Int /\ d.month \in 1 .. 12 /\ d.day \in Int /\ e.day \in Int
  BY Dates, MonthLengths
<1>2. /\ DayNumber(d) = YearStart(d.year) + Before(d.month, d.year) + d.day
      /\ DayNumber(e) = YearStart(d.year) + Before(d.month, d.year) + e.day
  BY Dates, DayNumberIs
<1>3. Before(d.month, d.year) \in Nat /\ YearStart(d.year) \in Int
  BY <1>1, MonthStep, YearStep
<1>4. QED  BY <1>1, <1>2, <1>3

\* Days are told apart by their numbers, which are in the order of the years.
LEMMA SameDay ==
  ASSUME NEW d \in CivilDate, NEW e \in CivilDate, DayNumber(d) = DayNumber(e)
  PROVE  d = e
<1>1. /\ d.year \in Int /\ e.year \in Int /\ d.month \in 1 .. 12 /\ e.month \in 1 .. 12
      /\ d.day \in Int /\ e.day \in Int /\ DayNumber(d) \in Int
  BY Dates
<1>2. d.year = e.year
  BY <1>1, LaterYear
<1>3. d.month = e.month
  BY <1>1, <1>2, LaterMonth
<1>4. d.day = e.day
  BY <1>1, <1>2, <1>3, LaterDay
<1>5. QED  BY <1>2, <1>3, <1>4, Dates

LEMMA YearOrder ==
  ASSUME NEW d \in CivilDate, NEW e \in CivilDate, DayNumber(d) <= DayNumber(e)
  PROVE  d.year <= e.year
BY Dates, LaterYear

-----------------------------------------------------------------------------
(***************************************************************************)
(* Days that are added.                                                    *)
(***************************************************************************)
\* Carrying keeps the number of a day.
LEMMA CarryKeeps ==
  ASSUME NEW d \in AnyDate
  PROVE  Carry(d) \in AnyDate /\ DayNumber(Carry(d)) = DayNumber(d)
<1> DEFINE y == d.year
           m == d.month
<1>1. y \in Int /\ m \in 1 .. 12 /\ d.day \in Int
      /\ d = [year |-> y, month |-> m, day |-> d.day]
  BY DEF AnyDate
<1>2. DaysInMonth(m, y) \in 28 .. 31
  BY <1>1, MonthLengths
<1>3. CASE d.day > DaysInMonth(m, y)
  <2> DEFINE c == FromNextMonth(d)
  <2>1. Carry(d) = c
    BY <1>1, <1>2, <1>3 DEF Carry
  <2>2. /\ c.year = (IF m = 12 THEN y + 1 ELSE y)
        /\ c.month = (IF m = 12 THEN 1 ELSE m + 1)
        /\ c.day = d.day - DaysInMonth(m, y)
        /\ c \in AnyDate
    BY <1>1, <1>2 DEF FromNextMonth, AnyDate
  <2> HIDE DEF c
  <2>3. DayNumber(c) = DayNumber(d)
    <3>1. DayNumber(c) = YearStart(c.year) + Before(c.month, c.year) + c.day
          /\ DayNumber(d) = YearStart(y) + Before(m, y) + d.day
      BY <2>2, DayNumberIs
    <3>2. YearStart(y) \in Int /\ Before(m, y) \in Nat
      BY <1>1, YearStep, MonthStep
    <3>3. CASE m < 12
      <4>1. c.year = y /\ c.month = m + 1 /\ c.day = d.day - DaysInMonth(m, y)
        BY <1>1, <2>2, <3>3
      <4>2. Before(m + 1, y) = Before(m, y) + DaysInMonth(m, y)
        BY <1>1, <3>3, MonthStep
      <4>3. QED  BY <1>1, <1>2, <3>1, <3>2, <4>1, <4>2
    <3>4. CASE m = 12
      <4>1. c.year = y + 1 /\ c.month = 1 /\ c.day = d.day - DaysInMonth(m, y)
        BY <2>2, <3>4
      <4>2. /\ YearStart(y + 1) = YearStart(y) + YearLength(y)
            /\ Before(m, y) + DaysInMonth(m, y) = YearLength(y)
            /\ Before(1, y + 1) = 0 /\ YearLength(y) \in 365 .. 366
        <5>1. y + 1 \in Int
          BY <1>1
        <5>2. YearStart(y + 1) = YearStart(y) + YearLength(y)
              /\ YearLength(y) \in 365 .. 366
          BY <1>1, YearStep
        <5>3. Before(m, y) + DaysInMonth(m, y) = YearLength(y)
          BY <1>1, <3>4, MonthStep
        <5>4. Before(1, y + 1) = 0
          BY <5>1, Befores
        <5>5. QED  BY <5>2, <5>3, <5>4
      <4>3. QED  BY <1>1, <1>2, <3>1, <3>2, <4>1, <4>2
    <3>5. QED  BY <1>1, <3>3, <3>4
  <2>4. QED  BY <2>2, <2>1, <2>3 DEF c
<1>4. CASE ~(d.day > DaysInMonth(m, y)) /\ d.day < 1
  <2> DEFINE z == IF m = 1 THEN y - 1 ELSE y
             n == IF m = 1 THEN 12 ELSE m - 1
             c == [year |-> z, month |-> n, day |-> d.day + DaysInMonth(n, z)]
  <2>1. Carry(d) = c
    BY <1>4 DEF Carry, FromLastMonth
  <2>2. z \in Int /\ n \in 1 .. 12 /\ DaysInMonth(n, z) \in Int
    BY <1>1, MonthLengths
  <2>3. c \in AnyDate
    BY <1>1, <2>2 DEF AnyDate
  <2>4. DayNumber(c) = YearStart(z) + Before(n, z) + (d.day + DaysInMonth(n, z))
        /\ DayNumber(d) = YearStart(y) + Before(m, y) + d.day
    BY <2>3, DayNumberIs
  <2>5. YearStart(z) \in Int /\ Before(n, z) \in Nat /\ YearStart(y) \in Int
        /\ Before(m, y) \in Nat
    BY <1>1, <2>2, YearStep, MonthStep
  <2>6. YearStart(z) + Before(n, z) + DaysInMonth(n, z) = YearStart(y) + Before(m, y)
    <3>1. CASE m = 1
      <4>1. /\ YearStart(z + 1) = YearStart(z) + YearLength(z) /\ z + 1 = y
            /\ Before(n, z) + DaysInMonth(n, z) = YearLength(z)
            /\ Before(m, y) = 0 /\ YearLength(z) \in 365 .. 366
        BY <1>1, <2>2, <3>1, YearStep, MonthStep, Befores
      <4>2. QED  BY <1>1, <2>2, <2>5, <4>1
    <3>2. CASE m # 1
      <4>1. z = y /\ n < 12 /\ n + 1 = m
        BY <1>1, <3>2
      <4>2. Before(n + 1, z) = Before(n, z) + DaysInMonth(n, z)
        BY <2>2, <4>1, MonthStep
      <4>3. QED  BY <2>2, <2>5, <4>1, <4>2
    <3>3. QED  BY <3>1, <3>2
  <2>7. DayNumber(c) = DayNumber(d)
    BY <1>1, <2>2, <2>4, <2>5, <2>6
  <2>8. QED  BY <2>1, <2>3, <2>7
<1>5. CASE ~(d.day > DaysInMonth(m, y)) /\ ~(d.day < 1)
  BY <1>5 DEF Carry
<1>6. QED  BY <1>3, <1>4, <1>5

\* A carry brings a day within its month, or nearer to it.
LEMMA CarryNears ==
  ASSUME NEW d \in AnyDate
  PROVE  /\ d.day > 31 => Carry(d).day \in d.day - 31 .. d.day - 28
         /\ d.day \in 1 .. 56 => Carry(d) \in CivilDate
         /\ d.day \in -27 .. 0 => Carry(d) \in CivilDate
<1> DEFINE y == d.year
           m == d.month
           c == Carry(d)
<1>1. y \in Int /\ m \in 1 .. 12 /\ d.day \in Int /\ DaysInMonth(m, y) \in 28 .. 31
  BY MonthLengths DEF AnyDate
<1>2. c \in AnyDate
  BY CarryKeeps
<1>3. CASE d.day > DaysInMonth(m, y)
  <2>1. c.day = d.day - DaysInMonth(m, y)
    BY <1>1, <1>3 DEF Carry, FromNextMonth
  <2>2. c.year \in Int /\ c.month \in 1 .. 12
    BY <1>2 DEF AnyDate
  <2>3. DaysInMonth(c.month, c.year) \in 28 .. 31
    BY <2>2, MonthLengths
  <2> HIDE DEF c
  <2>4. d.day \in 1 .. 56 => c \in CivilDate
    BY <1>1, <1>2, <1>3, <2>1, <2>3 DEF CivilDate
  <2>5. QED  BY <1>1, <1>3, <2>1, <2>4 DEF c
<1>4. CASE ~(d.day > DaysInMonth(m, y)) /\ d.day < 1
  <2> DEFINE z == IF m = 1 THEN y - 1 ELSE y
             n == IF m = 1 THEN 12 ELSE m - 1
  <2>1. c = [year |-> z, month |-> n, day |-> d.day + DaysInMonth(n, z)]
    BY <1>4 DEF Carry, FromLastMonth
  <2>2. z \in Int /\ n \in 1 .. 12
    BY <1>1
  <2>3. DaysInMonth(n, z) \in 28 .. 31
    BY <2>2, MonthLengths
  <2>4. c.year = z /\ c.month = n /\ c.day = d.day + DaysInMonth(n, z)
    BY <2>1
  <2> HIDE DEF c, z, n
  <2>5. d.day \in -27 .. 0 => c \in CivilDate
    BY <1>1, <1>2, <2>3, <2>4 DEF CivilDate
  <2>6. QED  BY <1>1, <1>4, <2>3, <2>4, <2>5 DEF c
<1>5. CASE ~(d.day > DaysInMonth(m, y)) /\ ~(d.day < 1)
  <2>1. c = d
    BY <1>5 DEF Carry
  <2>2. QED  BY <1>1, <1>5, <2>1 DEF CivilDate
<1>6. QED  BY <1>3, <1>4, <1>5

LEMMA AddDays ==
  ASSUME NEW d \in CivilDate, NEW n \in -28 .. 60
  PROVE  /\ AddCivilDays(d, n) \in CivilDate
         /\ DayNumber(AddCivilDays(d, n)) = DayNumber(d) + n
<1> DEFINE a == [d EXCEPT !.day = @ + n]
           b == Carry(a)
           c == Carry(b)
           e == Carry(c)
<1>1. d \in AnyDate /\ d.year \in Int /\ d.month \in 1 .. 12
      /\ d.day \in 1 .. DaysInMonth(d.month, d.year)
      /\ DaysInMonth(d.month, d.year) \in 28 .. 31
  BY Dates, MonthLengths
<1>2. a \in AnyDate /\ a.year = d.year /\ a.month = d.month /\ a.day = d.day + n
      /\ a.day \in -27 .. 91
  BY <1>1 DEF AnyDate
<1>3. DayNumber(a) = DayNumber(d) + n
  <2>1. DayNumber(a) = YearStart(d.year) + Before(d.month, d.year) + a.day
    BY <1>2, DayNumberIs
  <2>2. DayNumber(d) = YearStart(d.year) + Before(d.month, d.year) + d.day
    BY <1>1, DayNumberIs
  <2>3. YearStart(d.year) \in Int /\ Before(d.month, d.year) \in Nat
    BY <1>1, YearStep, MonthStep
  <2>4. QED  BY <1>1, <1>2, <2>1, <2>2, <2>3
<1>4. AddCivilDays(d, n) = e
  BY DEF AddCivilDays
<1> HIDE DEF a, b, c, e
<1>5. b \in AnyDate /\ c \in AnyDate /\ e \in AnyDate
      /\ DayNumber(e) = DayNumber(d) + n
  BY <1>2, <1>3, CarryKeeps DEF b, c, e
<1>6. ASSUME NEW x \in AnyDate, x \in CivilDate
      PROVE  Carry(x) \in CivilDate
  <2>1. x.day \in 1 .. 31
    BY <1>6, MonthLengths, Dates
  <2>2. QED  BY <2>1, CarryNears
<1>7. CASE a.day \in -27 .. 56
  <2>1. b \in CivilDate
    BY <1>2, <1>7, CarryNears DEF b
  <2>2. QED  BY <1>4, <1>5, <1>6, <2>1 DEF c, e
<1>8. CASE a.day \in 57 .. 91
  <2>1. b.day \in a.day - 31 .. a.day - 28
    BY <1>2, <1>8, CarryNears DEF b
  <2>2. CASE b.day \in 1 .. 56
    <3>1. c \in CivilDate
      BY <1>5, <2>2, CarryNears DEF c
    <3>2. QED  BY <1>4, <1>5, <1>6, <3>1 DEF e
  <2>3. CASE b.day \in 57 .. 63
    <3>1. c.day \in b.day - 31 .. b.day - 28
      BY <1>5, <2>3, CarryNears DEF c
    <3>2. c.day \in 1 .. 56
      BY <2>3, <3>1
    <3>3. QED  BY <1>4, <1>5, <3>2, CarryNears DEF e
  <2>4. QED  BY <1>8, <2>1, <2>2, <2>3
<1>9. QED  BY <1>2, <1>7, <1>8

-----------------------------------------------------------------------------
(***************************************************************************)
(* Celebrations.                                                           *)
(***************************************************************************)
\* A birthday that there is in some year.
Birthdays == {b \in [month : 1 .. 12, day : 1 .. 31] :
                b.day <= DaysInMonth(b.month, 2000)}

LEMMA BirthdayIs == Birthday \subseteq Birthdays
BY CalendarAssumption DEF Birthdays

LEMMA Birth ==
  ASSUME NEW b \in Birthdays
  PROVE  /\ b.month \in 1 .. 12 /\ b.day \in 1 .. 31
         /\ b = [month |-> b.month, day |-> b.day]
         /\ b.month = 2 => b.day <= 29
BY MonthLengths DEF Birthdays

\* It is celebrated on its date, in a year that has it; 29 February is the
\* only date that some years do not have.
LEMMA Celebration ==
  ASSUME NEW b \in Birthdays, NEW y \in Int
  PROVE  LET c == CelebrationDayInYear(b, y) IN
         /\ c \in CivilDate /\ c.year = y /\ c.month = b.month
         /\ b # LeapDay \/ IsLeapYear(y) => c.day = b.day
         /\ b = LeapDay /\ ~IsLeapYear(y) => c.day = 28
<1> DEFINE c == CelebrationDayInYear(b, y)
           n == DaysInMonth(b.month, y)
<1>1. /\ b.month \in 1 .. 12 /\ b.day \in 1 .. 31
      /\ b = [month |-> b.month, day |-> b.day]
      /\ b.month = 2 => b.day <= 29
  BY Birth
<1>2. /\ n \in 28 .. 31
      /\ b.month \notin {2, 4, 6, 9, 11} => n = 31
      /\ b.month \in {4, 6, 9, 11} => n = 30
      /\ b.month = 2 => n = (IF IsLeapYear(y) THEN 29 ELSE 28)
  BY <1>1, MonthLengths
<1>3. b.month \in {4, 6, 9, 11} => b.day <= 30
  BY <1>1, MonthLengths DEF Birthdays
<1>4. c = [year |-> y, month |-> b.month, day |-> Lesser(b.day, n)]
  BY DEF CelebrationDayInYear
<1>5. c.year = y /\ c.month = b.month /\ c.day = Lesser(b.day, n)
  BY <1>4
<1>6. c \in CivilDate
  BY <1>1, <1>2, <1>4, <1>5 DEF CivilDate, AnyDate, Lesser
<1>7. b = LeapDay <=> b.month = 2 /\ b.day = 29
  BY <1>1 DEF LeapDay
<1>8. b # LeapDay \/ IsLeapYear(y) => b.day <= n
  BY <1>1, <1>2, <1>3, <1>7
<1>9. b = LeapDay /\ ~IsLeapYear(y) => n = 28 /\ b.day = 29
  BY <1>2, <1>7
<1> HIDE DEF n, c
<1>10. QED  BY <1>1, <1>2, <1>5, <1>6, <1>8, <1>9 DEF c, Lesser

\* From one celebration to the next it is a year, of 365 or 366 days.
LEMMA YearBetween ==
  ASSUME NEW b \in Birthdays, NEW y \in Int
  PROVE  LET c == CelebrationDayInYear(b, y)
             e == CelebrationDayInYear(b, y + 1)
         IN  DayNumber(e) - DayNumber(c) \in 365 .. 366
<1> DEFINE c == CelebrationDayInYear(b, y)
           e == CelebrationDayInYear(b, y + 1)
           m == b.month
<1>1. y + 1 \in Int /\ m \in 1 .. 12 /\ b.day \in Int
  BY Birth
<1>2. /\ c \in CivilDate /\ c.year = y /\ c.month = m
      /\ b # LeapDay \/ IsLeapYear(y) => c.day = b.day
      /\ b = LeapDay /\ ~IsLeapYear(y) => c.day = 28
  BY Celebration
<1>3. /\ e \in CivilDate /\ e.year = y + 1 /\ e.month = m
      /\ b # LeapDay \/ IsLeapYear(y + 1) => e.day = b.day
      /\ b = LeapDay /\ ~IsLeapYear(y + 1) => e.day = 28
  BY <1>1, Celebration
<1> HIDE DEF c, e
<1>4. /\ DayNumber(c) = YearStart(y) + Before(m, y) + c.day
      /\ DayNumber(e) = YearStart(y + 1) + Before(m, y + 1) + e.day
  BY <1>2, <1>3, Dates, DayNumberIs
<1>5. /\ YearStart(y) \in Int /\ YearStart(y + 1) = YearStart(y) + YearLength(y)
      /\ YearLength(y) = IF IsLeapYear(y) THEN 366 ELSE 365
  BY YearStep DEF YearLength
<1>6. Before(m, y) \in Nat /\ Before(m, y + 1) \in Nat
  BY <1>1, MonthStep
<1>7. ~(IsLeapYear(y) /\ IsLeapYear(y + 1))
  BY DEF IsLeapYear
<1>8. Before(m, y + 1) - Before(m, y) =
        (IF m > 2 /\ IsLeapYear(y + 1) THEN 1 ELSE 0) - (IF m > 2 /\ IsLeapYear(y) THEN 1 ELSE 0)
  <2>1. MonthStart[m] \in Int
    BY <1>1 DEF MonthStart
  <2>2. QED  BY <2>1 DEF Before
<1>9. CASE b # LeapDay
  <2>1. c.day = b.day /\ e.day = b.day
    BY <1>2, <1>3, <1>9
  <2>2. QED  BY <1>1, <1>4, <1>5, <1>6, <1>7, <1>8, <2>1 DEF c, e
<1>10. CASE b = LeapDay
  <2>1. m = 2 /\ b.day = 29
    BY <1>10 DEF LeapDay
  <2>2. Before(m, y) = 31 /\ Before(m, y + 1) = 31
    BY <1>1, <2>1, Befores
  <2>3. QED  BY <1>2, <1>3, <1>4, <1>5, <1>7, <1>10, <2>1, <2>2 DEF c, e
<1>11. QED  BY <1>9, <1>10

\* By a calendar on the wall it is celebrated on the same day.
LEMMA OnTheWall ==
  ASSUME NEW b \in Birthdays, NEW d \in CivilDate
  PROVE  IsCelebration(b, d) <=> CelebrationDayInYear(b, d.year) = d
<1> DEFINE c == CelebrationDayInYear(b, d.year)
<1>1. /\ d.year \in Int /\ d.month \in 1 .. 12 /\ d.day \in Int
      /\ d.day <= DaysInMonth(d.month, d.year)
  BY Dates, MonthLengths
<1>2. /\ c \in CivilDate /\ c.year = d.year /\ c.month = b.month
      /\ b # LeapDay \/ IsLeapYear(d.year) => c.day = b.day
      /\ b = LeapDay /\ ~IsLeapYear(d.year) => c.day = 28
  BY <1>1, Celebration
<1> HIDE DEF c
<1>3. c = d <=> c.month = d.month /\ c.day = d.day
  BY <1>2, Dates
<1>4. Anniversary(d) = b <=> d.month = b.month /\ d.day = b.day
  BY Birth DEF Anniversary
<1>5. CASE b # LeapDay
  BY <1>2, <1>3, <1>4, <1>5 DEF IsCelebration, c
<1>6. CASE b = LeapDay
  <2> DEFINE e == AddCivilDays(d, 1)
             march == [year |-> d.year, month |-> 3, day |-> 1]
  <2>0. b.month = 2 /\ b.day = 29
    BY <1>6 DEF LeapDay
  <2>1. e \in CivilDate /\ DayNumber(e) = DayNumber(d) + 1
    BY AddDays
  <2>2. march \in CivilDate /\ DayNumber(march) = YearStart(d.year) + Before(3, d.year) + 1
    <3>1. march \in CivilDate
      BY <1>1, MonthLengths DEF CivilDate, AnyDate
    <3>2. QED  BY <3>1, Dates, DayNumberIs
  <2>3. DayNumber(d) = YearStart(d.year) + Before(d.month, d.year) + d.day
    BY Dates, DayNumberIs
  <2>4. /\ Before(2, d.year) = 31
        /\ Before(3, d.year) = 59 + (IF IsLeapYear(d.year) THEN 1 ELSE 0)
        /\ YearStart(d.year) \in Int
    BY <1>1, Befores, YearStep
  <2>5. d.month = 2 => (e = march <=> d.day = (IF IsLeapYear(d.year) THEN 29 ELSE 28))
    <3>1. e = march <=> DayNumber(e) = DayNumber(march)
      BY <2>1, <2>2, SameDay
    <3> HIDE DEF e, march
    <3>2. SUFFICES ASSUME d.month = 2
                   PROVE  e = march <=> d.day = (IF IsLeapYear(d.year) THEN 29 ELSE 28)
      OBVIOUS
    <3>3. DayNumber(d) = YearStart(d.year) + 31 + d.day
      BY <2>3, <2>4, <3>2
    <3>4. QED  BY <1>1, <2>1, <2>2, <2>4, <3>1, <3>3
  <2>6. d.month = 2 => (Anniversary(e) = [month |-> 3, day |-> 1] <=> e = march)
    <3>1. SUFFICES ASSUME d.month = 2, e.month = 3, e.day = 1
                   PROVE  e.year = d.year
      BY <2>1, Dates DEF Anniversary
    <3>2. e.year \in Int /\ DayNumber(d) \in Int
      BY <2>1, Dates
    <3>3. ~(e.year < d.year)
      BY <1>1, <2>1, <3>2, LaterYear
    <3>4. ~(d.year < e.year)
      <4>1. SUFFICES ASSUME d.year < e.year PROVE FALSE
        OBVIOUS
      <4>2. DayNumber(e) = YearStart(e.year) + Before(3, e.year) + 1
            /\ Before(3, e.year) >= 59 /\ YearStart(e.year) \in Int
            /\ Before(3, e.year) \in Int
        BY <2>1, <3>1, <3>2, DayNumberIs, Dates, Befores, YearStep
      <4>3. DayNumber(d) <= YearStart(d.year + 1)
        BY <1>1, WithinYear, YearStep
      <4>4. YearStart(d.year + 1) <= YearStart(e.year)
        <5>1. d.year + 1 \in Int /\ d.year + 1 <= e.year
          BY <1>1, <3>2, <4>1
        <5>2. YearStart(d.year + 1) + 365 * (e.year - (d.year + 1)) <= YearStart(e.year)
          BY <3>2, <5>1, YearsGrow
        <5>3. YearStart(d.year + 1) \in Int
          BY <5>1, YearStep
        <5>4. QED  BY <3>2, <4>2, <5>1, <5>2, <5>3
      <4>5. YearStart(d.year + 1) \in Int
        BY <1>1, YearStep
      <4>6. QED  BY <2>1, <3>2, <4>2, <4>3, <4>4, <4>5
    <3>5. QED  BY <1>1, <3>2, <3>3, <3>4
  <2> HIDE DEF e, march
  <2>7. IsCelebration(b, d) <=>
          \/ d.month = 2 /\ d.day = 29
          \/ d.month = 2 /\ d.day = (IF IsLeapYear(d.year) THEN 29 ELSE 28)
    BY <1>4, <1>6, <2>0, <2>5, <2>6 DEF IsCelebration, e
  <2>8. d.month = 2 /\ d.day = 29 => IsLeapYear(d.year)
    BY <1>1, MonthLengths
  <2>9. c = d <=> d.month = 2 /\ d.day = (IF IsLeapYear(d.year) THEN 29 ELSE 28)
    BY <1>2, <1>3, <1>6, <2>0
  <2>10. QED  BY <2>7, <2>8, <2>9 DEF c
<1>7. QED  BY <1>5, <1>6

-----------------------------------------------------------------------------
(***************************************************************************)
(* The clock, and what counts the days.                                    *)
(***************************************************************************)
LEMMA NextYears ==
  ASSUME NEW d \in CivilDate, NEW e \in CivilDate,
         DayNumber(e) - DayNumber(d) \in 0 .. 365
  PROVE  e.year \in d.year .. d.year + 1
<1>1. d.year \in Int /\ e.year \in Int /\ DayNumber(d) \in Int /\ DayNumber(e) \in Int
  BY Dates
<1>2. d.year <= e.year
  BY <1>1, YearOrder
<1>3. ~(d.year + 1 < e.year)
  <2>1. SUFFICES ASSUME d.year + 1 < e.year PROVE FALSE
    OBVIOUS
  <2>2. DayNumber(e) - DayNumber(d) >= 1 + 365 * (e.year - d.year - 1)
    BY <1>1, <2>1, LaterYear
  <2>3. QED  BY <1>1, <2>1, <2>2
<1>4. QED  BY <1>1, <1>2, <1>3

LEMMA SameDate ==
  ASSUME NEW d \in CivilDate
  PROVE  AddCivilDays(d, 0) = d
<1>1. AddCivilDays(d, 0) \in CivilDate /\ DayNumber(AddCivilDays(d, 0)) = DayNumber(d)
  BY AddDays, Dates
<1>2. QED  BY <1>1, SameDay

LEMMA ThereAndBack ==
  ASSUME NEW d \in CivilDate
  PROVE  AddCivilDays(AddCivilDays(d, 1), -1) = d
<1> DEFINE e == AddCivilDays(d, 1)
<1>1. e \in CivilDate /\ DayNumber(e) = DayNumber(d) + 1 /\ DayNumber(d) \in Int
  BY AddDays, Dates
<1> HIDE DEF e
<1>2. AddCivilDays(e, -1) \in CivilDate /\ DayNumber(AddCivilDays(e, -1)) = DayNumber(e) + (-1)
  BY <1>1, AddDays
<1>3. DayNumber(AddCivilDays(e, -1)) = DayNumber(d)
  BY <1>1, <1>2
<1>4. QED  BY <1>2, <1>3, SameDay DEF e

\* Where somebody lives it is the server's date, or the one before or after it.
LEMMA LocalDate ==
  ASSUME CalendarTypeOK
  PROVE  /\ utc \in CivilDate /\ utc.year >= 1
         /\ Today \in CivilDate
         /\ \E n \in -1 .. 1 : Today = AddCivilDays(utc, n)
         /\ Today.year \in utc.year - 1 .. utc.year + 1
<1>1. utc \in CivilDate /\ utc.year >= 1 /\ utc.year \in Int
  BY DateIsCivil DEF CalendarTypeOK, Date
<1>2. \E n \in -1 .. 1 : Today = AddCivilDays(utc, n)
  <2>1. Today \in {utc, AddCivilDays(utc, 1), AddCivilDays(utc, -1)}
    BY DEF Today, ZonedNow
  <2>2. utc = AddCivilDays(utc, 0)
    BY <1>1, SameDate
  <2>3. QED  BY <2>1, <2>2
<1>3. PICK n \in -1 .. 1 : Today = AddCivilDays(utc, n)
  BY <1>2
<1>4. Today \in CivilDate /\ DayNumber(Today) = DayNumber(utc) + n
  <2>1. n \in -28 .. 60
    OBVIOUS
  <2>2. QED  BY <1>1, <1>3, <2>1, AddDays
<1>5. DayNumber(utc) \in Int /\ Today.year \in Int
  BY <1>1, <1>4, Dates
<1>6. CASE n \in 0 .. 1
  <2>1. Today.year \in utc.year .. utc.year + 1
    BY <1>1, <1>4, <1>5, <1>6, NextYears
  <2>2. QED  BY <1>1, <1>2, <1>4, <2>1
<1>7. CASE n = -1
  <2>1. utc.year \in Today.year .. Today.year + 1
    BY <1>1, <1>4, <1>5, <1>7, NextYears
  <2>2. QED  BY <1>1, <1>2, <1>4, <1>5, <2>1
<1>8. QED  BY <1>6, <1>7

\* What a countdown says: days to go, until the celebration of a year.
LEMMA CountdownIs ==
  ASSUME NEW b \in Birthdays, NEW d \in CivilDate
  PROVE  LET c == DayNumber(CelebrationDayInYear(b, d.year))
             e == DayNumber(CelebrationDayInYear(b, d.year + 1))
             n == Countdown(b, d)
         IN  /\ c \in Int /\ e \in Int /\ DayNumber(d) \in Int /\ d.year \in Int
             /\ e > DayNumber(d) /\ e - c \in 365 .. 366
             /\ n = [days |-> n.days, year |-> n.year]
             /\ c >= DayNumber(d) => n.days = c - DayNumber(d) /\ n.year = d.year
             /\ c < DayNumber(d) => n.days = e - DayNumber(d) /\ n.year = d.year + 1
<1> DEFINE p == CelebrationDayInYear(b, d.year)
           q == CelebrationDayInYear(b, d.year + 1)
           c == DayNumber(p)
           e == DayNumber(q)
           n == Countdown(b, d)
<1>1. d.year \in Int /\ d.year + 1 \in Int /\ DayNumber(d) \in Int
  BY Dates
<1>2. p \in CivilDate /\ q \in CivilDate /\ q.year = d.year + 1
  BY <1>1, Celebration
<1>3. c \in Int /\ e \in Int
  BY <1>2, Dates
<1>4. e > DayNumber(d)
  <2> HIDE DEF q
  <2>1. d.year < q.year
    BY <1>1, <1>2
  <2>2. QED  BY <1>1, <1>2, <1>3, <2>1, LaterYear
<1>5. e - c \in 365 .. 366
  BY <1>1, YearBetween
<1>6. n = IF c - DayNumber(d) >= 0
            THEN [days |-> c - DayNumber(d), year |-> d.year]
            ELSE [days |-> e - DayNumber(d), year |-> d.year + 1]
  BY DEF Countdown, CivilDaysBetween
<1> HIDE DEF p, q, n
<1>7. n = [days |-> n.days, year |-> n.year]
  BY <1>6
<1>8. c >= DayNumber(d) => n.days = c - DayNumber(d) /\ n.year = d.year
  BY <1>1, <1>3, <1>6
<1>9. c < DayNumber(d) => n.days = e - DayNumber(d) /\ n.year = d.year + 1
  BY <1>1, <1>3, <1>6
<1>10. QED  BY <1>1, <1>3, <1>4, <1>5, <1>7, <1>8, <1>9 DEF p, q, n

\* No days are left on the day itself, and on no other.
LEMMA CountdownOver ==
  ASSUME NEW b \in Birthdays, NEW d \in CivilDate
  PROVE  Countdown(b, d).days = 0 <=> IsCelebration(b, d)
<1> DEFINE p == CelebrationDayInYear(b, d.year)
<1>1. d.year \in Int
  BY Dates
<1>2. p \in CivilDate
  BY <1>1, Celebration
<1>3. p = d <=> DayNumber(p) = DayNumber(d)
  BY <1>2, SameDay
<1>4. Countdown(b, d).days = 0 <=> DayNumber(p) = DayNumber(d)
  BY CountdownIs
<1>5. QED  BY <1>3, <1>4, OnTheWall

\* The day before it says one more.
LEMMA OneLess ==
  ASSUME NEW b \in Birthdays, NEW d \in CivilDate
  PROVE  LET now == Countdown(b, d)
             new == Countdown(b, AddCivilDays(d, 1))
         IN  IF now.days > 0
               THEN new = [now EXCEPT !.days = @ - 1]
               ELSE new.year = now.year + 1 /\ new.days \in {364, 365}
<1> DEFINE t == AddCivilDays(d, 1)
           now == Countdown(b, d)
           new == Countdown(b, t)
           y == d.year
           D == DayNumber(d)
           c(z) == DayNumber(CelebrationDayInYear(b, z))
<1>1. t \in CivilDate /\ DayNumber(t) = D + 1 /\ D \in Int
  BY AddDays, Dates
<1>2. t.year \in y .. y + 1 /\ y \in Int /\ t.year \in Int
  BY <1>1, NextYears, Dates
<1>3. /\ c(y) \in Int /\ c(y + 1) \in Int /\ c(y + 1) > D /\ c(y + 1) - c(y) \in 365 .. 366
      /\ now = [days |-> now.days, year |-> now.year]
      /\ c(y) >= D => now.days = c(y) - D /\ now.year = y
      /\ c(y) < D => now.days = c(y + 1) - D /\ now.year = y + 1
  BY CountdownIs
<1>4. /\ c(t.year) \in Int /\ c(t.year + 1) \in Int
      /\ c(t.year + 1) - c(t.year) \in 365 .. 366
      /\ new = [days |-> new.days, year |-> new.year]
      /\ c(t.year) >= D + 1 => new.days = c(t.year) - (D + 1) /\ new.year = t.year
      /\ c(t.year) < D + 1 => new.days = c(t.year + 1) - (D + 1) /\ new.year = t.year + 1
  BY <1>1, CountdownIs
<1>5. CASE t.year = y
  <2>1. /\ c(y) >= D + 1 => new.days = c(y) - (D + 1) /\ new.year = y
        /\ c(y) < D + 1 => new.days = c(y + 1) - (D + 1) /\ new.year = y + 1
    BY <1>4, <1>5
  <2> HIDE DEF t, now, new, D, c
  <2>2. CASE now.days > 0
    <3>1. new.days = now.days - 1 /\ new.year = now.year
      BY <1>1, <1>2, <1>3, <2>1, <2>2
    <3>2. QED  BY <1>3, <1>4, <2>2, <3>1 DEF now, new, t
  <2>3. CASE ~(now.days > 0)
    <3>1. new.year = now.year + 1 /\ new.days \in {364, 365}
      BY <1>1, <1>2, <1>3, <2>1, <2>3
    <3>2. QED  BY <2>3, <3>1 DEF now, new, t
  <2>4. QED  BY <2>2, <2>3
<1>6. CASE t.year = y + 1
  <2>1. CelebrationDayInYear(b, y) \in CivilDate /\ CelebrationDayInYear(b, y).year = y
    BY <1>2, Celebration
  <2>2. c(y) < D + 1
    <3>1. CelebrationDayInYear(b, y).year < t.year
      BY <1>2, <1>6, <2>1
    <3>2. QED  BY <1>1, <1>3, <2>1, <3>1, LaterYear
  <2>3. /\ c(y + 1) \in Int
        /\ c(y + 1) >= D + 1 => new.days = c(y + 1) - (D + 1) /\ new.year = y + 1
    BY <1>4, <1>6
  <2> HIDE DEF t, now, new, D, c
  <2>4. CASE now.days > 0
    <3>1. new.days = now.days - 1 /\ new.year = now.year
      BY <1>1, <1>2, <1>3, <2>2, <2>3, <2>4
    <3>2. QED  BY <1>3, <1>4, <2>4, <3>1 DEF now, new, t
  <2>5. CASE ~(now.days > 0)
    <3>1. new.year = now.year + 1 /\ new.days \in {364, 365}
      BY <1>1, <1>2, <1>3, <2>2, <2>3, <2>5
    <3>2. QED  BY <2>5, <3>1 DEF now, new, t
  <2>6. QED  BY <2>4, <2>5
<1>7. QED  BY <1>2, <1>5, <1>6

\* A database query for the day finds it.
LEMMA CelebratedOn ==
  ASSUME NEW b \in Birthdays, NEW d \in CivilDate, IsCelebration(b, d)
  PROVE  b \in MayCelebrate(d)
<1>1. d.year \in Int
  BY Dates
<1>2. /\ CelebrationDayInYear(b, d.year) = d
      /\ d.month = b.month
      /\ b # LeapDay \/ IsLeapYear(d.year) => d.day = b.day
      /\ b = LeapDay /\ ~IsLeapYear(d.year) => d.day = 28
  BY <1>1, OnTheWall, Celebration
<1>3. CASE b # LeapDay \/ IsLeapYear(d.year)
  <2>1. b = [month |-> d.month, day |-> d.day]
    BY <1>2, <1>3, Birth
  <2>2. QED  BY <2>1 DEF MayCelebrate, Anniversary
<1>4. CASE b = LeapDay /\ ~IsLeapYear(d.year)
  <2>1. d.month = 2 /\ d.day = 28
    BY <1>2, <1>4 DEF LeapDay
  <2>2. QED  BY <1>4, <2>1 DEF MayCelebrate
<1>5. QED  BY <1>3, <1>4

\* On every day ahead that is a celebration, the worker finds the birthday:
\* among its candidates, that many days away, in the year of that day.
LEMMA FoundAhead ==
  ASSUME NEW b \in Birthdays, NEW d \in CivilDate, NEW n \in AllowedOffsets,
         IsCelebration(b, AddCivilDays(d, n))
  PROVE  /\ b \in CandidateDates(d)
         /\ Countdown(b, d).days = n
         /\ Countdown(b, d).year = AddCivilDays(d, n).year
<1> DEFINE e == AddCivilDays(d, n)
           c(z) == DayNumber(CelebrationDayInYear(b, z))
<1>0. n \in 0 .. 60
  BY CalendarAssumption
<1>1. e \in CivilDate /\ DayNumber(e) = DayNumber(d) + n /\ DayNumber(d) \in Int
  <2>1. n \in -28 .. 60
    BY <1>0
  <2>2. QED  BY <2>1, AddDays, Dates
<1>2. CelebrationDayInYear(b, e.year) = e
  BY <1>1, OnTheWall
<1>3. e.year \in d.year .. d.year + 1 /\ d.year \in Int /\ e.year \in Int
  BY <1>0, <1>1, NextYears, Dates
<1>4. b \in MayCelebrate(e)
  BY <1>1, CelebratedOn
<1>5. b \in CandidateDates(d)
  BY <1>4 DEF CandidateDates
<1>6. /\ c(d.year) \in Int /\ c(d.year + 1) \in Int
      /\ c(d.year + 1) - c(d.year) \in 365 .. 366
      /\ c(d.year) >= DayNumber(d) =>
           Countdown(b, d).days = c(d.year) - DayNumber(d) /\ Countdown(b, d).year = d.year
      /\ c(d.year) < DayNumber(d) =>
           /\ Countdown(b, d).days = c(d.year + 1) - DayNumber(d)
           /\ Countdown(b, d).year = d.year + 1
  BY CountdownIs
<1>7. c(e.year) = DayNumber(d) + n
  BY <1>1, <1>2
<1> HIDE DEF e, c
<1>8. Countdown(b, d).days = n /\ Countdown(b, d).year = e.year
  <2>1. CASE e.year = d.year
    BY <1>0, <1>1, <1>6, <1>7, <2>1
  <2>2. CASE e.year = d.year + 1
    BY <1>0, <1>1, <1>3, <1>6, <1>7, <2>2
  <2>3. QED  BY <1>3, <2>1, <2>2
<1>9. QED  BY <1>5, <1>8 DEF e

-----------------------------------------------------------------------------
(***************************************************************************)
(* What is shown, what is sent and who is found.                           *)
(***************************************************************************)
\* A celebrant's page, card and place in the feed, whatever the date.
LEMMA ViewsAgree == CalendarTypeOK => EveryViewShowsTheDay
<1> SUFFICES ASSUME CalendarTypeOK PROVE EveryViewShowsTheDay
  OBVIOUS
<1> DEFINE b == entry.birthday
           p == profile.birthday
<1>1. b \in Birthdays /\ p \in Birthdays /\ profile.year \in Nat /\ MinAge \in Nat
  <2>1. b \in Birthday
    BY DEF CalendarTypeOK
  <2>2. profile \in [birthday : Birthday, year : BirthYears]
    BY DEF CalendarTypeOK, Persons
  <2>3. p \in Birthday /\ profile.year \in BirthYears
    BY <2>2
  <2>4. b \in Birthdays /\ p \in Birthdays
    BY <2>1, <2>3, BirthdayIs
  <2>5. BirthYears \subseteq Nat /\ MinAge \in Nat
    BY CalendarAssumption
  <2>6. QED  BY <2>3, <2>4, <2>5
<1>2. utc \in CivilDate /\ Today \in CivilDate
      /\ Today.year \in utc.year - 1 .. utc.year + 1
      /\ Today.year \in Int /\ utc.year \in Int
  BY LocalDate, Dates
<1>3. Today.day \in DayOnPage(b, Today.month, Today.year) <=> IsCelebration(b, Today)
  <2> DEFINE c == CelebrationDayInYear(b, Today.year)
  <2>1. c \in CivilDate /\ c.year = Today.year
    BY <1>1, <1>2, Celebration
  <2>2. c = Today <=> c.month = Today.month /\ c.day = Today.day
    BY <1>2, <2>1, Dates
  <2>3. Today.day \in DayOnPage(b, Today.month, Today.year)
          <=> c.month = Today.month /\ c.day = Today.day
    BY DEF DayOnPage
  <2>4. QED  BY <1>1, <1>2, <2>2, <2>3, OnTheWall
<1>4. Countdown(b, utc).days = 0 <=> IsCelebration(b, utc)
  BY <1>1, <1>2, CountdownOver
<1>5. /\ ShownToday(b).page <=> IsCelebration(b, Today)
      /\ ShownToday(b).card <=> IsCelebration(b, utc)
  BY <1>3, <1>4 DEF ShownToday
<1>6. BirthdayToday <=> IsCelebration(p, Today)
  BY <1>1, <1>2, OnTheWall DEF BirthdayToday
<1>7. ASSUME BirthdayToday
      PROVE  /\ Eligible <=> profile.year + MinAge <= Today.year
             /\ CameOfAge(profile, Today) <=> profile.year + MinAge <= Today.year
             /\ p \in UNION {MayCelebrate(AddCivilDays(utc, n)) : n \in -1 .. 1}
  <2> DEFINE y == profile.year + MinAge
             c == CelebrationDayInYear(p, y)
  <2>1. CelebrationDayInYear(p, Today.year) = Today
    BY <1>7 DEF BirthdayToday
  <2>2. Eligible <=> y <= Today.year
    <3>1. AgeOn(profile, Today) = Today.year - profile.year
      <4>1. Today.month \in Int /\ Today.day \in Int
        BY <1>2, Dates
      <4>2. QED  BY <1>1, <1>2, <2>1, <4>1 DEF AgeOn
    <3>2. QED  BY <1>1, <1>2, <3>1 DEF Eligible
  <2>3. y \in Int /\ c \in CivilDate /\ c.year = y /\ c.month = p.month
    BY <1>1, Celebration
  <2>4. CivilDaysBetween(c, Today) >= 0 <=> y <= Today.year
    <3>1. DayNumber(c) \in Int /\ DayNumber(Today) \in Int
      BY <1>2, <2>3, Dates
    <3>2. CASE y = Today.year
      <4>1. c = Today
        BY <2>1, <3>2
      <4>2. QED  BY <1>2, <3>1, <3>2, <4>1 DEF CivilDaysBetween
    <3>3. CASE y < Today.year
      <4>1. DayNumber(c) < DayNumber(Today)
        BY <1>2, <2>3, <3>3, LaterYear
      <4>2. QED  BY <1>2, <2>3, <3>1, <3>3, <4>1 DEF CivilDaysBetween
    <3>4. CASE Today.year < y
      <4>1. DayNumber(Today) < DayNumber(c)
        BY <1>2, <2>3, <3>4, LaterYear
      <4>2. QED  BY <1>2, <2>3, <3>1, <3>4, <4>1 DEF CivilDaysBetween
    <3>5. QED  BY <1>2, <2>3, <3>2, <3>3, <3>4
  <2>5. CameOfAge(profile, Today) <=> CivilDaysBetween(c, Today) >= 0
    <3> DEFINE S == {[year |-> y, month |-> p.month, day |-> n] :
                       n \in {28, 29, p.day}}
    <3>1. CameOfAge(profile, Today) <=>
            \E e \in S : /\ e.day <= DaysInMonth(e.month, e.year)
                         /\ IsCelebration(p, e) /\ CivilDaysBetween(e, Today) >= 0
      BY DEF CameOfAge
    <3>2. ASSUME NEW e \in S, e.day <= DaysInMonth(e.month, e.year)
          PROVE  IsCelebration(p, e) <=> e = c
      <4>1. p.month \in 1 .. 12 /\ p.day \in 1 .. 31
        BY <1>1, Birth
      <4>2. e \in CivilDate /\ e.year = y
        BY <2>3, <3>2, <4>1 DEF CivilDate, AnyDate
      <4>3. QED  BY <1>1, <4>2, OnTheWall
    <3>3. c \in S /\ c.day <= DaysInMonth(c.month, c.year)
      <4>1. c.day = p.day \/ c.day = 28
        BY <1>1, <2>3, Celebration
      <4>2. c = [year |-> c.year, month |-> c.month, day |-> c.day]
            /\ c.day <= DaysInMonth(c.month, c.year)
        BY <2>3, Dates, MonthLengths
      <4>3. QED  BY <2>3, <4>1, <4>2
    <3> HIDE DEF S, c
    <3>4. QED  BY <3>1, <3>2, <3>3
  <2>6. p \in UNION {MayCelebrate(AddCivilDays(utc, n)) : n \in -1 .. 1}
    <3>1. p \in MayCelebrate(Today)
      BY <1>1, <1>2, <1>6, <1>7, CelebratedOn
    <3>2. QED  BY <3>1, LocalDate
  <2>7. QED  BY <2>2, <2>4, <2>5, <2>6
<1>8. ASSUME BirthdayToday, Eligible
      PROVE  profile.year <= LatestBirthYear
  BY <1>1, <1>2, <1>7, <1>8 DEF LatestBirthYear
<1>9. InFeed <=> /\ optedIn /\ IsCelebration(p, Today)
                 /\ CameOfAge(profile, Today)
  BY <1>6, <1>7, <1>8 DEF InFeed
<1>10. QED  BY <1>5, <1>9 DEF EveryViewShowsTheDay

\* Rows are numbered by the edits that made them.
Numbered == entry.id <= edits + 1

\* A run since the digest hour has claimed every key that the day calls for,
\* and no midnight has passed since.
Reminded ==
  ran /\ entry.is = "kept" =>
    \A n \in Offsets :
      IsCelebration(entry.birthday, AddCivilDays(Today, n)) =>
        <<entry.id, AddCivilDays(Today, n).year, n>> \in reminded

\* No date changes where somebody lives before their midnight.
LEMMA SameToday ==
  ASSUME CalendarTypeOK, Tick, ZonedNow(zone).slot # Slots - 1
  PROVE  Today' = Today
<1>1. /\ slot \in 0 .. Slots - 1 /\ zone \in Int /\ -Slots < zone /\ zone < Slots
      /\ Slots \in Nat \ {0} /\ zone' = zone
  BY CalendarAssumption DEF CalendarTypeOK, Tick, people
<1>2. utc \in CivilDate
  BY LocalDate
<1>3. CASE slot = Slots - 1
  <2>1. slot' = 0 /\ utc' = AddCivilDays(utc, 1)
    BY <1>1, <1>3 DEF Tick
  <2>2. CASE zone < 0
    <3>1. Today = utc
      BY <1>1, <1>3, <2>2 DEF Today, ZonedNow
    <3>2. Today' = AddCivilDays(utc', -1)
      BY <1>1, <2>1, <2>2 DEF Today, ZonedNow
    <3>3. QED  BY <1>2, <2>1, <3>1, <3>2, ThereAndBack
  <2>3. CASE zone = 0
    BY <1>1, <1>3, <2>3 DEF ZonedNow
  <2>4. CASE zone > 0
    <3>1. Today = AddCivilDays(utc, 1)
      BY <1>1, <1>3, <2>4 DEF Today, ZonedNow
    <3>2. Today' = utc'
      BY <1>1, <2>1, <2>4 DEF Today, ZonedNow
    <3>3. QED  BY <2>1, <3>1, <3>2
  <2>5. QED  BY <1>1, <2>2, <2>3, <2>4
<1>4. CASE slot # Slots - 1
  <2>1. slot' = slot + 1 /\ utc' = utc
    BY <1>1, <1>4 DEF Tick
  <2>2. CASE slot + zone < 0
    BY <1>1, <1>4, <2>1, <2>2 DEF Today, ZonedNow
  <2>3. CASE slot + zone >= 0 /\ slot + zone < Slots
    BY <1>1, <1>4, <2>1, <2>3 DEF Today, ZonedNow
  <2>4. CASE slot + zone >= Slots
    BY <1>1, <1>4, <2>1, <2>4 DEF Today, ZonedNow
  <2>5. QED  BY <1>1, <2>2, <2>3, <2>4
<1>5. QED  BY <1>3, <1>4

LEMMA EntryType ==
  ASSUME CalendarTypeOK
  PROVE  /\ entry.id \in 1 .. MaxEdits + 1 /\ entry.is \in {"kept", "deleted"}
         /\ entry.birthday \in Birthday /\ entry.birthday \in Birthdays
         /\ entry = [id |-> entry.id, is |-> entry.is, birthday |-> entry.birthday]
         /\ MaxEdits \in Nat /\ MaxMissed \in Nat
<1>1. entry \in [id : 1 .. MaxEdits + 1, is : {"kept", "deleted"}, birthday : Birthday]
  BY DEF CalendarTypeOK
<1>2. MaxEdits \in Nat /\ MaxMissed \in Nat
  BY CalendarAssumption
<1>3. QED  BY <1>1, <1>2, BirthdayIs

LEMMA CalendarStarts == CalendarInit => CalendarTypeOK /\ Numbered /\ Reminded
<1> SUFFICES ASSUME CalendarInit PROVE CalendarTypeOK /\ Numbered /\ Reminded
  OBVIOUS
<1>1. utc \in Date /\ last \in Date
  <2>1. PICK s \in Spans : utc = s[1] /\ last = s[2]
    BY DEF CalendarInit
  <2>2. s \in Date \X Date
    BY CalendarAssumption
  <2>3. QED  BY <2>1, <2>2
<1>2. MaxEdits \in Nat /\ MaxMissed \in Nat /\ Slots \in Nat \ {0}
  BY CalendarAssumption
<1>3. profile \in Persons /\ profile.birthday \in Birthday
  BY DEF CalendarInit, Persons
<1>4. entry \in [id : 1 .. MaxEdits + 1, is : {"kept", "deleted"}, birthday : Birthday]
      /\ entry.id = 1
  BY <1>2, <1>3 DEF CalendarInit
<1>5. CalendarTypeOK
  <2>1. /\ slot = 0 /\ zone \in Zone /\ optedIn = FALSE /\ reminded = {}
        /\ ran = FALSE /\ missed = 0 /\ edits = 0
    BY DEF CalendarInit
  <2>2. 0 \in 0 .. Slots - 1 /\ 0 \in 0 .. MaxMissed /\ 0 \in 0 .. MaxEdits
    BY <1>2
  <2>3. QED  BY <1>1, <1>3, <1>4, <2>1, <2>2 DEF CalendarTypeOK
<1>6. Numbered /\ Reminded
  BY <1>4 DEF CalendarInit, Numbered, Reminded
<1>7. QED  BY <1>5, <1>6

\* Time passes.
LEMMA TickKeeps ==
  ASSUME CalendarTypeOK, Numbered, Reminded, Tick
  PROVE  (CalendarTypeOK /\ Numbered /\ Reminded)'
<1>1. /\ UNCHANGED <<last, zone, profile, optedIn, entry, reminded, edits>>
      /\ utc' = (IF slot = Slots - 1 THEN AddCivilDays(utc, 1) ELSE utc)
      /\ slot' = (slot + 1) % Slots
      /\ ran' = (ran /\ ~(ZonedNow(zone).slot = Slots - 1))
      /\ missed' \in {missed, missed + 1} /\ missed' <= MaxMissed
  BY DEF Tick, people
<1>2. utc' \in Date
  <2>1. utc \in Date /\ utc \in CivilDate /\ utc.year \in Nat \ {0}
    BY DateIsCivil DEF CalendarTypeOK, Date
  <2> DEFINE t == AddCivilDays(utc, 1)
  <2>2. t \in CivilDate /\ DayNumber(t) = DayNumber(utc) + 1 /\ DayNumber(utc) \in Int
    BY <2>1, AddDays, Dates
  <2>3. t.year \in utc.year .. utc.year + 1
    BY <2>1, <2>2, NextYears
  <2> HIDE DEF t
  <2>4. t.year \in Nat \ {0} /\ t.month \in 1 .. 12 /\ t.day \in 1 .. 31
        /\ t.day <= DaysInMonth(t.month, t.year)
        /\ t = [year |-> t.year, month |-> t.month, day |-> t.day]
    BY <2>1, <2>2, <2>3, Dates, MonthLengths
  <2>5. t \in Date
    BY <2>4 DEF Date
  <2>6. QED  BY <1>1, <2>1, <2>5 DEF t
<1>3. slot' \in 0 .. Slots - 1
  <2>1. slot \in 0 .. Slots - 1 /\ Slots \in Nat \ {0}
    BY CalendarAssumption DEF CalendarTypeOK
  <2>2. QED  BY <1>1, <2>1
<1>4. missed' \in 0 .. MaxMissed
  BY <1>1, EntryType DEF CalendarTypeOK
<1>5. CalendarTypeOK'
  BY <1>1, <1>2, <1>3, <1>4 DEF CalendarTypeOK, Persons
<1>6. Numbered'
  BY <1>1 DEF Numbered
<1>7. Reminded'
  <2>1. SUFFICES ASSUME ran', entry'.is = "kept" PROVE Reminded'
    BY DEF Reminded
  <2>2. ran /\ ZonedNow(zone).slot # Slots - 1
    BY <1>1, <2>1
  <2>3. Today' = Today
    BY <2>2, SameToday
  <2>4. QED  BY <1>1, <2>2, <2>3 DEF Reminded, IsCelebration
<1>8. QED  BY <1>5, <1>6, <1>7

\* The reminder job: what is due that day is claimed, and nothing is taken back.
LEMMA RunKeeps ==
  ASSUME CalendarTypeOK, Numbered, Reminded, RunBirthdayReminders
  PROVE  (CalendarTypeOK /\ Numbered /\ Reminded)'
<1> DEFINE b == entry.birthday
           next == Countdown(b, Today)
           due == /\ entry.is = "kept" /\ b \in CandidateDates(Today)
                  /\ next.days \in Offsets
<1>1. /\ UNCHANGED <<utc, slot, last, zone, profile, optedIn, entry, missed, edits>>
      /\ ran' = TRUE
      /\ reminded' = IF due THEN reminded \union {<<entry.id, next.year, next.days>>}
                            ELSE reminded
  BY DEF RunBirthdayReminders, people
<1>2. Today' = Today
  BY <1>1 DEF Today, ZonedNow
<1>3. /\ Today \in CivilDate /\ Today.year \in Nat
      /\ b \in Birthdays /\ entry.id \in 1 .. MaxEdits + 1
  <2>1. utc.year \in Int /\ utc.year >= 1 /\ Today.year \in utc.year - 1 .. utc.year + 1
    BY LocalDate, Dates
  <2>2. QED  BY <2>1, LocalDate, EntryType
<1>4. next.year \in Nat
  <2>1. Today.year \in Int /\ (next.year = Today.year \/ next.year = Today.year + 1)
    BY <1>3, CountdownIs
  <2>2. QED  BY <1>3, <2>1
<1> HIDE DEF b, next
<1>5. reminded' \subseteq (1 .. MaxEdits + 1) \X Nat \X Offsets
  <2>1. reminded \subseteq (1 .. MaxEdits + 1) \X Nat \X Offsets
    BY DEF CalendarTypeOK
  <2>2. due => <<entry.id, next.year, next.days>> \in (1 .. MaxEdits + 1) \X Nat \X Offsets
    BY <1>3, <1>4
  <2>3. QED  BY <1>1, <2>1, <2>2
<1>6. CalendarTypeOK'
  BY <1>1, <1>5 DEF CalendarTypeOK, Persons
<1>7. Numbered'
  BY <1>1 DEF Numbered
<1>8. Reminded'
  <2>1. SUFFICES ASSUME entry.is = "kept", NEW n \in Offsets,
                        IsCelebration(b, AddCivilDays(Today, n))
                 PROVE  <<entry.id, AddCivilDays(Today, n).year, n>> \in reminded'
    BY <1>1, <1>2 DEF Reminded, b, IsCelebration
  <2>2. n \in AllowedOffsets
    BY CalendarAssumption
  <2>3. b \in CandidateDates(Today) /\ next.days = n
        /\ next.year = AddCivilDays(Today, n).year
    BY <1>3, <2>1, <2>2, FoundAhead DEF next
  <2>4. QED  BY <1>1, <2>1, <2>3
<1>9. QED  BY <1>6, <1>7, <1>8

\* A row that is corrected, deleted or written again waits for the next run;
\* a deleted one needs none.
LEMMA EditKeeps ==
  ASSUME CalendarTypeOK, Numbered, NEW e, Edit(e),
         e \in [id : 1 .. entry.id + 1, is : {"kept", "deleted"}, birthday : Birthday],
         ran' \in BOOLEAN, ran' = FALSE \/ e.is = "deleted"
  PROVE  (CalendarTypeOK /\ Numbered /\ Reminded)'
<1>1. /\ edits < MaxEdits /\ edits' = edits + 1 /\ entry' = e
      /\ UNCHANGED <<utc, slot, last, zone, profile, optedIn, reminded, missed>>
  BY DEF Edit, people
<1>2. /\ edits \in 0 .. MaxEdits /\ MaxEdits \in Nat /\ entry.id \in 1 .. MaxEdits + 1
      /\ entry.id <= edits + 1
  BY EntryType DEF CalendarTypeOK, Numbered
<1>3. e.id \in 1 .. entry.id + 1
  OBVIOUS
<1>4. edits' \in 0 .. MaxEdits /\ e.id \in 1 .. MaxEdits + 1 /\ e.id <= edits' + 1
  BY <1>1, <1>2, <1>3
<1>5. entry' \in [id : 1 .. MaxEdits + 1, is : {"kept", "deleted"}, birthday : Birthday]
  BY <1>1, <1>4
<1>6. CalendarTypeOK'
  BY <1>1, <1>4, <1>5 DEF CalendarTypeOK, Persons
<1>7. QED  BY <1>1, <1>4, <1>6 DEF Numbered, Reminded

LEMMA RowsKeep ==
  ASSUME CalendarTypeOK, Numbered, NEW b \in Birthday,
         \/ UpdateTrackedBirthday(b) \/ CreateTrackedBirthday(b)
         \/ ConfirmContactImport(b) \/ DeleteTrackedBirthday
  PROVE  (CalendarTypeOK /\ Numbered /\ Reminded)'
<1>1. /\ entry.id \in 1 .. MaxEdits + 1 /\ MaxEdits \in Nat
      /\ entry.is \in {"kept", "deleted"} /\ entry.birthday \in Birthday
      /\ entry = [id |-> entry.id, is |-> entry.is, birthday |-> entry.birthday]
  BY EntryType
<1>2. ran \in BOOLEAN
  BY DEF CalendarTypeOK
<1> DEFINE Rows == [id : 1 .. entry.id + 1, is : {"kept", "deleted"}, birthday : Birthday]
<1>3. CASE UpdateTrackedBirthday(b)
  <2>1. [entry EXCEPT !.birthday = b] \in Rows
    BY <1>1
  <2>2. QED  BY <1>3, <2>1, EditKeeps DEF UpdateTrackedBirthday
<1>4. CASE CreateTrackedBirthday(b)
  <2>1. [id |-> entry.id + 1, is |-> "kept", birthday |-> b] \in Rows
    <3>1. entry.id + 1 \in 1 .. entry.id + 1
      BY <1>1
    <3>2. QED  BY <3>1
  <2>2. QED  BY <1>4, <2>1, EditKeeps DEF CreateTrackedBirthday
<1>5. CASE ConfirmContactImport(b)
  <2> DEFINE i == [entry EXCEPT !.is = "kept"]
  <2>1. i \in Rows
    BY <1>1
  <2>2. [entry EXCEPT !.is = "kept", !.birthday = b] = [i EXCEPT !.birthday = b]
    OBVIOUS
  <2> HIDE DEF i
  <2>3. [entry EXCEPT !.is = "kept", !.birthday = b] \in Rows
    BY <2>1, <2>2
  <2>4. QED  BY <1>5, <2>3, EditKeeps DEF ConfirmContactImport
<1>6. CASE DeleteTrackedBirthday
  <2>1. [entry EXCEPT !.is = "deleted"] \in Rows /\ [entry EXCEPT !.is = "deleted"].is = "deleted"
    BY <1>1
  <2>2. QED  BY <1>2, <1>6, <2>1, EditKeeps DEF DeleteTrackedBirthday
<1>7. QED  BY <1>3, <1>4, <1>5, <1>6

\* Neither the profile nor the privacy settings touch the calendar's row.
LEMMA ProfileKeeps ==
  ASSUME CalendarTypeOK, Numbered, Reminded,
         \/ \E p \in Persons : UpdateProfile(p)
         \/ \E on \in BOOLEAN : UpdateGlobalSettings(on)
  PROVE  (CalendarTypeOK /\ Numbered /\ Reminded)'
<1>1. /\ UNCHANGED <<utc, slot, last, zone, entry, reminded, ran, missed>>
      /\ profile' \in Persons /\ optedIn' \in BOOLEAN
      /\ edits' \in {edits, edits + 1} /\ edits' \in 0 .. MaxEdits
  <2>1. CASE \E p \in Persons : UpdateProfile(p)
    BY <2>1, EntryType DEF UpdateProfile, CalendarTypeOK
  <2>2. CASE \E on \in BOOLEAN : UpdateGlobalSettings(on)
    BY <2>2 DEF UpdateGlobalSettings, CalendarTypeOK
  <2>3. QED  BY <2>1, <2>2
<1>2. Today' = Today
  BY <1>1 DEF Today, ZonedNow
<1>3. CalendarTypeOK'
  BY <1>1 DEF CalendarTypeOK, Persons
<1>4. Numbered'
  BY <1>1, EntryType DEF Numbered, CalendarTypeOK
<1>5. Reminded'
  BY <1>1, <1>2 DEF Reminded, IsCelebration
<1>6. QED  BY <1>3, <1>4, <1>5

LEMMA CalendarStep ==
  ASSUME CalendarTypeOK, Numbered, Reminded, [CalendarNext]_calendarVars
  PROVE  (CalendarTypeOK /\ Numbered /\ Reminded)'
<1>1. CASE Tick
  BY <1>1, TickKeeps
<1>2. CASE RunBirthdayReminders
  BY <1>2, RunKeeps
<1>3. CASE DeleteTrackedBirthday
  BY <1>3, RowsKeep, EntryType
<1>4. CASE \E b \in Birthday : \/ UpdateTrackedBirthday(b) \/ CreateTrackedBirthday(b)
                               \/ ConfirmContactImport(b)
  BY <1>4, RowsKeep
<1>5. CASE \/ \E p \in Persons : UpdateProfile(p)
           \/ \E on \in BOOLEAN : UpdateGlobalSettings(on)
  BY <1>5, ProfileKeeps
<1>6. CASE UNCHANGED calendarVars
  <2>1. Today' = Today
    BY <1>6 DEF calendarVars, Today, ZonedNow
  <2>2. CalendarTypeOK' /\ Numbered'
    BY <1>6 DEF calendarVars, CalendarTypeOK, Numbered, Persons
  <2>3. Reminded'
    BY <1>6, <2>1 DEF calendarVars, Reminded, IsCelebration
  <2>4. QED  BY <2>2, <2>3
<1>7. QED  BY <1>1, <1>2, <1>3, <1>4, <1>5, <1>6 DEF CalendarNext

\* The clock, the rows and the keys have their types; every date that the
\* clock shows is one that there is.
THEOREM CalendarTypes == CalendarSpec => []CalendarTypeOK
<1>1. CalendarTypeOK /\ Numbered /\ Reminded /\ [CalendarNext]_calendarVars
        => (CalendarTypeOK /\ Numbered /\ Reminded)'
  BY CalendarStep
<1>2. QED  BY <1>1, CalendarStarts, PTL DEF CalendarSpec

\* In every year the month's page, the countdown and the strangers' feed show
\* a birthday on the day that a calendar on the wall has it, whatever the zone
\* (birthday.service.ts: "the calendar and the countdown never disagree").
THEOREM EveryViewShowsTheDayHolds == CalendarSpec => []EveryViewShowsTheDay
BY CalendarTypes, ViewsAgree, PTL

\* Whenever the job has run on a day, the owner has had every reminder that
\* the day calls for, through edits, deletions and imports (reminder.service.ts).
THEOREM RemindedInTimeHolds == CalendarSpec => []RemindedInTime
<1>1. CalendarTypeOK /\ Numbered /\ Reminded /\ [CalendarNext]_calendarVars
        => (CalendarTypeOK /\ Numbered /\ Reminded)'
  BY CalendarStep
<1>2. Reminded => RemindedInTime
  BY DEF Reminded, RemindedInTime
<1>3. QED  BY <1>1, <1>2, CalendarStarts, PTL DEF CalendarSpec

\* Over leap days, year ends and centuries, the countdown goes down by one
\* every day and starts again only after the day itself (getBirthdayCountdown).
THEOREM CountsDownHolds == CalendarSpec => CountsDown
<1> DEFINE Down == entry' = entry /\ utc' # utc =>
             LET now == Countdown(entry.birthday, utc)
                 new == Countdown(entry.birthday, utc') IN
             IF now.days > 0 THEN new = [now EXCEPT !.days = @ - 1]
                             ELSE new.year = now.year + 1 /\ new.days \in {364, 365}
<1>1. CalendarTypeOK /\ [CalendarNext]_calendarVars => [Down]_calendarVars
  <2>1. SUFFICES ASSUME CalendarTypeOK, CalendarNext, entry' = entry, utc' # utc
                 PROVE  Down
    OBVIOUS
  <2>2. Tick
    BY <2>1 DEF CalendarNext, RunBirthdayReminders, DeleteTrackedBirthday,
         UpdateTrackedBirthday, CreateTrackedBirthday, ConfirmContactImport, Edit,
         UpdateProfile, UpdateGlobalSettings
  <2>3. utc' = AddCivilDays(utc, 1)
    BY <2>1, <2>2 DEF Tick
  <2>4. utc \in CivilDate /\ entry.birthday \in Birthdays
    BY <2>1, LocalDate, EntryType
  <2>5. QED  BY <2>3, <2>4, OneLess
<1>2. QED  BY <1>1, CalendarTypes, PTL DEF CalendarSpec, CountsDown
=============================================================================
