----------------------------- MODULE Scheduled -----------------------------
(***************************************************************************)
(* What is written now and arrives later: digital gifts with and without   *)
(* a payment (digitalGift.service.ts), birthday wishes (wish.service.ts)   *)
(* and birthday reminders (reminder.service.ts); the cron jobs that        *)
(* release them on several instances under a Redis lock (workers/jobs.ts,  *)
(* lib/redis.ts); the notifications they cause (notification.service.ts);  *)
(* and recipients and senders who open and unsend them meanwhile.          *)
(***************************************************************************)
EXTENDS Integers, FiniteSets

CONSTANTS
  FreeGift, PaidGift, Wish,  \* rows somebody may send
  Reminder,   \* a person, a year and an offset: keys of reminder dispatches
  Due,        \* the day each of them is for
  MaxDay,     \* bound: the last day
  Worker,     \* instances that run the cron jobs
  MaxFaults,  \* bound: instances that stop in the middle of something
  MaxRepeats  \* bound: how often the call that sent a free gift is repeated

Gift == FreeGift \union PaidGift
Item == Gift \union Wish
News == Item \union Reminder
Day  == 0 .. MaxDay
Job  == {"scheduled-deliveries", "birthday-reminders"}

ASSUME ScheduledAssumption ==
  /\ MaxDay \in Nat /\ MaxFaults \in Nat /\ MaxRepeats \in Nat
  /\ Due \in [News -> Day]
  /\ Gift \intersect Wish = {} /\ Item \intersect Reminder = {}  \* three tables

VARIABLES
  today,
  row,       \* digital_gifts and birthday_messages
  claimed,   \* reminder dedupe keys in notification_dispatches
  told,      \* notifications that were stored, of each item and reminder
  pushed,    \* pushes that were sent, of each
  duty,      \* items a request or a settlement is about to notify of
  opening,   \* requests that found a gift closed and will open it
  granted,   \* how often the value of a gift was handed over
  repeats,   \* how often the call that sent a free gift was made again
  unsending, \* wishes somebody was allowed to delete and will
  locks,     \* lock keys present in Redis
  proc,      \* what every worker does
  faults

vars == <<today, row, claimed, told, pushed, duty, opening, granted, repeats,
          unsending, locks, proc, faults>>

RowStatus == {"none", "kept", "deleted"}
Row   == [is : RowStatus, payment : {"NONE", "PENDING", "SUCCESSFUL", "FAILED"},
          delivered : BOOLEAN, opened : BOOLEAN]
Local == [pc : {"idle", "scan", "job", "notify", "push"},
          job : Job, todo : SUBSET News, on : SUBSET News]
Idle  == [pc |-> "idle", job |-> "birthday-reminders", todo |-> {}, on |-> {}]

TypeOK ==
  /\ today \in Day
  /\ row \in [Item -> Row]
  /\ claimed \subseteq Reminder
  /\ told \in [News -> Nat] /\ pushed \in [News -> Nat]
  /\ duty \subseteq Item /\ unsending \subseteq Wish
  /\ opening \in [Gift -> 0 .. 2] /\ granted \in [Gift -> Nat]
  /\ repeats \in [FreeGift -> 0 .. MaxRepeats]
  /\ locks \subseteq Job
  /\ proc \in [Worker -> Local]
  /\ \A w \in Worker : proc[w].pc \in {"notify", "push"} <=> proc[w].on # {}
  /\ faults \in 0 .. MaxFaults

Init ==
  /\ today = 0
  /\ row = [i \in Item |-> [is |-> "none", payment |-> "NONE",
                            delivered |-> FALSE, opened |-> FALSE]]
  /\ claimed = {}
  /\ told = [n \in News |-> 0] /\ pushed = [n \in News |-> 0]
  /\ duty = {} /\ unsending = {}
  /\ opening = [g \in Gift |-> 0] /\ granted = [g \in Gift |-> 0]
  /\ repeats = [g \in FreeGift |-> 0]
  /\ locks = {}
  /\ proc = [w \in Worker |-> Idle]
  /\ faults = 0

rows  == <<row, duty>>
opens == <<opening, granted, repeats>>  \* what calls about a gift change
jobs  == <<locks, proc>>

-----------------------------------------------------------------------------
NextDay ==
  /\ today < MaxDay
  /\ today' = today + 1
  /\ UNCHANGED <<rows, claimed, told, pushed, opens, unsending, jobs, faults>>

IsDue(n) == Due[n] <= today

(***************************************************************************)
(* notify: stored unless the type is muted, then pushed unless the user    *)
(* said no or it is a quiet hour.  A wish that was deleted is not          *)
(* announced.                                                              *)
(***************************************************************************)
Gone(n) == n \in Wish /\ row[n].is = "deleted"

Store(n) ==
  \/ ~Gone(n) /\ told' = [told EXCEPT ![n] = @ + 1]
  \/ UNCHANGED told

-----------------------------------------------------------------------------
(***************************************************************************)
(* Sending.  A free gift or a wish that is due is delivered at once; a     *)
(* paid gift waits for its payment.                                        *)
(***************************************************************************)
NewRow(i, payment, now) ==
  /\ row[i].is = "none"
  /\ row' = [row EXCEPT ![i] = [is |-> "kept", payment |-> payment,
                                delivered |-> now, opened |-> FALSE]]
  /\ duty' = IF now THEN duty \union {i} ELSE duty
  /\ UNCHANGED <<today, claimed, told, pushed, opens, unsending, jobs, faults>>

SendDigitalGift(i) ==
  IF i \in PaidGift THEN NewRow(i, "PENDING", FALSE) ELSE NewRow(i, "NONE", IsDue(i))

SendWish(i) == NewRow(i, "NONE", IsDue(i))

DueNow(i) == IsDue(i)

\* settleDigitalGift, once per payment: delivers what is due.
SettleDigitalGift(i) ==
  /\ row[i].payment = "PENDING"
  /\ row' = [row EXCEPT ![i].payment = "SUCCESSFUL",
                        ![i].delivered = @ \/ DueNow(i)]
  /\ duty' = IF DueNow(i) THEN duty \union {i} ELSE duty
  /\ UNCHANGED <<today, claimed, told, pushed, opens, unsending, jobs, faults>>

PaymentFails(i) ==
  /\ row[i].payment = "PENDING"
  /\ row' = [row EXCEPT ![i].payment = "FAILED"]
  /\ UNCHANGED <<today, duty, claimed, told, pushed, opens, unsending, jobs, faults>>

\* A request notifies, and pushes if the notification was stored.
Tell(i) ==
  /\ Store(i)
  /\ \/ told' # told /\ pushed' = [pushed EXCEPT ![i] = @ + 1]
     \/ UNCHANGED pushed

Repeatable(i) == i \in FreeGift /\ IsDue(i)

\* The same call again, with its key: sendDigitalGift finds the gift that is
\* there and notifies its recipient if the time asked for has come, whether the
\* job delivered the gift yet or not.  (A repeated paid call notifies nobody.)
RepeatDigitalGift(i) ==
  /\ Repeatable(i) /\ row[i].is # "none"
  /\ repeats[i] < MaxRepeats
  /\ repeats' = [repeats EXCEPT ![i] = @ + 1]
  /\ Tell(i)
  /\ UNCHANGED <<today, rows, claimed, opening, granted, unsending, jobs, faults>>

\* The request or the settlement tells the recipient, or its process stops.
Announce(i) ==
  /\ i \in duty
  /\ duty' = duty \ {i}
  /\ \/ Tell(i) /\ UNCHANGED faults
     \/ /\ faults < MaxFaults /\ faults' = faults + 1
        /\ UNCHANGED <<told, pushed>>
  /\ UNCHANGED <<today, row, claimed, opens, unsending, jobs>>

-----------------------------------------------------------------------------
(***************************************************************************)
(* Opening a gift, by requests that overlap; deleting a wish.              *)
(***************************************************************************)
Ready(g) == row[g].delivered /\ row[g].payment \in {"NONE", "SUCCESSFUL"}

ReadForOpen(g) ==
  /\ Ready(g) /\ ~row[g].opened
  /\ opening[g] < 2
  /\ opening' = [opening EXCEPT ![g] = @ + 1]
  /\ UNCHANGED <<today, rows, claimed, told, pushed, granted, repeats, unsending,
                 jobs, faults>>

\* Slip: the transaction trusts what was read before it.
TrustRead(g) == row[g].delivered

StillClosed(g) == ~row[g].opened

\* The code or the credit, and a row in both gift histories.
HandOver(g) == [granted EXCEPT ![g] = @ + 1]

\* The transaction: whoever sets openedAt mints the code or credits the wallet.
OpenDigitalGift(g) ==
  /\ opening[g] > 0
  /\ opening' = [opening EXCEPT ![g] = @ - 1]
  /\ row' = [row EXCEPT ![g].opened = TRUE]
  /\ granted' = IF StillClosed(g) THEN HandOver(g) ELSE granted
  /\ UNCHANGED <<today, duty, claimed, told, pushed, repeats, unsending, jobs, faults>>

\* The recipient may always remove a wish, its sender while it is scheduled.
Deleter == {"sender", "recipient"}
MayDelete(i, who) == who = "sender" => ~row[i].delivered

ReadForUnsend(i, who) ==
  /\ row[i].is = "kept" /\ MayDelete(i, who)
  /\ i \notin unsending
  /\ unsending' = unsending \union {i}
  /\ UNCHANGED <<today, rows, claimed, told, pushed, opens, jobs, faults>>

\* deleteWish deletes by id, for a sender too when it was delivered meanwhile.
DeleteWish(i) ==
  /\ i \in unsending
  /\ unsending' = unsending \ {i}
  /\ row' = [row EXCEPT ![i].is = "deleted"]
  /\ UNCHANGED <<today, duty, claimed, told, pushed, opens, jobs, faults>>

-----------------------------------------------------------------------------
(***************************************************************************)
(* Jobs.  runJob skips a tick when the instance still runs the job or      *)
(* another holds its lock.  The lock goes away when its time to live is    *)
(* over, and whoever finishes deletes the key, be it its own or not.       *)
(***************************************************************************)
AcquireLock(w, job) ==
  /\ proc[w].pc = "idle"
  /\ job \notin locks
  /\ locks' = locks \union {job}
  /\ proc' = [proc EXCEPT ![w] = [Idle EXCEPT !.pc = "scan", !.job = job]]
  /\ UNCHANGED <<today, rows, claimed, told, pushed, opens, unsending, faults>>

\* Slip: a lock without a time to live.
Never(job) == job \notin Job

MayExpire(job) == job \in locks

LockExpires(job) ==
  /\ MayExpire(job)
  /\ locks' = locks \ {job}
  /\ UNCHANGED <<today, rows, claimed, told, pushed, opens, unsending, proc, faults>>

\* Slip: unpaid gifts are released with the others.
Unchecked(i) == row[i].is = "kept"

Payable(i) == row[i].payment \in {"NONE", "SUCCESSFUL"}

Releasable(i) == /\ row[i].is = "kept" /\ ~row[i].delivered
                 /\ IsDue(i) /\ Payable(i)

\* The rows a run works through; reminders are for the day of the run only.
Scan(w) ==
  /\ proc[w].pc = "scan"
  /\ proc' = [proc EXCEPT ![w].pc = "job",
       ![w].todo = IF proc[w].job = "birthday-reminders"
                     THEN {n \in Reminder : Due[n] = today}
                     ELSE {i \in Item : Releasable(i)}]
  /\ UNCHANGED <<today, rows, claimed, told, pushed, opens, unsending, locks, faults>>

\* Slip: found and delivered by id.
ById(i) == row[i].is = "kept"

Undelivered(i) == row[i].is = "kept" /\ ~row[i].delivered

\* releaseScheduledDigitalGifts and releaseScheduledWishes: the update is
\* conditional, and only who made it goes on to tell the recipient.
ReleaseItem(w, i) ==
  LET won == Undelivered(i) IN
  /\ proc[w].pc = "job" /\ i \in proc[w].todo \intersect Item
  /\ row' = IF won THEN [row EXCEPT ![i].delivered = TRUE] ELSE row
  /\ proc' = [proc EXCEPT ![w].todo = @ \ {i},
                          ![w].pc = IF won THEN "notify" ELSE "job",
                          ![w].on = IF won THEN {i} ELSE {}]
  /\ UNCHANGED <<today, duty, claimed, told, pushed, opens, unsending, locks, faults>>

Unclaimed(n) == n \notin claimed

\* remindUser claims the key before it notifies.
ClaimReminder(w, n) ==
  LET won == Unclaimed(n) IN
  /\ proc[w].pc = "job" /\ n \in proc[w].todo \intersect Reminder
  /\ claimed' = claimed \union {n}
  /\ proc' = [proc EXCEPT ![w].todo = @ \ {n},
                          ![w].pc = IF won THEN "notify" ELSE "job",
                          ![w].on = IF won THEN {n} ELSE {}]
  /\ UNCHANGED <<today, rows, told, pushed, opens, unsending, locks, faults>>

Notify(w) ==
  /\ proc[w].pc = "notify"
  /\ \E n \in proc[w].on : Store(n)
  /\ proc' = [proc EXCEPT ![w].pc = IF told' = told THEN "job" ELSE "push",
                          ![w].on = IF told' = told THEN {} ELSE @]
  /\ UNCHANGED <<today, rows, claimed, pushed, opens, unsending, locks, faults>>

\* sendPush, or no device, a quiet hour, or push turned off.
SendPush(w) ==
  /\ proc[w].pc = "push"
  /\ \/ pushed' = [n \in News |-> IF n \in proc[w].on THEN pushed[n] + 1 ELSE pushed[n]]
     \/ UNCHANGED pushed
  /\ proc' = [proc EXCEPT ![w].pc = "job", ![w].on = {}]
  /\ UNCHANGED <<today, rows, claimed, told, opens, unsending, locks, faults>>

ReleaseLock(w) ==
  /\ proc[w].pc = "job" /\ proc[w].todo = {}
  /\ locks' = locks \ {proc[w].job}
  /\ proc' = [proc EXCEPT ![w] = Idle]
  /\ UNCHANGED <<today, rows, claimed, told, pushed, opens, unsending, faults>>

Crash(w) ==
  /\ proc[w].pc # "idle"
  /\ faults < MaxFaults /\ faults' = faults + 1
  /\ proc' = [proc EXCEPT ![w] = Idle]
  /\ UNCHANGED <<today, rows, claimed, told, pushed, opens, unsending, locks>>

-----------------------------------------------------------------------------
JobStep(w) ==
  \/ Scan(w) \/ Notify(w) \/ SendPush(w) \/ ReleaseLock(w)
  \/ \E n \in News : ReleaseItem(w, n) \/ ClaimReminder(w, n)

Next ==
  \/ NextDay
  \/ \E g \in Gift : SendDigitalGift(g)
  \/ \E i \in Wish : SendWish(i)
  \/ \E i \in Item : Announce(i)
  \/ \E i \in PaidGift : SettleDigitalGift(i) \/ PaymentFails(i)
  \/ \E g \in Gift : ReadForOpen(g) \/ OpenDigitalGift(g)
  \/ \E i \in FreeGift : RepeatDigitalGift(i)
  \/ \E i \in Wish : DeleteWish(i) \/ \E who \in Deleter : ReadForUnsend(i, who)
  \/ \E job \in Job : LockExpires(job) \/ \E w \in Worker : AcquireLock(w, job)
  \/ \E w \in Worker : JobStep(w) \/ Crash(w)

Spec == Init /\ [][Next]_vars

\* Days pass, locks expire, started runs go on, and cron ticks keep coming to
\* some instance that is up.
Fairness ==
  /\ WF_vars(NextDay)
  /\ \A job \in Job : WF_vars(LockExpires(job))
  /\ \A w \in Worker : WF_vars(JobStep(w))
  /\ SF_vars(\E w \in Worker : AcquireLock(w, "scheduled-deliveries"))

FairSpec == Spec /\ Fairness

-----------------------------------------------------------------------------
(***************************************************************************)
(* Correctness.                                                            *)
(***************************************************************************)
\* What the recipient's lists and getDigitalGift show.
Visible(i) == IF i \in Gift THEN row[i].delivered
                             ELSE row[i].is = "kept" /\ IsDue(i)

\* digitalGift.service.ts: "a scheduled voucher with a failed card never
\* lands", and nothing is delivered or shown before its day, whoever delivers it.
DeliveredWhenDueAndPaid ==
  \A i \in Item : row[i].delivered \/ Visible(i) =>
                   IsDue(i) /\ row[i].payment \in {"NONE", "SUCCESSFUL"}

\* jobs.ts: "every job is idempotent in its own right so a lost lock never
\* double-sends", nor does a restart mid-batch: an item, or a reminder at one
\* offset, is announced once at most, an item not before it is delivered and a
\* reminder not before it is claimed, and what is pushed is also in the list.
\* Only the call that sent a free gift, made again with its key, announces
\* again: once for each repetition, and maybe before the gift is delivered.
Repeats(n) == IF n \in FreeGift THEN repeats[n] ELSE 0

AnnouncedOnce ==
  \A n \in News :
    /\ told[n] <= 1 + Repeats(n) /\ pushed[n] <= told[n]
    /\ n \in Item /\ told[n] > Repeats(n) => row[n].delivered
    /\ n \in Reminder /\ told[n] > 0 => n \in claimed

\* openDigitalGift: "two taps cannot produce two codes", and no value is
\* handed over before it is paid.
GrantedOnce == \A g \in Gift : /\ granted[g] <= 1
                               /\ granted[g] = 1 => row[g].opened /\ Ready(g)

\* A due gift whose payment settled, or that needs none, is delivered, even
\* when an instance stopped while it held the lock.
DueIsDelivered ==
  \A g \in Gift :
    row[g].is = "kept" /\ row[g].payment \in {"NONE", "SUCCESSFUL"} ~> row[g].delivered
=============================================================================
