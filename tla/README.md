# Verification of birthdayApp

TLA+ models of birthdayApp, the TLC runs that check them on small instances, and
TLAPS proofs of its safety for every instance. Paths below
are relative to the repository's root; `api` stands for `apps/api/src`.

`PROJECT.json` lists the components, the runs, the source lines behind every
definition (`map`), the slip each property is known to catch (`mutants`), the
hazards and the theorems. Where code and documentation disagree, section 6 says so.

## 1. The system

An Express API over PostgreSQL (Prisma) and Redis, a worker with cron jobs, an
Expo mobile app and a React admin dashboard. All state that matters is in
PostgreSQL; requests, webhooks and jobs are asynchronous functions that interleave
at every `await` and share nothing but the database. Two kinds of transaction
decide what can go wrong:

- `serializableTransaction` (`api/lib/prisma.ts`) is SERIALIZABLE and retried on a
  conflict: **one step** in the models;
- a plain `prisma.$transaction` is READ COMMITTED: its writes commit together, but
  what it (or the code before it) read may be stale unless the row is locked
  (`FOR UPDATE`) or the write is conditional (`updateMany` with a status):
  **read and write are separate steps**.

CHECK constraints (`apps/api/prisma/migrations/20260915000100_integrity_checks`) and
unique indexes abort a transaction that would break them; the models have them where
a step depends on them. The apps hold a cache of what the API answered, and calls on
their way, for as long as a screen or a session lives; that is the only other state
with a protocol of its own.

### Components

| component (code) | state | operations | what makes it correct | module |
|---|---|---|---|---|
| payments (`api/services/payment.service.ts`) | payments, payment_webhook_events | create, initiate, settle, webhook, verify, sweep | effects once, only for money taken; a missed callback is made up for | Payments, proved |
| payment providers (`api/providers/payments/`) | at the provider | initiate, verify, callback, refund | a retried call takes the money once | part of Payments, Orders |
| wallet and payouts (`payout.service.ts` and all writers of wallets) | wallets, wallet_transactions, payouts | top-up, spend, gift credit, withdraw, complete, fail | the statement adds up; a withdrawal is accounted for | Wallet, proved |
| orders, stock, delivery (`order.service.ts`) | orders, deliveries, products.stock | checkout, settle, cancel, expire, deliver, administrators' updates | goods only for money; no unit lost | Orders, proved |
| refunds (`refund.service.ts`, `admin.service.ts`) | refunds | refund, manual completion | never more back than was paid, never without a row | Orders, proved |
| coupons (`coupon.service.ts`) | promotions.usageCount, redemptions | evaluate, redeem, release | uses counted are uses held | Orders, partly, proved |
| wishlist reservations (`reservation.service.ts`) | gift_reservations, wishlist_items | reserve, cancel, mark purchased or delivered | no duplicate gifts | Reservations, proved |
| wishlists (`wishlist.service.ts`) | wishlist_items | edit, delete; who may see | edits never strand a claim | Reservations, Friends, partly, proved |
| group gifts (`groupGift.service.ts`) | group_gifts, contributions, members | create, invite, contribute, update, cancel, buy, reveal | raised is what settled; never over the goal; the beneficiary learns nothing | GroupGifts, Circles, proved |
| digital gifts, wishes (`digitalGift.service.ts`, `wish.service.ts`) | digital_gifts, birthday_messages | send, settle, release, open, unsend | released once, when due and paid | Scheduled, proved |
| reminders, notifications (`reminder.service.ts`, `notification.service.ts`) | notification_dispatches, notifications | claim, notify, push | once per person, year and offset | Scheduled, Calendar, proved |
| jobs and locks (`api/workers/jobs.ts`, `api/lib/redis.ts`) | Redis locks | acquire, run, expire, release | idempotent without the lock | Scheduled, proved |
| birthdays and dates (`birthday.service.ts`, `packages/shared/src/utils/birthday.ts`, `api/lib/dates.ts`) | tracked_birthdays | create, edit, import, delete, count down | every view shows the day | Calendar, proved |
| strangers' birthdays (`global.service.ts`) | privacy, cheers | opt in, list, cheer | adults only, on their day | Calendar, Friends, proved |
| friends, blocks, access (`friend.service.ts`, `access.service.ts`) | friendships, blocks, invites | ask, answer, withdraw, remove, block, redeem | by consent only | Friends, proved |
| events, surprises, chat, realtime (`event.service.ts`, `surprise.service.ts`, `chat.service.ts`, `realtime/socket.ts`) | guests, members, seats, rooms | create, invite, leave, reveal, talk, listen | only insiders hear; the plan stays hidden | Circles, partly, proved |
| accounts, sessions, codes (`auth.service.ts`, `session.service.ts`, `otp.service.ts`) | users.status, refresh_tokens, otp_challenges | register, sign in, rotate, revoke, verify, close | a code and a token serve once; who signed out is out | Accounts, proved |
| users, addresses, pages, memories | single rows | block, close, share | | partly, Friends, Accounts |
| mobile app (`apps/mobile`) | query cache, calls, session | open, press, retry, hear, sign in and out, restart | pays once; no stale page passes for fresh; no page of another person | Screens, Client, proved |
| admin dashboard (`apps/admin`) | query cache, calls | open, decide | no stale page passes for fresh | AdminPages, Client, partly, proved |
| shared package (`packages/shared`) | none | dates, delivery flow | agree with a calendar; stage by stage | Calendar, Orders, partly |
| catalog, search, suggestions, audit, HTTP layer, messaging | rows | reads and single-row writes | no protocol of their own | not modelled |

### How they meet

- A contribution, an order, a digital gift, a top-up and a subscription each own a
  payment. `applySettlement` flips the payment and runs the owner's effects in one
  serializable transaction; it is the point where Payments meets the others. In
  Payments the effects are a counter; in Orders, GroupGifts and Scheduled the payment
  is a status that settles once, which is what Payments guarantees.
- The wallet is a payment provider (debit in `initiate`, credit in `refund`), the
  target of top-ups and wallet-credit gifts, and the source of payouts. Wallet has
  every transaction that writes a balance; who asked for it is left out.
- Orders and reservations share the wish: paying an order claims it, delivering it
  marks it, cancelling or refunding frees it. Orders leaves the wishes out and
  Reservations leaves the money out.
- Cancelling or expiring an order closes its PENDING payment behind the payment
  service's back (`OrderCancelled` in Payments, `CancelPending` in Orders).
- Circles is composed with Friends: every check of friendship, block and calendar in
  a circle reads the rows that requests of Friends are changing meanwhile.
- Calendar and Scheduled share the reminder: Calendar says on which day it is claimed,
  Scheduled what becomes of the claim.
- Client uses the idempotency key that `order.service.ts` and the others look up, and the
  unique index behind it, and
  the refusal of `refreshSession` that Accounts explains.

### What is hard here

Callbacks that come twice, late, early or never; a provider call whose answer is
lost after it acted; a process that dies between two statements; two requests that
decide on the same row before either writes; jobs that run while requests do, under
a lock that may have run out; 29 February and zones on either side of the server;
a refresh token that rotates while the app is stopped; answers that arrive on a
screen they were not asked from; long legal sequences that nobody has tested in that
order. `PROJECT.json` has the list, line by line, under `hazards`.

## 2. The modules

| module | models | extends / instance of |
|---|---|---|
| Settlement | what payments promise: charge, then grant once | |
| Payments | payment rows, providers, callbacks, polling, sweep | refines Settlement |
| PaymentsProofs | theorems about Payments and Client | Payments, Client |
| Ledger | what a wallet promises: each key posted once, never below zero | |
| Wallet | ledger transactions with their lock, withdrawals | refines Ledger |
| WalletProofs | theorems about Wallet | Wallet |
| Orders | orders, deliveries, stock, coupon, refunds | |
| OrdersProofs | theorems about Orders and Reservations | Orders, Reservations, SumProofs |
| Reservations | one wish, its claims, the orders that buy it, its owner | |
| GroupGifts | the money of one group gift | |
| GroupGiftsProofs | theorems about GroupGifts | GroupGifts, SumProofs |
| SumProofs | lemmas about sums over finite sets | |
| Scheduled | gifts, wishes and reminders for later; jobs, lock, notifications | |
| ScheduledProofs | theorems about Scheduled and Calendar | Scheduled, Calendar |
| Calendar | date arithmetic, a birthday on a calendar, reminders, the strangers' feed | |
| Accounts | registration, codes, rotating sessions, the app on a handset | |
| AccountsProofs | theorems about Accounts | Accounts |
| Friends | friendships, blocks, invitations, what they open | |
| Circles | gifts, surprises, events, chats: members, rooms, who hears | Friends |
| CirclesProofs | theorems about Friends and Circles together | Circles |
| Screens | every screen of the mobile app, as a record | |
| AdminPages | every page and drawer of the dashboard, as a record | Screens |
| Client | screen stack, query cache, calls and retries, sessions; the screens are a constant | |
| MC... | the finite instances | their module; MCClient gives Client the tables of Screens and AdminPages |

Some proof modules are about two components. The second one's specification then has
a name of its own (`ReservationsSpec`, `CalendarSpec`, `ClientSpec`).

In the server's modules a request is a record (`proc` or `req`): a program counter,
the row it works on and what it has read. One action is one step between two awaits.
A *slip* is a plausible mistake in the operator that follows it; no specification
uses one, and `mutants` in `PROJECT.json` says which property it breaks.

**Payments.** `status`, `ref`, `age` and `method` are columns of the payment row and
`eventRow` is the table of received callbacks. The provider's side is a row of
`prompt`s per payment: things the customer may approve. Daraja (M-Pesa) opens a new
one per accepted call, Stripe and the wallet have one per payment. Callbacks are a
set that only grows, so they are lost, repeated and reordered without more state; one
may name a smaller amount than the row (`short`), whatever its result, and the code then
uses it up and settles nothing.
`initiateWithProvider` is the actions from `Initiate` to `StoreRef`, `handleWebhook`
is `ReceiveWebhook`, `LookupPayment`, `Settle`, `MarkProcessed`, `verifyPayment` is
`ReadForVerify`, `AskProvider`, `Settle`, and `reconcilePendingPayments` is
`StartSweep` and `SweepNext`. `Settle` is `applySettlement` with its effects, which
`effects` counts; for a payment whose owner is gone the code's settle helper may return
early, and the count then stands for no rows at all. Of Stripe's other events
(`StripeNotifies`) an intent that is processing only uses up its row, and a refunded
charge closes a payment that is still PENDING.

**Wallet.** One wallet. `ledger` is wallet_transactions in commit order. A ledger
transaction looks its key up, locks the wallet row, and commits; the steps between are
where other requests run. `RequestPayout` to `RecordSent` is `requestPayout`,
`FailPayout` and `ReadForFail` are `failPayout`, `CompletePayout` and `Confirm` are
`completePayout`. A failed statement and a crash are the same step: the transaction
rolls back; only where PAID could not be written the code goes on, to its catch clause
(`RecordThrows`). `sent` is what a provider or an administrator confirmed, whatever the
row says.

**Orders.** Every order is for one unit of one product at one price, with at most one
coupon in the shop; its payment settles or fails once. Each of `createOrder`,
`cancelOrder`, `updateOrderStatus`, `updateDeliveryStatus`, `refundOrder`,
`refundPayment` and `completeManualRefund` is a `Read...` action that takes the
decision and one or more that write by it, because that is how the code is split.
`moved` and `keys` are the provider's side of refunds.

**Reservations.** One wish, any number of claims. `reserveItem`, `cancelReservation` and
settlement are serializable and are one step; `updateReservation` and
`releaseOrderSideEffects` are read, then written, and requests overlap there. `blind`
remembers the writes by an outdated reading that change something. `history` is the
claims recorded in the gift histories by their giver. A claim made by a delivered order
stays counted, as it does in the code.

**GroupGifts.** One gift. `contribute` is `ReadForContribute`, `CommitShare` (its
serializable transaction), `ReadPayment` and the provider's answer; a retry with the
same key finds its share. Settlement is one step that raises `raised` and may fund the
gift. What organisers do is read first (`ReadForUpdate`, `ReadForClose`) and written
by id later. `history` counts the SENT rows per share: a reveal offers a row for each
settled share, and the unique index on user, direction and gift lets in one of each
giver that has none (`RowsThatGetIn`); a second reveal that overlaps runs it again.
`received` is what the row of the beneficiary says. `highest` remembers the goals, for
the property.

**Scheduled.** `row` is digital_gifts and birthday_messages, `proc` the instances that
run the jobs. A job takes its lock, scans, releases one item at a time and notifies
between; the lock may expire under it (`LockExpires`) and the instance may stop
(`Crash`). `notify` is two steps, the stored notification and the push. Opening and
unsending are read, then written; a gift that was not delivered may be taken back by its
sender, a wish also by its recipient, at any time. `RepeatDigitalGift` is the call that
sent a gift made again with its key: it finds the gift, and announces a free one that is
due once more.

**Calendar.** A clock walks through days in slots; `zone` shifts the local date.
`Countdown`, `DayOnPage`, `CandidateDates`, `CelebrationDayInYear`, `AddCivilDays`
are the shared functions, on records instead of strings; `IsCelebration` and
`CameOfAge` are the reference they are compared with. The reminder job and changes of
the entry and the profile are the actions.

**Accounts.** `token` is refresh_tokens with their families, `code` otp_challenges.
Rotation is `RotateRead` and `RotateWrite` (conditional on the token not being used);
a token presented twice revokes its family. `app` is the handset: the stored token,
whether a refresh is shared by its requests, whether it is signing out. Answers may be
lost, the app may be stopped, another device may act.

**Friends and Circles.** Rows of friendships are found, and then written by id
(`Accept`, `Decline`, `Cancel`, `Ask`), the calendars of both follow in a step of their
own (`MirrorBoth`). `agreed`, `passed`, `saw` and `reached` record what the properties
speak of. In Circles `seat` is conversation_participants, `room` the sockets in a
circle's room, `page` the pages people have open, `heard` who learnt something.

**Screens, AdminPages, Client.** A screen is a record of what its hooks read, which
views it waits for, what its controls call, which views the answers mark old and where
they lead; a control says whether it is disabled while pending, retried, and how old its
idempotency key is. Client runs one app over them: the API is a clock that ticks with
every change, a read is answered at one tick and arrives later, a press is served,
repeated or given up, a realtime event marks views old, and the session ends or begins.
A call with a key is two steps at the API, the look-up (`LookUp`) and the row that the
unique index takes or refuses (`Commit`), so that repetitions overlap. The key of a wish
goes with its money only (`wish/send.tsx`, 49-52): what is sent without it (`also`) is
sent anew by every repetition. React Query and the router are libraries, modelled by
what the screens rely on and marked external. The tables are given to Client as its
constants, so what is proved is proved for any screens that keep `ScreensAssumption`: a
call that charges has the key of its screen, money is sent with a wish, the answer of a
call marks old what `Owed` says a person expects to see anew, the pages open to people
who are signed out show nothing of that. TLC evaluates it on the tables, so a screen
that forgets a key or a view shows there. The dashboard uses the same library: its
sidebar replaces the page and its drawers stay over it.

### Bounds

Every bound is a CONSTANT marked *bound* (`FewCallsSpec` of MCScheduled bounds what is
asked for in all, with `MaxCalls`), or a budget in the `Start` records of
Circles and Client. `SweepLimit`, `DayLimit`, `UsageLimit`, `Stock`, `MaxAttempts`,
`Cap`, `Retries` are limits of the code or of the instance.

| run | instance | distinct states | why it is enough |
|---|---|---|---|
| payments | 1 payment of any method, 2 handlers and the cron worker, 2 prompts, 2 callbacks, 2 faults | 1.4 M | three processes settle one payment; a callback and its repetition, a lowered intent and its success |
| payments_live | 2 payments, one card at most, 1 handler, a page of 1, 1 prompt and 1 callback each, no faults | 488 k | one payment is behind the other on the page; the answer must not depend on handlers at all |
| payments_backlog | the same | stops at the behaviour | one payment that is never settled fills the page |
| wallet | a payout, a top-up, a payment, a gift, 3 requests, 1 fault | 323 k | two writers and a third that reads between them; each kind of key once; a PAID that cannot be written |
| orders | 1 order of any method with the coupon, 2 units in stock at most, 2 requests, 2 refunds of 1 or 2 units of money, 1 fault | 2.1 M | every pair of handlers of one order overlaps, one may die |
| reservations | 1 wish of up to 3, 2 people, an order of one of them for 2, 2 claims, 2 requests | 3.0 M | a claim and an order that fit alone and not together, each handler against each other |
| groupgifts | 2 people, 2 requests, 2 shares of 1 or 2, goals 1 and 2 | 1.3 M | two contributions that fit alone and not together, of one person or of two, a goal that moves between, two reveals that overlap |
| scheduled | a free and a paid gift, a wish and a reminder for tomorrow, 2 instances, 1 stop; 2 items, or 1 item with 2 requests about it (`FewCallsSpec`) | 464 k | an instance whose lock ran out beside the one that took it, and one that stops; any two of the openings, repetitions and deletions against both |
| calendar | 3 spans of about 64 days, zones one slot behind and ahead, 28 and 29 February and New Year, 3 birth years, 2 edits, 1 missed run | 1.4 M | a coming of age on 28 February, a leap year, 2100; offsets 0, 1 and 60 reach across the year's end |
| accounts | 1 person, 1 code with 1 attempt, 3 tokens, 2 requests, 1 mishap | 3.0 M | a refresh against each other request; tokens of two families |
| circles | 3 people, 2 requests, 1 circle; 5 operations on friendships, or 4 on circles, or 1 and 2 | 1.7 M | asking, answering and blocking cross; host, beneficiary and a third in each kind of circle |
| client | each screen and dashboard page with one link and one press, or a loss, or an event; paying screens with 2 presses and 3 losses; sessions of 2 people with a restart | 1.7 M | a stale view needs one change and one other page; a double charge two presses or a repetition that overlaps |

Handlers, people and keys that may be exchanged are symmetric, where no liveness is
checked. The run of GroupGifts counts states that differ in `members` alone as one
(`VIEW`): invitations and departures happen, but nothing it checks reads who is a member.

`CHECK_DEADLOCK FALSE` everywhere: when every request is answered and every bound
used up, the system may stop.

### Fairness

`Fairness` of Payments: the cron worker keeps taking its steps (`api/workers/jobs.ts`
schedules the sweep every few minutes and catches what it throws), and Daraja ends
each STK push it opened (result 1037 when the handset does not answer). Nothing is
assumed of customers, clients, API processes or callbacks: `PaidIsSettled` is about
what the sweep alone achieves.

`FairSpec` of Scheduled: days pass and locks expire (Redis does it by itself), an
instance that runs a job goes on or stops for good (faults are finite), and cron ticks
keep coming to some instance: strong fairness for taking the delivery lock, because it
is held on and off by others, and a tick comes every minute. Nothing is assumed of
requests, payments or pushes.

## 3. What the runs show

- **payments**: effects run at most once and only for money taken
  (`EffectsOncePaid`), a payment shown SUCCESSFUL has had them
  (`SuccessMeansEffects`), a processed card callback of the full amount did its job even
  when it overtook the provider reference (`ProcessedCardEventSettled`), a closed payment
  never succeeds later, and a paid one stays paid unless it was settled while its
  initiation was out (`ClosedStaysClosed`), and all of it implements `Settlement`.
- **payments_live**: a payment whose recorded prompt was paid leaves PENDING, once it is
  on the sweep's page of the oldest.
- **payments_backlog** (a violation): without that condition it need not, although
  `docs/PAYMENTS.md` promises it (section 6).
- **wallet**: the statement adds up under overlap, each debit has a
  payout row and each FAILED payout was returned, a withdrawal that was sent is not
  returned as well, but in the two ways the code has to do that (section 6), and the
  wallet implements `Ledger`.
- **orders**: goods move only for money (`GoodsOnlyForMoney`); no money goes back
  without a row, nor more than was paid (`MoneyBackIsTraced`); coupon uses are held by
  orders (`CouponUsesCounted`). Of an order that no request wrote by an outdated reading
  (`stale`), whatever overlapped, the unit is not lost and the delivery goes stage by
  stage.
- **reservations**: with requests that overlap, claims never exceed the wish until a
  claim was revived or a count lost, and `reservedQuantity` is what they add up to until
  one of these or a count that stays too high (`blind`); section 6 has how.
- **groupgifts**: `raisedMinor` is the sum of the settled contributions, contributions
  in flight never exceed the highest goal there was, and after any reveals that overlap
  nobody is in the history twice or without having given, and the total that the
  beneficiary is told was given by people whose histories say so.
- **scheduled**: nothing is delivered or visible before its day or unpaid, everything
  is announced at most once even when the lock runs out or an instance stops (a free
  gift once more by each repetition of the call that sent it), the value
  of a gift is handed over once, and a due gift is delivered in the end.
- **calendar**: page, card and feed show the day that a calendar on the wall shows, each
  by the date it goes by; the countdown goes down by one a day and starts again at 364
  or 365; after the job ran every reminder of the day was claimed, a late one included.
- **accounts**: a code serves once and guesses stop at the limit; the app's own
  requests never present a token they had rotated; a live session of the handset is
  the stored one or is accounted for.
- **circles**: friendship, calendar entries and what they open come by consent of
  both; blocked people share no row except what `passed` names; the person a plan is
  for is in none of its lists, chats and rooms and hears of it only after the reveal;
  only people who were let in ever hear of a circle.
- **client**: one opening of a paying screen charges once, though its calls may overlap
  at the API, has charged when it has an answer, and gives no money without the wish it
  goes with (`OneVisitOneCharge`; the wish itself may be sent twice, section 6); a page
  that was open when the app learnt of a change and is still open is not shown as fresh
  behind it; no page read for another person is shown after signing out.

Five properties except what one unconditional write in the code breaks, and no more:
each has a history that remembers where that write has happened (`crossed`, `disturbed`,
`stale`, `blind`), and is claimed of everything else, with requests that overlap freely.
The histories change no behaviour; `NotedSpec` and `NotedReservations` are the
specifications with the history written along.

## 4. What is proved

The theorems hold for any number of people, payments, orders, shares, circles,
requests, instances and faults; TLC's instances above are one case of each. They
assume only the named assumptions on the constants, which TLC evaluates on every run:
numbers are numbers, the sentinels (`Nobody`, `Nothing`, `NoPayment`) are nobody's
name, users and payments and requests are finitely many, prices and amounts are
positive, gifts, wishes and reminders are different things (three tables), there is
somebody to be a user and something to be a key or a goal, the budgets of a `Start`
record of Circles and Client are numbers, birthdays are days that a leap year has,
offsets are at most 60, zones are less than a day away from the server, and the
screens keep `ScreensAssumption` (section 2).

Each proof module states its strengthening as a conjunction of named parts, `IInv` (in
PaymentsProofs two of them, in WalletProofs `WalletInv`), and proves that the initial
states have it and each action keeps it. The parts say what a request relies on after an
`await` although others went on meanwhile; that is where the code could be wrong.

**PaymentsProofs.** `EffectsOncePaid` is not inductive: the step that runs the effects
trusts what the handler carries. `SafetyInv` adds that trust: every event and every
handler that is about to settle a success holds a report of a prompt that was paid in
full (`HonestReports`), a wallet's prompt is paid as soon as it exists
(`WalletPrompts`), and a payment without final status has had no effects
(`UnsettledHasNoEffects`). `PromptsGrow` says a paid prompt stays paid, so reports stay
true while they travel. From `TypeOK` and `SafetyInv` follow `TypeCorrect`,
`EffectsOncePaidHolds`, `SuccessMeansEffectsHolds` and `Refinement`: with `charged` the
payments that have a paid prompt, each step is a charge, a grant or a stutter of
Settlement. `ProcessedCardEventSettledHolds` needs that nothing is on its way for a
payment that has no row, that a handler that marks a callback has settled (`RowsExist`),
and that a card callback of the full amount names the payment itself (`CardEventsDone`),
so that it does not matter whether the provider's reference was stored by then.
`ClosedStaysClosedHolds`: unless a payment was being settled while a call that initiates
it was out (`crossed`), who may yet write FAILED works on a row that is not paid
(`FailsUnpaid`), since only a settlement makes a row SUCCESSFUL (`SuccessBySettle`). So
that overlap with the unconditional write of `initiate` is the only way a success is
lost; section 6 has the behaviour.

**Client, in PaymentsProofs.** `OneVisitOneChargeHolds`: a call that charges has the key
of its opening, and what is done under such a key is done once, because the row is
written under a unique index and not because the look-up found nothing; a request that
found its key, and a call that has its answer, left the key taken; and whatever asks for
the money of a wish has sent the wish before (`OneCharge`). For
`NobodyElsesPagesHolds` (`OwnPages`) the calls in flight that sign in are all of one
person, and what is held, being read or on disk is of who is signed in, but for a
session that ended by force or was torn off. `NotBehindHolds` (`Fresh`) needs more than
the entries: a read on its way must be as new as what was told of its view, since its
answer replaces the mark; that is what invalidating a query buys, which starts the read
again. The proof failed as long as the property spoke of a page that the answer itself
opens, because that page may join a read that a closed one left behind, and TLC found
the behaviour (section 6).

**WalletProofs.** `WalletInv` adds to the checked invariants that whoever is about to
post holds the lock and has seen the present balance (`PosterHoldsLock`), which is what
`FOR UPDATE` buys, and that a request past its debit works on a payout that exists
(`WorksOnPayout`). `LedgerStep` splits the steps in those that append one row and those
that leave ledger and balance alone; `StatementAddsUpHolds`, `PostedOnceHolds`,
`WithdrawalsAccountedHolds` and `WalletImplementsLedger` follow.
`NeverSentAndReturnedHolds`: unless two requests have worked on a withdrawal at the same
time, or the PAID of a transfer that went out could not be written (`disturbed`), its
outcome is in the status (`OutcomeInStatus`: sent means PAID or about to be, returned
means FAILED), and who is about to write one works on a withdrawal that has none
(`DecidesOnce`). The code keeps its promise by the status alone; it needs that nobody
writes between the read and the write, and that the write succeeds.
`NotedIsSpec`, in both modules, says that
the history takes no behaviour of its own: what is proved of `Spec` holds with it.

**OrdersProofs.** `Knows` is what a request may count on although it wrote none of it:
an order that exists stays, a payment that succeeded stays paid or refunded, a refund
row stays where it is. `GoodsOnlyForMoneyHolds` rests on that: the delivery may be moved
by a stale order, but not by one that was unpaid. For `MoneyBackIsTracedHolds` the
invariant counts exactly: what the provider gave back is at most the sum of the refund
rows that no request still holds unsent (`MovedIsSent`), each such row is held by one
request (`Alone`), and a wallet's single key is either unused, with nothing moved, or used.
`CouponUsesCountedHolds` completes it. `NoUnitLostHolds` and `DeliveryStepByStepHolds` are
of `NotedSpec`, with any number of orders and overlapping requests: an order that waits
for its payment has a parcel that waits too and was written by nobody's outdated reading
(`Waiting`), whoever writes an order finds it as it was read or makes it `stale`, and every
step moves at most one order and its unit with it (`Moves`).

**Reservations, in OrdersProofs.** No row of gift_reservations goes away, so a claim that
a request has found is still there when it writes (`ClaimsInOrder`). Requests overlap, and
each step is taken through what the row and the count have become since it read them. As
long as nothing was written by an outdated reading `reservedQuantity` is the sum over the
claims that are not cancelled, and as long as that only left the count too high it is no
less (`Counted`): adding a claim adds its quantity, cancelling one takes it away, every
other step keeps the sum. `CountsClaimsHolds` is the first; `NoDuplicateGiftsHolds` adds to
the second the CHECK constraint that keeps `reservedQuantity` within the quantity.

**GroupGiftsProofs, SumProofs.** `raised` is compared with a sum over the shares, so the
proofs need to know what a sum becomes when a share is added, or its row changes
status. SumProofs has that for `SumFunctionOnSet` over any finite set. (The library's
induction theorems take an operator as a parameter, which the provers here cannot
instantiate. The lemmas use a set instead: the subsets of a finite set are well founded,
so the set of those for which a formula fails has a minimal member, or none.)
`NeverOverTheGoalsHolds` needs that the goal a request read before its transaction is
one the gift has had (`GoalsKnown`); `RaisedIsSettledHolds` that a payment that is
still open has an open row (`OpenRows`), since the converse fails when a provider call
throws. For `HistoryTellsTheTruthHolds` a reveal writes only rows that the unique index
lets in (`WritesHistory`), what settled stays settled, and the settled shares of people who
have a row are worth no less after any step (`Told`), so that a total told earlier stays
covered while a second reveal or a late settlement runs.

**ScheduledProofs.** The lock is not in the argument: it may run out at any step. What
replaces it is that the mark (deliveredAt of an item, the dispatch row of a reminder) is
set once, and who sets it holds the news alone until it has told it; a repeated send tells
once more, whoever holds the news (`HeldByOne`). What
a run took from its scan was due and paid and stays so (`TodoInOrder`), and a gift's
value is handed over only after the conditional write that opened it (`OpensInOrder`).

**Calendar, in ScheduledProofs.** Dates are reasoned about, not walked through: days are
numbered (`DayNumberIs`), months and years step by their lengths (`MonthStep`,
`YearStep`), `AddDays` adds to the number, and the day celebrated in a year is the
birthday or 28 February (`Celebration`). So page, countdown and feed agree with the wall
calendar in every year, not only those of the run (`EveryViewShowsTheDayHolds`), and the
countdown goes down by one across every year's end (`CountsDownHolds`).
`RemindedInTimeHolds` needs that entries are numbered by the edits (`Numbered`), so that
a new entry has no old keys, and that a run has claimed every key the day calls for
until midnight where the owner lives (`Reminded`).

**CirclesProofs.** One invariant for friendships and circles, since a circle's checks
read the friendships. A row that stands was agreed to (`RowsAgreed`), a waiting request
still has the row it found, between the same two people, whatever the row says now
(`Found`), and a request that is about to join, talk or tell belongs to somebody who was
let in (`Admitted`). `CirclesInOrder` says that guests, seats and rooms are of people
who were once let in, which gives `PlanningIsHiddenHolds` and `OnlyInsidersHearHolds`;
`OnlyByConsentHolds` and `BlockedStayApartHolds` are of Friends in the composition.

**AccountsProofs.** `RequestsInOrder` and `TokensInOrder` say what a request holds at
each of its steps. `CodeUsedOnceHolds` counts the wrong guesses that were let in and are
not written yet (`CodesInOrder`, `Guessing`). `EndedByNobodyHolds` needs all of the
app's protocol: one refresh at a time, and all the app knows of a family is the token it
presents or the answer that brings the next (`SharedRefresh`), tokens on their way are
nobody else's (`FreshAnswers`), and while nothing is lost a rotated token is not
presented (`RotatedOnce`). `NoForgottenSessionHolds` follows from `StoredOrComing`,
which admits only a request that brings the token.

### Only model-checked

- `PaidIsSettled` and `DueIsDelivered`: liveness under fairness is beyond the prover. The
  run scheduled checks all of its properties on behaviours in which little is asked for
  (`FewCallsSpec`); the safety theorems are about `Spec`, where any of it may be.

## 5. What is left out, and why

- Authentication of requests, signatures, validation, rate limits, text, layout: they
  refuse or announce and change none of the state modelled. The review of vendors and
  products is one status written by id. Catalogue, search, suggestions, previews and
  analytics are queries.
- Prices, discounts, currencies, baskets of several products: an order is one unit at
  one price, as the control does not depend on them.
- In Wallet, what the provider does with a payout sent twice: both payout providers
  in the code are stand-ins that move no money.
- In Reservations, a wish in several products' orders at once and the second history
  row an order writes for the same gift.
- In Accounts, when tokens and codes run out by time: an expired one is refused like a
  revoked one.
- In Circles, answers to invitations, polls, read marks, deleted messages, and two
  chats of the same two people made at the same time (one circle in the instance).
- In Client, forms and what is typed in them, the payment sheet, registration for
  pushes, and the dashboard's sessions.
- The sandbox payment provider, the audit log, messaging and storage.

## 6. Known disagreements

What the code does otherwise than its documentation, comments or plain expectation
say, as met while modelling. The first group is stated as a property in a module, which
is broken on the instance named (the rest as in the .cfg); the run `payments_backlog`
shows the second of them, the others are in no run.

| property | instance | what happens |
|---|---|---|
| `SettledIsFinal` (Payments) | 2 handlers, `MaxPrompts` 1, `MaxFaults` 0 | a second `initiate` whose provider call fails marks a SUCCESSFUL payment FAILED (`payment.service.ts:144`; `docs/PAYMENTS.md` lets a settled payment change by refunds only) |
| `MissedCallbackIsSettled` (Payments) | PaymentsBacklog.cfg | payments that are never settled (an abandoned intent, one without a reference) fill the sweep's page of the oldest for ever, and a paid M-Pesa payment behind them is not asked about (`payment.service.ts:793`; `docs/PAYMENTS.md:59`: "If a callback is missed, the reconciliation job asks Daraja for the status and settles the payment anyway") |
| `NeverSentAndReturned` with `disturbed` left out (Wallet) | 1 handler, `MaxFaults` 1; or 2 handlers, `MaxFaults` 0 | the provider has sent the money and PAID cannot be written: the catch clause returns it (`payout.service.ts:151`, `:160`; after a crash there an administrator may). Or a payout is failed and returned while the provider's answer, or a confirmation, is on its way; it ends PAID and returned (`:151`, `:207`, against the header, 12-15) |
| `CancelledIsRefunded` (Orders) | `Method` {"MPESA"}, 1 handler | a cancelled order keeps the money it was paid (`order.service.ts:590-601`, `admin.service.ts:662`; `commerce.routes.ts:164`: "refunds if paid") |
| `RefundedHasMoved` (Orders) | `Method` {"WALLET"}, 1 handler, `MaxRefunds` 2 | the second partial refund of a payment reuses the key of the first, is REFUNDED and moves nothing (`providers/payments/wallet.ts:121`, `stripe.ts:229`) |
| `NoUnitLost` with `stale` left out (Orders) | 2 handlers | the payment settles between the read of `cancelOrder` and its write: the paid order is cancelled, and its unit is neither sold nor back in stock (`order.service.ts:600`) |
| `DeliveryStepByStep` with `stale` left out (Orders) | 2 handlers | `updateDeliveryStatus` read the stage before the order was cancelled; the cancelled parcel goes on (`order.service.ts:708`) |
| `NoDuplicateGifts` with `blind` left out (Reservations) | 2 requests | `updateReservation` writes over a cancelled claim, or `releaseOrderSideEffects` takes off a count that had grown meanwhile, and the wish is claimed twice (`reservation.service.ts:249`; `README.md:101`: "No duplicate gifts.") |

Payments: a declined or cancelled card callback that names a smaller amount is used up,
and the payment stays PENDING until something else closes it (`payment.service.ts:662`).

Money and goods: the daily payout limit is read before the debit; a retry that finds a
payout REQUESTED sends it again; an order cancelled before it settled and refunded
later puts back a unit it never took; `usageLimit` is read outside the order's
transaction; `updateReservation` accepts any stage after any other; a group gift is
cancelled while a contribution is in flight; a provider call that throws leaves its
contribution PENDING. Two updates of a delivery that overlap put a unit back twice
(`NoUnitLost` bounds the units from below and does not see it).

Gift histories: the unique index has one row per person and gift, so who contributed
twice is credited with one of the two amounts, and a share that settles after the reveal
has no row, unless a second reveal that overlapped the first writes it
(`groupGift.service.ts`, 670-722).

Release and reminders: a crash between the claim of a reminder and its notification
loses it; the call that sent a free gift, repeated with its key, announces the gift
again (`digitalGift.service.ts:238`), before the job delivered it if it has just come
due; `deleteWish` decides that a wish is undelivered and deletes by id, so a delivered
one may go, and the recipient may delete one at any time; an edited birthday keeps the
key of a reminder it already sent for the year.

Dates: somebody born on 29 February is celebrated on 28 February of a common year, with
a `turningAge` that `computeAge` does not confirm on that day; cards and lists count by
the server's date, month page, reminders and feed by the person's;
`resolveCelebrationYear` (`wish.service.ts`, 192-210) uses the server's; the dashboard's
count and the birthday broadcast (`admin.service.ts`, 70-83 and 849-853) miss people of
29 February in common years.

People: `acceptFriendship` sets the status outside the transaction its comment speaks
of; a withdrawn and an accepted request overwrite each other; `redeemInvite` asks for no
block and lets two people take one invitation; sockets stay in a room after leaving;
`leftAt` stays set when somebody is invited back; a beneficiary who was a calendar
entry when the plan was made, and was linked later, can be invited; two chats of the
same two people, or two votes in a poll, can be made at once; a friend removed and
regained is on the calendar twice.

Accounts: a refresh whose answer is lost ends the session at the next one, as a replay
(`apps/mobile/src/lib/api.ts` says it resumes); signing out during a refresh can leave
the app signed in; `login` and `resetPassword` set ACTIVE whatever the status became;
`updateUser` to DEACTIVATED revokes no session; a forced sign-out and
`settings/account.tsx` leave the push token (`docs/NOTIFICATIONS.md:51`), and
`push.ts` then skips the next person's.

Catalogue: "Vendors may pause or resume a listing, but cannot approve their own"
(`catalog.service.ts`, `updateProduct`), but a listing in PENDING_REVIEW may be set to
DRAFT and then to ACTIVE, a REJECTED one to ACTIVE at once; a review of an
administrator is written by id over whatever the listing became; the ratings two
reviews recompute at the same time may lack one of them.

The apps:

- Keys made inside the mutation's function (`group-gift/[id].tsx:48`, `wallet.tsx:34`,
  `:56`, `:60`, `chat/[id].tsx:69`) change with every repetition, so a call whose answer
  was lost is done twice (`docs/API.md:49`); calls without a key (reserve, create a gift,
  an event, a surprise, a poll) are repeated too. `OneVisitOneCharge` is about the three
  screens that keep their key; they keep it after a FAILED payment as well. Of a wish with
  money only the money has the key: the wish is stored and announced again by each
  repetition (`wish.service.ts`, 261-287).
- `usePaymentStatus` (`Payment.tsx`, 67-99) stops polling after one failed answer.
- Not marked old: the events list by a new or cancelled event, the surprises by a new or
  left one, a surprise's page by its group gift, the orders by a cancelled one, home by
  a birthday deleted or marked, a profile by actions in the friends list, a person's
  wishlist by a reservation; on the dashboard the transactions by a completed refund,
  and users, shops and products by a complaint that suspends them. `OwedToPeople` and
  `OwedToAdmins` list what the own page and the one returned to must show.
- An answer written with `setQueryData` (rsvp, chat, cheer) may overwrite a newer read
  (`NotBehind` leaves such entries out, as it does the dashboard's user drawer); a page
  that an answer opens may join a read that a closed page left on its way, from before
  the change (`contacts-import.tsx`, then the birthdays); a chat message that arrives
  before the first page is dropped; a room is not joined when the socket is absent at
  mount, and what a gap missed is not read again.
- A late answer calls `router.back` or `replace` on whatever is on top; a call of one
  person repeated after signing out goes with the next one's token.
- Forms filled by an effect lose edits when the query is read again.
- A forced sign-out keeps the cache, a kill within two seconds of a sign-out keeps it on
  disk (both excepted in `NobodyElsesPages`); the dashboard never clears its cache.

## 7. Plan

Every safety property that a run checks is proved. What is left, in this order:

1. **GroupGifts**: that money comes in for at most one payment of a share, as an action
   property.
2. **Orders and Settlement**: that the payment of an order, as Orders has it, is one that
   Settlement allows (a status that settles once), which section 1 argues.
3. **Scheduled**: a larger instance of `DueIsDelivered`, with two gifts due on one day.
4. Should the code make the writes of section 6 conditional, `SettledIsFinal` holds,
   and `NeverSentAndReturned` without its history.
