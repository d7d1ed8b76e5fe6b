------------------------------- MODULE Wallet -------------------------------
(***************************************************************************)
(* One user's wallet: every transaction that writes wallets and            *)
(* wallet_transactions, and the life of the withdrawals (payouts) that     *)
(* take money out of it (payout.service.ts).                               *)
(*                                                                         *)
(* A ledger transaction looks its idempotency key up, locks the wallet row *)
(* (SELECT ... FOR UPDATE), writes the new balance and inserts the ledger  *)
(* row, whose key is unique.  Look-up, lock and commit are separate steps: *)
(* other requests run in between.                                          *)
(***************************************************************************)
EXTENDS Integers, Sequences, FiniteSetsExt

CONSTANTS
  Payout,     \* withdrawals, one per idempotency key of the client
  TopUp,      \* top-ups that settle, refunds of payments made from the wallet
  Spend,      \* payments made from the wallet
  Gift,       \* wallet-credit gifts the user may open
  Amount,     \* amount of each of the above
  DayLimit,   \* maxPayoutPerDayMinor
  Handler,    \* requests that run concurrently (clients, administrators, jobs)
  Nobody,     \* the wallet row is not locked
  Nothing,    \* what an idle handler works on
  MaxFaults   \* bound: crashes and failed statements

Movement == Payout \union TopUp \union Spend \union Gift

ASSUME WalletAssumption ==
  /\ Amount \in [Movement -> Nat \ {0}]
  /\ DayLimit \in Nat
  /\ Nobody \notin Handler
  /\ Nothing \notin Movement
  /\ MaxFaults \in Nat
  /\ Payout \intersect (TopUp \union Spend \union Gift) = {}
  /\ TopUp \intersect (Spend \union Gift) = {}
  /\ Spend \intersect Gift = {}

VARIABLES
  balance,    \* wallets.balanceMinor
  ledger,     \* wallet_transactions, in the order of their commits
  status,     \* payouts.status, "NONE" before the row exists
  sent,       \* history: payouts whose transfer really went out
  lock,       \* who holds the wallet row's lock
  proc,       \* program counter and locals of every request
  faults,
  disturbed   \* history: payouts whose requests have overlapped, or whose
              \* outcome could not be written

vars == <<balance, ledger, status, sent, lock, proc, faults>>

Op     == {"withdraw", "return", "topup", "spend", "gift"}
Status == {"NONE", "REQUESTED", "PROCESSING", "PAID", "FAILED"}
Pc     == {"idle", "lookup", "lock", "post", "load", "send", "settled",
           "queued", "fail", "confirm"}

\* The idempotency keys, and what the row of a key adds to the balance.
Key == ({"withdraw", "return"} \X Payout) \union ({"topup"} \X TopUp)
         \union ({"spend"} \X Spend) \union ({"gift"} \X Gift)
Delta(key) == IF key[1] \in {"withdraw", "spend"} THEN -Amount[key[2]]
              ELSE Amount[key[2]]

Row   == [key : Key, delta : Int, after : Int]
Local == [pc : Pc, op : Op, on : Movement \union {Nothing}, seen : Nat]
Idle  == [pc |-> "idle", op |-> "withdraw", on |-> Nothing, seen |-> 0]

TypeOK ==
  /\ balance \in Nat
  /\ ledger \in Seq(Row)
  /\ status \in [Payout -> Status]
  /\ sent \subseteq Payout
  /\ lock \in Handler \union {Nobody}
  /\ proc \in [Handler -> Local]
  /\ \A h \in Handler : proc[h].pc # "idle" => <<proc[h].op, proc[h].on>> \in Key
  /\ faults \in 0 .. MaxFaults

Init ==
  /\ balance = 0
  /\ ledger = <<>>
  /\ status = [p \in Payout |-> "NONE"]
  /\ sent = {}
  /\ lock = Nobody
  /\ proc = [h \in Handler |-> Idle]
  /\ faults = 0

-----------------------------------------------------------------------------
Posted(key) == \E i \in DOMAIN ledger : ledger[i].key = key

KeyOf(h) == <<proc[h].op, proc[h].on>>

Goto(h, pc) == proc' = [proc EXCEPT ![h].pc = pc]
Begin(h, pc, op, on) ==
  /\ proc[h].pc = "idle"
  /\ proc' = [proc EXCEPT ![h] = [pc |-> pc, op |-> op, on |-> on, seen |-> 0]]
Return(h) == proc' = [proc EXCEPT ![h] = Idle]

Fault ==
  /\ faults < MaxFaults
  /\ faults' = faults + 1

-----------------------------------------------------------------------------
(***************************************************************************)
(* The ledger transaction.                                                 *)
(***************************************************************************)
\* A top-up settles or a refund is credited; a payment is made from the
\* wallet.  A wallet without a row is one with balance 0.
StartTopUp(h, t) ==
  /\ Begin(h, "lookup", "topup", t)
  /\ UNCHANGED <<balance, ledger, status, sent, lock, faults>>

StartSpend(h, s) ==
  /\ Begin(h, "lookup", "spend", s)
  /\ UNCHANGED <<balance, ledger, status, sent, lock, faults>>

\* Opening a gift claims its row (openedAt) for the length of the
\* transaction, so two taps are one after the other and the second finds it
\* opened.
StartGift(h, g) ==
  /\ ~Posted(<<"gift", g>>)
  /\ \A k \in Handler : proc[k].on # g
  /\ Begin(h, "lock", "gift", g)
  /\ UNCHANGED <<balance, ledger, status, sent, lock, faults>>

\* The key is already there: the request was answered before.
LookUpKey(h) ==
  /\ proc[h].pc = "lookup"
  /\ IF Posted(KeyOf(h))
       THEN IF proc[h].op = "withdraw" THEN Goto(h, "load") ELSE Return(h)
       ELSE Goto(h, "lock")
  /\ UNCHANGED <<balance, ledger, status, sent, lock, faults>>

\* Slip: the balance is read without FOR UPDATE.
NoLockNeeded(h) == h \in Handler

LockFree(h) == lock = Nobody

LockWallet(h) ==
  /\ proc[h].pc = "lock"
  /\ LockFree(h)
  /\ lock' = h
  /\ proc' = [proc EXCEPT ![h].pc = "post", ![h].seen = balance]
  /\ UNCHANGED <<balance, ledger, status, sent, faults>>

\* Slip: no unique index.
NeverDuplicate(key) == key \notin Key

\* The unique index on wallet_transactions.idempotencyKey.
Duplicate(key) == Posted(key)

Covers(h) == proc[h].seen + Delta(KeyOf(h)) >= 0

\* What a committed ledger row brings with it: the payout row of a
\* withdrawal, the FAILED status of one that is returned.
StatusAfter(h) ==
  CASE proc[h].op = "withdraw" -> [status EXCEPT ![proc[h].on] = "REQUESTED"]
    [] proc[h].op = "return"   -> [status EXCEPT ![proc[h].on] = "FAILED"]
    [] OTHER                   -> status

\* Balance, ledger row and payout row commit together and release the lock;
\* a balance that does not cover a debit, or a key already used, rolls back.
PostEntry(h) ==
  LET key == KeyOf(h)
      after == proc[h].seen + Delta(key) IN
  /\ proc[h].pc = "post"
  /\ lock' = Nobody
  /\ IF Covers(h) /\ ~Duplicate(key)
       THEN /\ balance' = after
            /\ ledger' = Append(ledger, [key |-> key, delta |-> Delta(key),
                                         after |-> after])
            /\ status' = StatusAfter(h)
            /\ IF proc[h].op = "withdraw" THEN Goto(h, "load") ELSE Return(h)
       ELSE /\ Return(h)
            /\ UNCHANGED <<balance, ledger, status>>
  /\ UNCHANGED <<sent, faults>>

\* The request dies, or a statement of it fails (a serialization failure
\* among them): its transaction rolls back.
Crash(h) ==
  /\ proc[h].pc # "idle"
  /\ Fault
  /\ lock' = IF lock = h THEN Nobody ELSE lock
  /\ Return(h)
  /\ UNCHANGED <<balance, ledger, status, sent>>

-----------------------------------------------------------------------------
(***************************************************************************)
(* Withdrawals.                                                            *)
(***************************************************************************)
\* The withdrawals of the last day that were not returned.
Today == {p \in Payout : status[p] \notin {"NONE", "FAILED"}}

Total(S) == MapThenSumSet(LAMBDA p : Amount[p], S)

\* requestPayout: the day's total is read before the transaction.
RequestPayout(h, p) ==
  /\ Total(Today) + Amount[p] <= DayLimit
  /\ Begin(h, "lookup", "withdraw", p)
  /\ UNCHANGED <<balance, ledger, status, sent, lock, faults>>

\* Only a payout that is still REQUESTED is handed to the provider.
LoadPayout(h) ==
  /\ proc[h].pc = "load"
  /\ IF status[proc[h].on] = "REQUESTED" THEN Goto(h, "send") ELSE Return(h)
  /\ UNCHANGED <<balance, ledger, status, sent, lock, faults>>

\* The provider pays at once, queues the transfer for an administrator, or
\* refuses it.
SendPayout(h) ==
  /\ proc[h].pc = "send"
  /\ \E pc \in {"settled", "queued", "fail"} :
       /\ Goto(h, pc)
       /\ sent' = IF pc = "settled" THEN sent \union {proc[h].on} ELSE sent
  /\ UNCHANGED <<balance, ledger, status, lock, faults>>

\* The provider's answer is written without looking at the status again.
RecordSent(h) ==
  LET p == proc[h].on IN
  /\ proc[h].pc \in {"settled", "queued"}
  /\ IF proc[h].pc = "settled"
       THEN status' = [status EXCEPT ![p] = "PAID"]
       ELSE status' = [status EXCEPT ![p] = "PROCESSING"]
  /\ Return(h)
  /\ UNCHANGED <<balance, ledger, sent, lock, faults>>

\* The write fails: the catch clause treats the transfer as failed.
RecordThrows(h) ==
  /\ proc[h].pc \in {"settled", "queued"}
  /\ Fault
  /\ Goto(h, "fail")
  /\ UNCHANGED <<balance, ledger, status, sent, lock>>

\* failPayout, called by an administrator or after a refused transfer.
FailPayout(h, p) ==
  /\ status[p] # "NONE"
  /\ Begin(h, "fail", "withdraw", p)
  /\ UNCHANGED <<balance, ledger, status, sent, lock, faults>>

\* Slip: the payout is marked FAILED before the money is put back.
FailsFirst(h) ==
  LET p == proc[h].on IN
  /\ proc[h].pc = "fail"
  /\ IF status[p] \in {"FAILED", "PAID"}
       THEN Return(h) /\ UNCHANGED status
       ELSE /\ status' = [status EXCEPT ![p] = "FAILED"]
            /\ proc' = [proc EXCEPT ![h].pc = "lock", ![h].op = "return"]
  /\ UNCHANGED <<balance, ledger, sent, lock, faults>>

\* Slip: a payout that was paid can still be failed.
FailsThePaid(h) ==
  /\ proc[h].pc = "fail"
  /\ IF status[proc[h].on] = "FAILED"
       THEN Return(h)
       ELSE proc' = [proc EXCEPT ![h].pc = "lock", ![h].op = "return"]
  /\ UNCHANGED <<balance, ledger, status, sent, lock, faults>>

\* A payout that already failed is left alone, a paid one is an error.
ReadForFail(h) ==
  /\ proc[h].pc = "fail"
  /\ IF status[proc[h].on] \in {"FAILED", "PAID"}
       THEN Return(h)
       ELSE proc' = [proc EXCEPT ![h].pc = "lock", ![h].op = "return"]
  /\ UNCHANGED <<balance, ledger, status, sent, lock, faults>>

\* completePayout: an administrator confirms a transfer they made by hand.
CompletePayout(h, p) ==
  /\ status[p] \in {"REQUESTED", "PROCESSING"}
  /\ Begin(h, "confirm", "withdraw", p)
  /\ sent' = sent \union {p}
  /\ UNCHANGED <<balance, ledger, status, lock, faults>>

Confirm(h) ==
  LET p == proc[h].on IN
  /\ proc[h].pc = "confirm"
  /\ status' = [status EXCEPT ![p] = "PAID"]
  /\ Return(h)
  /\ UNCHANGED <<balance, ledger, sent, lock, faults>>

-----------------------------------------------------------------------------
Start(h) ==
  \/ \E t \in TopUp : StartTopUp(h, t)
  \/ \E s \in Spend : StartSpend(h, s)
  \/ \E g \in Gift : StartGift(h, g)
  \/ \E p \in Payout :
       RequestPayout(h, p) \/ FailPayout(h, p) \/ CompletePayout(h, p)

Continue(h) ==
  \/ LookUpKey(h)  \/ LockWallet(h) \/ PostEntry(h)
  \/ LoadPayout(h) \/ SendPayout(h) \/ RecordSent(h)
  \/ ReadForFail(h) \/ Confirm(h)

Next ==
  \E h \in Handler : Start(h) \/ Continue(h) \/ RecordThrows(h) \/ Crash(h)

Spec == Init /\ [][Next]_vars

\* What the code promises of a withdrawal's outcome it can keep only where it
\* writes by what it has just read, and only if it can write at all.  The
\* history remembers the withdrawals that two requests ever worked on at the
\* same time, and those that were sent when the request that should have
\* written PAID died or threw.
Overlapping ==
  {p \in Payout :
     \E g, h \in Handler : g # h /\ proc[g].on = p /\ proc[h].on = p}

Sending(h, p) == proc[h].pc \in {"settled", "confirm"} /\ proc[h].on = p

Unrecorded ==
  {p \in Payout :
     \E h \in Handler :
       /\ Sending(h, p)
       /\ ~Sending(h, p)'
       /\ status'[p] # "PAID"}

NotedInit == Init /\ disturbed = {}

Notes == disturbed' = disturbed \union Overlapping' \union Unrecorded

NotedSpec == NotedInit /\ [][Next /\ Notes]_<<vars, disturbed>>

-----------------------------------------------------------------------------
(***************************************************************************)
(* Correctness.                                                            *)
(***************************************************************************)
\* Top-ups, gifts, payments, withdrawals and returns that run at the same
\* time are as if posted one after the other, each at most once, and never
\* overdraw: the wallet implements Ledger.
WalletLedger == INSTANCE Ledger WITH
  posted <- {ledger[i].key : i \in DOMAIN ledger}

ImplementsLedger == WalletLedger!Spec

\* The statement the user sees adds up: each row's balance-after follows from
\* the row before it, and the last one is the balance.
StatementAddsUp ==
  /\ balance = IF ledger = <<>> THEN 0 ELSE ledger[Len(ledger)].after
  /\ \A i \in DOMAIN ledger :
       ledger[i].after = ledger[i].delta +
                           (IF i = 1 THEN 0 ELSE ledger[i - 1].after)

\* A client that asks twice, or an administrator who fails a payout twice,
\* moves the money once.
PostedOnce ==
  \A i, j \in DOMAIN ledger : ledger[i].key = ledger[j].key => i = j

\* Debited money always has a payout row to answer for it, and a FAILED
\* payout has been returned, in whatever order requests die.
WithdrawalsAccounted ==
  \A p \in Payout :
    /\ Posted(<<"withdraw", p>>) <=> status[p] # "NONE"
    /\ status[p] = "FAILED" => Posted(<<"return", p>>)

\* payout.service.ts: "Every later outcome moves that same money - settled, or
\* refunded on failure": never both, however often a withdrawal is retried,
\* confirmed and failed, whatever overlaps with requests for other things and
\* wherever requests die.  Two ways of the code to send the money and put it
\* back all the same are set apart: two requests for one withdrawal at a time,
\* and a transfer whose PAID could not be written (line 160 returns the money
\* then, and after a crash an administrator may).
NeverSentAndReturned ==
  \A p \in sent \ disturbed : ~Posted(<<"return", p>>)

-----------------------------------------------------------------------------
(***************************************************************************)
(* The strengthenings that make the invariants above inductive.            *)
(***************************************************************************)
\* Whoever is about to post holds the lock, and nobody changed the balance it
\* read under it.
PosterHoldsLock ==
  \A h \in Handler :
    proc[h].pc = "post" => lock = h /\ proc[h].seen = balance

\* A request past its debit, or one that returns money, works on a payout
\* whose row exists.
PastDebit == {"load", "send", "settled", "queued", "fail", "confirm"}

WorksOnPayout ==
  \A h \in Handler :
    LET l == proc[h] IN
    /\ l.pc \in PastDebit => l.op = "withdraw"
    /\ l.pc \in PastDebit \/ (l.pc # "idle" /\ l.op = "return") =>
         l.on \in Payout /\ status[l.on] # "NONE"

WalletInv ==
  /\ TypeOK
  /\ PosterHoldsLock
  /\ StatementAddsUp
  /\ PostedOnce
  /\ WorksOnPayout
  /\ WithdrawalsAccounted

\* The outcome is in the status: what was sent is PAID or about to be, what
\* was returned is FAILED, and a request about to write an outcome works on a
\* payout that has none yet; where nothing disturbed it.
Undecided == {"REQUESTED", "PROCESSING"}

OutcomeInStatus ==
  \A p \in Payout \ disturbed :
    /\ p \in sent => status[p] = "PAID" \/ \E h \in Handler : Sending(h, p)
    /\ Posted(<<"return", p>>) => status[p] = "FAILED"

DecidesOnce ==
  \A h \in Handler :
    LET l == proc[h] IN
    l.on \notin disturbed =>
      /\ l.pc \in {"send", "settled", "queued"} => status[l.on] = "REQUESTED"
      /\ l.pc = "confirm" => status[l.on] \in Undecided
      /\ l.pc # "idle" /\ l.op = "return" => status[l.on] \in Undecided

OutcomeInv ==
  WalletInv /\ Overlapping \subseteq disturbed /\ OutcomeInStatus /\ DecidesOnce
=============================================================================
