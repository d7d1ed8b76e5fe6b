------------------------------ MODULE Payments ------------------------------
(***************************************************************************)
(* The life of payment rows in payment.service.ts, against the external    *)
(* providers (Daraja for MPESA, Stripe for CARD) and the internal WALLET   *)
(* ledger.  A request handler is a sequence of steps; every await on the   *)
(* database or on a provider ends one, so handlers interleave between any  *)
(* two of them and may die there.  A serializable transaction is one step. *)
(*                                                                         *)
(* The provider's side of a payment is a row of prompts.  A prompt is one  *)
(* thing the customer can approve: an STK push (a fresh one per accepted   *)
(* Daraja call), a PaymentIntent (one per payment, keyed by its id), or    *)
(* the ledger debit (one per payment, keyed by its id).  Callbacks are     *)
(* events that stay in a set, so a callback may be handled never, once,    *)
(* again, or out of order.                                                 *)
(***************************************************************************)
EXTENDS Naturals, FiniteSets

CONSTANTS
  Payment,      \* payment rows (one idempotency key each)
  NoPayment,    \* payment of an idle handler
  Handler,      \* API request handlers that run concurrently
  Cron,         \* the worker that runs reconcilePendingPayments
  MaxPrompts,   \* bound: STK pushes accepted per payment
  MaxEvents,    \* bound: callbacks sent per payment
  MaxFaults,    \* bound: crashes, lost answers and failed transactions
  SweepLimit    \* the `limit` of one reconciliation sweep (100 in the code)

ASSUME PaymentsAssumption ==
  /\ IsFiniteSet(Payment)
  /\ NoPayment \notin Payment
  /\ Cron \notin Handler
  /\ MaxPrompts \in Nat \ {0}
  /\ MaxEvents \in Nat
  /\ MaxFaults \in Nat
  /\ SweepLimit \in Nat \ {0}

VARIABLES
  method,     \* payment.provider
  status,     \* payment.status, "NONE" before the row exists
  ref,        \* payment.providerRef as the number of a prompt, 0 for null
  age,        \* payment.createdAt: how many rows existed before this one
  effects,    \* how many times onPaymentSucceeded ran and committed
  prompt,     \* what the provider knows of each prompt
  events,     \* callbacks the provider has sent
  eventRow,   \* payment_webhook_events, by (provider, externalId)
  proc,       \* program counter and locals of every handler
  sweep,      \* payments the running sweep has still to verify
  faults,     \* faults so far
  crossed     \* history: payments settled while their initiate was out

row  == <<method, status, ref, age, effects>>
provider == <<prompt, events>>
vars == <<row, provider, eventRow, proc, sweep, faults>>

Process   == Handler \union {Cron}
Method    == {"MPESA", "CARD", "WALLET"}
PromptNo  == 1 .. MaxPrompts
\* A lowered prompt is still open, for less than the payment asks for; once
\* it is paid it is short.
PromptState == {"none", "open", "lowered", "paid", "short", "declined",
                "cancelled"}
\* What a callback or a status query reports of a prompt, and whether it
\* names a smaller amount than the payment's.  Callbacks that say the same
\* of one prompt are one event.
Outcome   == {"PENDING", "SUCCESSFUL", "FAILED", "CANCELLED", "REFUNDED"}
Status    == {"NONE"} \union Outcome
Event     == [pay : Payment, att : PromptNo, result : Outcome, short : BOOLEAN]
Local     == [pc : {"idle", "call", "recall", "fail", "store", "lookup", "ask",
                    "settle", "mark"},
              op : {"none", "initiate", "webhook", "verify"},
              pay : Payment \union {NoPayment},
              att : 0 .. MaxPrompts,
              result : Outcome,
              short : BOOLEAN]

\* A request of this kind about a payment, before it has a report.
About(pc, op, p, k) ==
  [pc |-> pc, op |-> op, pay |-> p, att |-> k, result |-> "PENDING",
   short |-> FALSE]

Idle == About("idle", "none", NoPayment, 0)

\* The event a webhook carries.
EventOf(l) ==
  [pay |-> l.pay, att |-> l.att, result |-> l.result, short |-> l.short]

TypeOK ==
  /\ method \in [Payment -> Method]
  /\ status \in [Payment -> Status]
  /\ ref \in [Payment -> 0 .. MaxPrompts]
  /\ age \in [Payment -> Nat]
  /\ effects \in [Payment -> Nat]
  /\ prompt \in [Payment -> [PromptNo -> PromptState]]
  /\ events \subseteq Event
  /\ eventRow \in [Event -> {"none", "recorded", "processed", "error"}]
  /\ proc \in [Process -> Local]
  /\ \A h \in Process : proc[h].pc # "idle" => proc[h].pay \in Payment
  /\ sweep \subseteq Payment
  /\ faults \in 0 .. MaxFaults

Init ==
  /\ method \in [Payment -> Method]
  /\ status = [p \in Payment |-> "NONE"]
  /\ ref = [p \in Payment |-> 0]
  /\ age = [p \in Payment |-> 0]
  /\ effects = [p \in Payment |-> 0]
  /\ prompt = [p \in Payment |-> [k \in PromptNo |-> "none"]]
  /\ events = {}
  /\ eventRow = [e \in Event |-> "none"]
  /\ proc = [h \in Process |-> Idle]
  /\ sweep = {}
  /\ faults = 0

-----------------------------------------------------------------------------
(***************************************************************************)
(* The provider and the customer.                                          *)
(***************************************************************************)
Paid(p) == \E k \in PromptNo : prompt[p][k] = "paid"

Lower(p, k) == prompt[p][k] \in {"lowered", "short"}

Report(p, k, result) ==
  [pay |-> p, att |-> k, result |-> result, short |-> Lower(p, k)]

Send(p, k, result) ==
  /\ Cardinality({e \in events : e.pay = p}) < MaxEvents
  /\ events' = events \union {Report(p, k, result)}

Unpaid(p, k) == prompt[p][k] \in {"open", "lowered"}

\* The customer approves the prompt.
CustomerPays(p, k) ==
  /\ Unpaid(p, k)
  /\ prompt' = [prompt EXCEPT ![p][k] = IF @ = "open" THEN "paid" ELSE "short"]
  /\ Send(p, k, "SUCCESSFUL")
  /\ UNCHANGED <<row, eventRow, proc, sweep, faults>>

\* A wrong PIN or no answer ends an STK push; a declined card leaves the
\* PaymentIntent open for another card.
CustomerDeclined(p, k) ==
  /\ Unpaid(p, k)
  /\ Report(p, k, "FAILED") \notin events
  /\ prompt' = IF method[p] = "CARD" THEN prompt
               ELSE [prompt EXCEPT ![p][k] = "declined"]
  /\ Send(p, k, "FAILED")
  /\ UNCHANGED <<row, eventRow, proc, sweep, faults>>

CustomerCancels(p, k) ==
  /\ Unpaid(p, k)
  /\ prompt' = [prompt EXCEPT ![p][k] = "cancelled"]
  /\ Send(p, k, "CANCELLED")
  /\ UNCHANGED <<row, eventRow, proc, sweep, faults>>

\* The amount of an open PaymentIntent is lowered at the provider.
IntentLowered(p, k) ==
  /\ method[p] = "CARD"
  /\ prompt[p][k] = "open"
  /\ prompt' = [prompt EXCEPT ![p][k] = "lowered"]
  /\ UNCHANGED <<row, events, eventRow, proc, sweep, faults>>

\* Stripe's other events: an intent that is still being processed, and the
\* refund of a charge, which leaves its intent succeeded.
StripeNotifies(p, k) ==
  /\ method[p] = "CARD"
  /\ \/ Unpaid(p, k) /\ Send(p, k, "PENDING")
     \/ prompt[p][k] \in {"paid", "short"} /\ Send(p, k, "REFUNDED")
  /\ UNCHANGED <<row, prompt, eventRow, proc, sweep, faults>>

\* Cancelling or expiring an unpaid order closes its pending payment.
OrderCancelled(p) ==
  /\ status[p] = "PENDING"
  /\ status' = [status EXCEPT ![p] = "CANCELLED"]
  /\ UNCHANGED <<method, ref, age, effects, provider, eventRow, proc,
                 sweep, faults>>

-----------------------------------------------------------------------------
(***************************************************************************)
(* Steps every kind of request shares.                                     *)
(***************************************************************************)
Goto(h, local) == proc' = [proc EXCEPT ![h] = local]
Return(h)      == Goto(h, Idle)

Fault ==
  /\ faults < MaxFaults
  /\ faults' = faults + 1

\* Slips: no status check; a late success accepted after a failure.
CanSettleAlways(p)     == status[p] # "NONE"
CanSettleUnlessPaid(p) == status[p] # "SUCCESSFUL"

CanSettle(p) == status[p] = "PENDING"

\* applySettlement: one serializable transaction, conditional on the payment
\* still being PENDING, that writes the status and runs the side effects.
ApplySettlement(p, k, result) ==
  IF CanSettle(p)
    THEN /\ status' = [status EXCEPT ![p] = result]
         /\ ref' = [ref EXCEPT ![p] = IF k = 0 THEN @ ELSE k]
         /\ effects' = IF result = "SUCCESSFUL"
                         THEN [effects EXCEPT ![p] = @ + 1] ELSE effects
    ELSE UNCHANGED <<status, ref, effects>>

Settle(h) ==
  LET l == proc[h] IN
  /\ l.pc = "settle"
  /\ ApplySettlement(l.pay, l.att, l.result)
  /\ IF l.op = "webhook" THEN Goto(h, [l EXCEPT !.pc = "mark"]) ELSE Return(h)
  /\ UNCHANGED <<method, age, provider, eventRow, sweep, faults>>

\* A query throws: the database or the provider cannot be reached, a CHECK
\* constraint fails, or the transaction's retries are spent.  A webhook notes
\* the error on its event row before it answers 500; the sweep goes on.
Throws(h) ==
  LET l == proc[h] IN
  /\ l.pc \in {"lookup", "ask", "settle", "mark"}
  /\ Fault
  /\ eventRow' = IF l.op = "webhook"
       THEN [eventRow EXCEPT ![EventOf(l)] = "error"]
       ELSE eventRow
  /\ Return(h)
  /\ UNCHANGED <<row, provider, sweep>>

\* The process dies between two steps.
Crash(h) ==
  /\ proc[h].pc # "idle"
  /\ Fault
  /\ Return(h)
  /\ sweep' = IF h = Cron THEN {} ELSE sweep
  /\ UNCHANGED <<row, provider, eventRow>>

-----------------------------------------------------------------------------
(***************************************************************************)
(* Initiating: createPaymentRecord, then initiateWithProvider.             *)
(***************************************************************************)
Created == {p \in Payment : status[p] # "NONE"}

\* Finds the row by its idempotency key or creates it.  A row that is no
\* longer PENDING is returned as it is.
Initiate(h, p) ==
  /\ proc[h].pc = "idle"
  /\ \/ /\ status[p] = "NONE"
        /\ status' = [status EXCEPT ![p] = "PENDING"]
        /\ age' = [age EXCEPT ![p] = Cardinality(Created)]
     \/ /\ status[p] = "PENDING"
        /\ UNCHANGED <<status, age>>
  /\ Goto(h, About("call", "initiate", p, 0))
  /\ UNCHANGED <<method, ref, effects, provider, eventRow, sweep, faults>>

\* The prompts an accepted adapter.initiate may answer with: always a new one
\* for Daraja, the one keyed by the payment's id for Stripe and the ledger.
AnsweredWith(p) ==
  IF method[p] = "MPESA"
    THEN {k \in PromptNo : /\ prompt[p][k] = "none"
                           /\ \A j \in 1 .. (k - 1) : prompt[p][j] # "none"}
    ELSE {1}

\* The provider acts on the request; the wallet takes the money at once.
ProviderAccepts(p, k) ==
  prompt' = [prompt EXCEPT ![p][k] =
               IF @ # "none" THEN @
               ELSE IF method[p] = "WALLET" THEN "paid" ELSE "open"]

CallProvider(h) ==
  LET l == proc[h] IN
  /\ l.pc \in {"call", "recall"}
  /\ \E k \in AnsweredWith(l.pay) :
       /\ ProviderAccepts(l.pay, k)
       /\ Goto(h, [l EXCEPT !.pc = "store", !.att = k])
  /\ UNCHANGED <<row, events, eventRow, sweep, faults>>

\* The provider acted but its answer is lost.  Only the Daraja call is sent
\* once more; otherwise initiate throws.
AnswerLost(h) ==
  LET l == proc[h] IN
  /\ l.pc \in {"call", "recall"}
  /\ Fault
  /\ \E k \in AnsweredWith(l.pay) : ProviderAccepts(l.pay, k)
  /\ Goto(h, [l EXCEPT !.pc = IF method[l.pay] = "MPESA" /\ l.pc = "call"
                                THEN "recall" ELSE "fail"])
  /\ UNCHANGED <<row, events, eventRow, sweep>>

\* The provider refuses, cannot be reached, or (for the wallet) the balance
\* is short or the unretried serializable transaction loses a conflict.
ProviderRefuses(h) ==
  LET l == proc[h] IN
  /\ l.pc \in {"call", "recall"}
  /\ Goto(h, [l EXCEPT !.pc = "fail"])
  /\ UNCHANGED <<row, provider, eventRow, sweep, faults>>

\* The catch clause: the update is not conditional on the status.
InitiateFailed(h) ==
  LET l == proc[h] IN
  /\ l.pc = "fail"
  /\ status' = [status EXCEPT ![l.pay] = "FAILED"]
  /\ Return(h)
  /\ UNCHANGED <<method, ref, age, effects, provider, eventRow, sweep,
                 faults>>

\* Slip: the wallet's synchronous result is written without settlement.
StoreRefAndStatus(h) ==
  LET l == proc[h] IN
  /\ l.pc = "store"
  /\ ref' = [ref EXCEPT ![l.pay] = l.att]
  /\ status' = IF method[l.pay] = "WALLET"
                 THEN [status EXCEPT ![l.pay] = "SUCCESSFUL"] ELSE status
  /\ Return(h)
  /\ UNCHANGED <<method, age, effects, provider, eventRow, sweep, faults>>

\* Records providerRef; only the wallet has a result to settle at once.
StoreRef(h) ==
  LET l == proc[h] IN
  /\ l.pc = "store"
  /\ ref' = [ref EXCEPT ![l.pay] = l.att]
  /\ IF method[l.pay] = "WALLET"
       THEN Goto(h, [l EXCEPT !.pc = "settle", !.result = "SUCCESSFUL"])
       ELSE Return(h)
  /\ UNCHANGED <<method, status, age, effects, provider, eventRow, sweep,
                 faults>>

-----------------------------------------------------------------------------
(***************************************************************************)
(* Callbacks: handleWebhook.                                               *)
(***************************************************************************)
\* The event row is inserted first; its unique key turns a second delivery
\* of the same event into an early return, which changes nothing.
FirstDelivery(e) == eventRow[e] = "none"

ReceiveWebhook(h, e) ==
  /\ proc[h].pc = "idle"
  /\ e \in events
  /\ FirstDelivery(e)
  /\ eventRow' = [eventRow EXCEPT ![e] = "recorded"]
  /\ Goto(h, [About("lookup", "webhook", e.pay, e.att) EXCEPT
                !.result = e.result, !.short = e.short])
  /\ UNCHANGED <<row, provider, sweep, faults>>

\* Slip: look the payment up by the provider's id only.
FindByProviderRef(p, k) == ref[p] = k

\* Stripe's callback carries our reference; Daraja's only its own id.
FindPaymentForEvent(p, k) == method[p] = "CARD" \/ ref[p] = k

\* Slip: the amount check is left out.
AnyAmountCovers(short) == TRUE

\* The amount the provider names, when it names one, is not too small.
AmountCovers(short) == ~short

\* A callback is used up without a settlement when it matches no payment or
\* names a smaller amount, whatever status it reports; one that reports
\* PENDING has nothing to settle.
LookupPayment(h) ==
  LET l == proc[h] IN
  /\ l.pc = "lookup"
  /\ IF FindPaymentForEvent(l.pay, l.att) /\ AmountCovers(l.short)
       THEN /\ Goto(h, [l EXCEPT !.pc = IF l.result = "PENDING" THEN "mark"
                                       ELSE "settle"])
            /\ UNCHANGED eventRow
       ELSE /\ eventRow' = [eventRow EXCEPT ![EventOf(l)] = "processed"]
            /\ Return(h)
  /\ UNCHANGED <<row, provider, sweep, faults>>

MarkProcessed(h) ==
  LET l == proc[h] IN
  /\ l.pc = "mark"
  /\ eventRow' = [eventRow EXCEPT ![EventOf(l)] = "processed"]
  /\ Return(h)
  /\ UNCHANGED <<row, provider, sweep, faults>>

-----------------------------------------------------------------------------
(***************************************************************************)
(* Verification: verifyPayment, from a polling client or from the sweep.   *)
(***************************************************************************)
\* Slip: a row without a providerRef has nothing to ask about.
ReadIfReferenced(h, p) ==
  IF status[p] = "PENDING" /\ ref[p] # 0
    THEN Goto(h, About("ask", "verify", p, ref[p]))
    ELSE UNCHANGED proc

ReadForVerify(h, p) ==
  IF status[p] = "PENDING"
    THEN Goto(h, About("ask", "verify", p, ref[p]))
    ELSE UNCHANGED proc

ClientVerify(h, p) ==
  /\ proc[h].pc = "idle"
  /\ status[p] = "PENDING"
  /\ ReadForVerify(h, p)
  /\ UNCHANGED <<row, provider, eventRow, sweep, faults>>

\* Slip: a processing intent counts as paid.
VerdictOptimistic == [none |-> "PENDING", open |-> "SUCCESSFUL",
  lowered |-> "SUCCESSFUL", paid |-> "SUCCESSFUL", short |-> "SUCCESSFUL",
  declined |-> "FAILED", cancelled |-> "CANCELLED"]

\* What adapter.verify reports of the prompt the row named when it was read.
Verdict == [none |-> "PENDING", open |-> "PENDING", lowered |-> "PENDING",
            paid |-> "SUCCESSFUL", short |-> "SUCCESSFUL",
            declined |-> "FAILED", cancelled |-> "CANCELLED"]

Verified(p, k) ==
  IF method[p] = "WALLET"
    THEN IF prompt[p][1] = "paid" THEN "SUCCESSFUL" ELSE "FAILED"
    ELSE IF k = 0 THEN "PENDING" ELSE Verdict[prompt[p][k]]

\* Only a success is refused for its amount.
AskProvider(h) ==
  LET l == proc[h]
      answer == Verified(l.pay, l.att)
      short == l.att # 0 /\ Lower(l.pay, l.att) IN
  /\ l.pc = "ask"
  /\ IF answer = "PENDING" \/ (answer = "SUCCESSFUL" /\ ~AmountCovers(short))
       THEN Return(h)
       ELSE Goto(h, [l EXCEPT !.pc = "settle", !.result = answer])
  /\ UNCHANGED <<row, provider, eventRow, sweep, faults>>

Pending == {p \in Payment : status[p] = "PENDING"}

\* findMany(PENDING, oldest first, take limit).
Oldest ==
  {p \in Pending :
     Cardinality({q \in Pending : age[q] < age[p]}) < SweepLimit}

StartSweep ==
  /\ proc[Cron].pc = "idle"
  /\ sweep = {}
  /\ Oldest # {}
  /\ sweep' = Oldest
  /\ UNCHANGED <<row, provider, eventRow, proc, faults>>

SweepNext(p) ==
  /\ proc[Cron].pc = "idle"
  /\ p \in sweep
  /\ \A q \in sweep : age[p] <= age[q]
  /\ sweep' = sweep \ {p}
  /\ ReadForVerify(Cron, p)
  /\ UNCHANGED <<row, provider, eventRow, faults>>

-----------------------------------------------------------------------------
PromptStep(p, k) ==
  \/ CustomerPays(p, k) \/ CustomerDeclined(p, k) \/ CustomerCancels(p, k)
  \/ IntentLowered(p, k) \/ StripeNotifies(p, k)

ProviderStep ==
  \E p \in Payment :
    OrderCancelled(p) \/ \E k \in PromptNo : PromptStep(p, k)

RequestStart(h) ==
  \/ \E p \in Payment : Initiate(h, p) \/ ClientVerify(h, p)
  \/ \E e \in events : ReceiveWebhook(h, e)

Continue(h) ==
  \/ CallProvider(h)  \/ ProviderRefuses(h) \/ InitiateFailed(h) \/ StoreRef(h)
  \/ LookupPayment(h) \/ MarkProcessed(h)
  \/ AskProvider(h)   \/ Settle(h)

GoesWrong(h) == AnswerLost(h) \/ Throws(h) \/ Crash(h)

SweepStep == StartSweep \/ \E p \in Payment : SweepNext(p)

Next ==
  \/ ProviderStep
  \/ \E h \in Handler : RequestStart(h)
  \/ \E h \in Process : Continue(h) \/ GoesWrong(h)
  \/ SweepStep

Spec == Init /\ [][Next]_vars

\* The catch clause of initiate writes FAILED without looking at the status
\* again.  The history remembers the payments that were being settled while a
\* call that initiates them was out.
Calling == {"call", "recall", "fail"}

Crossing ==
  {p \in Payment :
     \E g, h \in Process : /\ proc[g].pc \in Calling /\ proc[g].pay = p
                           /\ proc[h].pc = "settle" /\ proc[h].pay = p}

NotedInit == Init /\ crossed = {}

NotedNext == Next /\ crossed' = crossed \union Crossing'

NotedSpec == NotedInit /\ [][NotedNext]_<<vars, crossed>>

\* The cron worker keeps running its sweeps, and Daraja ends every prompt it
\* opened (result code 1037 when the handset does not answer).  Nothing is
\* assumed of customers, clients, callbacks or API processes.
CronStep == SweepStep \/ Continue(Cron)

PromptExpires(p, k) == method[p] = "MPESA" /\ CustomerDeclined(p, k)

Fairness ==
  /\ WF_vars(CronStep)
  /\ \A p \in Payment, k \in PromptNo : WF_vars(PromptExpires(p, k))

-----------------------------------------------------------------------------
(***************************************************************************)
(* Correctness.                                                            *)
(***************************************************************************)
\* The side effects of a payment run at most once, and only after the
\* provider took the full amount: however often callbacks are replayed,
\* clients poll, sweeps overlap or handlers die (applySettlement).
EffectsOncePaid ==
  \A p \in Payment : effects[p] = 0 \/ (effects[p] = 1 /\ Paid(p))

\* A payment shown as SUCCESSFUL has had its side effects: no step marks it
\* paid on its own (the comment on applySettlement: "the one place").
SuccessMeansEffects ==
  \A p \in Payment : status[p] = "SUCCESSFUL" => effects[p] = 1

\* A payment that left PENDING is never reopened and never succeeds later,
\* and a paid one stays paid: replayed callbacks, polls, sweeps and retried
\* initiations change nothing (PAYMENTS.md: a settled payment changes only by
\* a refund).  Only one that was being settled while a call that initiates it
\* was out may be lost, to the unconditional write of initiate's catch clause;
\* and that write may follow a cancellation.
ClosedStaysClosed ==
  [][\A p \in Payment :
       status[p] \notin {"NONE", "PENDING"} =>
         \/ status'[p] = status[p]
         \/ /\ status'[p] = "FAILED"
            /\ status[p] = "CANCELLED" \/ p \in crossed]_vars

\* A card callback that was marked processed did its job, even when it
\* arrived before the PaymentIntent's id was stored (findPaymentForEvent),
\* unless it had nothing to settle or named a smaller amount: a decline or a
\* cancellation of a lowered intent is used up and the payment stays PENDING.
ProcessedCardEventSettled ==
  \A e \in events :
    /\ method[e.pay] = "CARD"
    /\ eventRow[e] = "processed"
    => e.short \/ e.result = "PENDING" \/ status[e.pay] # "PENDING"

-----------------------------------------------------------------------------
(***************************************************************************)
(* The strengthenings that make the invariants above inductive.            *)
(***************************************************************************)
\* Whoever is about to act on a success holds a report of a paid prompt.
HonestReports ==
  /\ \A e \in events :
       /\ prompt[e.pay][e.att] # "none"
       /\ e.result = "SUCCESSFUL" /\ ~e.short => Paid(e.pay)
  /\ \A h \in Process :
       /\ proc[h].pc = "lookup" =>
            (proc[h].result = "SUCCESSFUL" /\ ~proc[h].short => Paid(proc[h].pay))
       /\ proc[h].pc = "settle" =>
            /\ proc[h].result # "PENDING"
            /\ proc[h].result = "SUCCESSFUL" => Paid(proc[h].pay)
       /\ (proc[h].pc = "store" /\ method[proc[h].pay] = "WALLET") =>
            Paid(proc[h].pay)

WalletPrompts ==
  \A p \in Payment, k \in PromptNo :
    method[p] = "WALLET" => prompt[p][k] \in {"none", "paid"}

UnsettledHasNoEffects ==
  \A p \in Payment : status[p] \in {"NONE", "PENDING"} => effects[p] = 0

SafetyInv ==
  /\ TypeOK
  /\ HonestReports
  /\ WalletPrompts
  /\ UnsettledHasNoEffects
  /\ EffectsOncePaid
  /\ SuccessMeansEffects

\* Every prompt, event and busy handler belongs to an existing row, and a
\* callback is marked only after its settlement.
RowsExist ==
  /\ \A p \in Payment, k \in PromptNo :
       prompt[p][k] # "none" => status[p] # "NONE"
  /\ \A h \in Process :
       /\ proc[h].pc # "idle" => status[proc[h].pay] # "NONE"
       /\ proc[h].pc = "mark" /\ proc[h].result # "PENDING" =>
            status[proc[h].pay] # "PENDING"

\* A card event processed in full has closed its payment.
CardEventsDone ==
  \A e \in Event :
    /\ method[e.pay] = "CARD"
    /\ ~e.short
    /\ e.result # "PENDING"
    /\ eventRow[e] = "processed"
    => status[e.pay] \notin {"NONE", "PENDING"}

-----------------------------------------------------------------------------
\* The abstract specification: charged is what the provider took.
Settlement == INSTANCE Settlement WITH
  charged <- {p \in Payment : Paid(p)}

ImplementsSettlement == Settlement!Spec

\* The prompt the row names, or the wallet's debit, was paid.
PaidUnderStoredRef(p) ==
  IF method[p] = "WALLET" THEN prompt[p][1] = "paid"
  ELSE ref[p] # 0 /\ prompt[p][ref[p]] = "paid"

\* A missed callback is made up for: once the customer has paid the prompt
\* the row names and the payment is among the oldest that are PENDING, it does
\* not stay PENDING (reconcilePendingPayments).
PaidIsSettled ==
  \A p \in Payment :
    (p \in Oldest /\ PaidUnderStoredRef(p)) ~> status[p] # "PENDING"

\* What PAYMENTS.md:59 promises for M-Pesa: "If a callback is missed, the
\* reconciliation job asks Daraja for the status and settles the payment
\* anyway."  The payment must also come on the page of the oldest, and those
\* that are never settled do not leave it.
MissedCallbackIsSettled ==
  \A p \in Payment :
    (method[p] = "MPESA" /\ status[p] = "PENDING" /\ PaidUnderStoredRef(p))
      ~> status[p] # "PENDING"

\* PAYMENTS.md: PENDING -> SUCCESSFUL | FAILED | CANCELLED, and a settled
\* payment changes only through the refund flow.
SettledIsFinal ==
  [][\A p \in Payment :
       status[p] = "SUCCESSFUL" => status'[p] = "SUCCESSFUL"]_vars

-----------------------------------------------------------------------------
\* What keeps a paid payment paid: whoever may yet write FAILED works on one
\* that is not, unless it was settled meanwhile.
TookMoney == {"SUCCESSFUL", "REFUNDED"}

FailsUnpaid ==
  \A h \in Process :
    proc[h].pc \in Calling /\ proc[h].pay \notin crossed =>
      status[proc[h].pay] \notin TookMoney

CrossedInv == TypeOK /\ Crossing \subseteq crossed /\ FailsUnpaid
=============================================================================
