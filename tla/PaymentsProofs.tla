--------------------------- MODULE PaymentsProofs ---------------------------
(***************************************************************************)
(* Proofs about Payments, for any number of payments, handlers, prompts    *)
(* and faults; and, in the second half, about Client, whose paying screens *)
(* are where those payments begin.                                         *)
(***************************************************************************)
EXTENDS Payments, Client, FiniteSetTheorems, TLAPS

\* The locals a request starts with are well-typed.
LEMMA BusyLocal ==
  ASSUME NEW p \in Payment, NEW k \in 0 .. MaxPrompts
  PROVE  /\ About("ask", "verify", p, k) \in Local
         /\ About("call", "initiate", p, k) \in Local
BY DEF Local, About, Outcome

LEMMA WebhookLocal ==
  ASSUME NEW p \in Payment, NEW k \in 0 .. MaxPrompts, NEW r \in Outcome,
         NEW short \in BOOLEAN
  PROVE  [About("lookup", "webhook", p, k) EXCEPT
            !.result = r, !.short = short] \in Local
BY DEF Local, About, Outcome

\* A request for a payment is about that payment.
LEMMA AboutIs ==
  ASSUME NEW pc, NEW op, NEW p, NEW k
  PROVE  About(pc, op, p, k).pc = pc /\ About(pc, op, p, k).pay = p
BY DEF About

LEMMA WebhookIs ==
  ASSUME NEW e
  PROVE  LET l == [About("lookup", "webhook", e.pay, e.att) EXCEPT
                     !.result = e.result, !.short = e.short]
         IN /\ l.pc = "lookup" /\ l.pay = e.pay /\ l.att = e.att
            /\ l.result = e.result /\ l.short = e.short
BY DEF About

\* Storing a well-typed local keeps proc well-typed.
LEMMA GotoType ==
  ASSUME TypeOK, NEW h \in Process, NEW l \in Local, Goto(h, l),
         l.pc # "idle" => l.pay \in Payment
  PROVE  /\ proc' \in [Process -> Local]
         /\ \A g \in Process : proc'[g].pc # "idle" => proc'[g].pay \in Payment
BY DEF TypeOK, Goto

LEMMA ReturnType ==
  ASSUME TypeOK, NEW h \in Process, Return(h)
  PROVE  /\ proc' \in [Process -> Local]
         /\ \A g \in Process : proc'[g].pc # "idle" => proc'[g].pay \in Payment
<1>1. Idle \in Local /\ Idle.pc = "idle"
  BY PaymentsAssumption DEF Local, Idle, About, Outcome
<1>2. QED  BY <1>1 DEF TypeOK, Return, Goto

LEMMA TypeInit == Init => TypeOK
BY PaymentsAssumption
   DEF Init, TypeOK, Idle, About, Local, Outcome, Status, PromptState, Process

LEMMA FaultType ==
  ASSUME TypeOK, Fault
  PROVE  faults' \in 0 .. MaxFaults
BY PaymentsAssumption DEF TypeOK, Fault

LEMMA TypeNext == TypeOK /\ [Next]_vars => TypeOK'
<1> SUFFICES ASSUME TypeOK, [Next]_vars PROVE TypeOK'
  OBVIOUS
<1> USE PaymentsAssumption
<1>1. CASE UNCHANGED vars
  BY <1>1 DEF TypeOK, vars, row, provider
<1>2. CASE ProviderStep
  <2>1. PICK p \in Payment :
           \/ OrderCancelled(p)
           \/ \E k \in PromptNo : PromptStep(p, k)
    BY <1>2 DEF ProviderStep
  <2>2. CASE OrderCancelled(p)
    BY <2>2 DEF OrderCancelled, TypeOK, Status, Outcome, provider
  <2>3. ASSUME NEW k \in PromptNo, PromptStep(p, k) PROVE TypeOK'
    <3>1. ASSUME NEW r \in Outcome, Send(p, k, r) PROVE events' \subseteq Event
      <4>1. Report(p, k, r) \in Event
        BY <3>1 DEF Report, Lower, Event
      <4>2. QED  BY <3>1, <4>1 DEF Send, TypeOK
    <3>2. CASE CustomerPays(p, k)
      BY <3>1, <3>2 DEF CustomerPays, Outcome, PromptState, TypeOK, row
    <3>3. CASE CustomerDeclined(p, k)
      BY <3>1, <3>3 DEF CustomerDeclined, Outcome, PromptState, TypeOK, row
    <3>4. CASE CustomerCancels(p, k)
      BY <3>1, <3>4 DEF CustomerCancels, Outcome, PromptState, TypeOK, row
    <3>5. CASE IntentLowered(p, k)
      BY <3>5 DEF IntentLowered, PromptState, TypeOK, row
    <3>6. CASE StripeNotifies(p, k)
      BY <3>1, <3>6 DEF StripeNotifies, Outcome, TypeOK, row
    <3>7. QED  BY <2>3, <3>2, <3>3, <3>4, <3>5, <3>6 DEF PromptStep
  <2>4. QED  BY <2>1, <2>2, <2>3
<1>3. ASSUME NEW h \in Handler, NEW p \in Payment, Initiate(h, p) PROVE TypeOK'
  <2>1. Cardinality(Created) \in Nat
    BY FS_Subset, FS_CardinalityType DEF Created
  <2>2. age' \in [Payment -> Nat] /\ status' \in [Payment -> Status]
    <3>1. CASE /\ status' = [status EXCEPT ![p] = "PENDING"]
               /\ age' = [age EXCEPT ![p] = Cardinality(Created)]
      BY <2>1, <3>1 DEF TypeOK, Status, Outcome
    <3>2. CASE UNCHANGED <<status, age>>
      BY <3>2 DEF TypeOK
    <3>3. QED  BY <1>3, <3>1, <3>2 DEF Initiate
  <2>3. /\ proc' \in [Process -> Local]
        /\ \A g \in Process : proc'[g].pc # "idle" => proc'[g].pay \in Payment
    <3> DEFINE l == About("call", "initiate", p, 0)
    <3>1. 0 \in 0 .. MaxPrompts /\ "PENDING" \in Outcome /\ h \in Process
      BY DEF Outcome, Process
    <3>2. l \in Local /\ l.pay = p
      BY <3>1, BusyLocal, AboutIs
    <3>3. Goto(h, l)
      BY <1>3 DEF Initiate
    <3>4. QED  BY <3>1, <3>2, <3>3, GotoType
  <2>4. QED  BY <1>3, <2>2, <2>3 DEF Initiate, TypeOK, provider
<1>4. ASSUME NEW h \in Process, NEW p \in Payment, ReadForVerify(h, p)
      PROVE  /\ proc' \in [Process -> Local]
             /\ \A g \in Process : proc'[g].pc # "idle" => proc'[g].pay \in Payment
  <2> DEFINE l == About("ask", "verify", p, ref[p])
  <2>1. ref[p] \in 0 .. MaxPrompts /\ "PENDING" \in Outcome
    BY DEF TypeOK, Outcome
  <2>2. l \in Local /\ l.pay = p
    BY <2>1, BusyLocal, AboutIs
  <2>3. Goto(h, l) \/ proc' = proc
    BY <1>4 DEF ReadForVerify
  <2> HIDE DEF l
  <2>4. QED  BY <2>2, <2>3, GotoType DEF TypeOK
<1>5. ASSUME NEW h \in Handler, NEW e \in events, ReceiveWebhook(h, e)
      PROVE  TypeOK'
  <2> DEFINE l == [About("lookup", "webhook", e.pay, e.att) EXCEPT
                     !.result = e.result, !.short = e.short]
  <2>1. e \in Event /\ e.pay \in Payment /\ e.att \in 0 .. MaxPrompts
        /\ e.result \in Outcome /\ e.short \in BOOLEAN
    BY DEF TypeOK, Event, PromptNo
  <2>2. /\ proc' \in [Process -> Local]
        /\ \A g \in Process : proc'[g].pc # "idle" => proc'[g].pay \in Payment
    <3>1. l \in Local /\ l.pay = e.pay /\ h \in Process
      BY <2>1, WebhookLocal, WebhookIs DEF Process
    <3>2. Goto(h, l)
      BY <1>5 DEF ReceiveWebhook
    <3> HIDE DEF l
    <3>3. QED  BY <2>1, <3>1, <3>2, GotoType
  <2>3. eventRow' \in [Event -> {"none", "recorded", "processed", "error"}]
    BY <1>5 DEF ReceiveWebhook, TypeOK
  <2>4. QED  BY <1>5, <2>2, <2>3 DEF ReceiveWebhook, TypeOK, row, provider
<1>6. ASSUME NEW h \in Process, Continue(h) \/ GoesWrong(h) PROVE TypeOK'
  <2> DEFINE l == proc[h]
  <2>1. l \in Local /\ (l.pc # "idle" => l.pay \in Payment)
    BY DEF TypeOK
  <2>2. CASE CallProvider(h)
    <3>1. PICK k \in AnsweredWith(l.pay) :
             /\ ProviderAccepts(l.pay, k)
             /\ Goto(h, [l EXCEPT !.pc = "store", !.att = k])
      BY <2>2 DEF CallProvider
    <3>2. k \in PromptNo /\ l.pay \in Payment
      BY <3>1, <2>1, <2>2 DEF AnsweredWith, PromptNo, CallProvider
    <3>3. prompt' \in [Payment -> [PromptNo -> PromptState]]
      BY <3>1, <3>2 DEF ProviderAccepts, TypeOK, PromptState
    <3>4. [l EXCEPT !.pc = "store", !.att = k] \in Local
      <4>1. k \in 0 .. MaxPrompts
        BY <3>2 DEF PromptNo
      <4>2. QED  BY <2>1, <4>1 DEF Local
    <3>5. [l EXCEPT !.pc = "store", !.att = k].pay \in Payment
      BY <2>1, <3>2 DEF Local
    <3>6. QED
      BY <2>2, <3>1, <3>3, <3>4, <3>5, GotoType DEF CallProvider, TypeOK, row
  <2>3. CASE ProviderRefuses(h)
    <3>1. [l EXCEPT !.pc = "fail"] \in Local
          /\ [l EXCEPT !.pc = "fail"].pay \in Payment
      BY <2>1, <2>3 DEF Local, ProviderRefuses
    <3>2. QED
      BY <2>3, <3>1, GotoType DEF ProviderRefuses, TypeOK, row, provider
  <2>4. CASE InitiateFailed(h)
    BY <2>1, <2>4, ReturnType DEF InitiateFailed, TypeOK, Status, Outcome,
                                    provider
  <2>5. CASE StoreRef(h)
    <3>1. [l EXCEPT !.pc = "settle", !.result = "SUCCESSFUL"] \in Local
          /\ [l EXCEPT !.pc = "settle", !.result = "SUCCESSFUL"].pay \in Payment
      BY <2>1, <2>5 DEF Local, StoreRef, Outcome
    <3>2. /\ proc' \in [Process -> Local]
          /\ \A g \in Process : proc'[g].pc # "idle" => proc'[g].pay \in Payment
      BY <2>5, <3>1, GotoType, ReturnType DEF StoreRef
    <3>3. ref' \in [Payment -> 0 .. MaxPrompts]
      BY <2>1, <2>5 DEF StoreRef, TypeOK, Local
    <3>4. QED  BY <2>5, <3>2, <3>3 DEF StoreRef, TypeOK, provider
  <2>6. CASE LookupPayment(h)
    <3>1. \A c \in {"settle", "mark"} :
             [l EXCEPT !.pc = c] \in Local /\ [l EXCEPT !.pc = c].pay \in Payment
      BY <2>1, <2>6 DEF Local, LookupPayment
    <3>2. /\ proc' \in [Process -> Local]
          /\ \A g \in Process : proc'[g].pc # "idle" => proc'[g].pay \in Payment
      BY <2>6, <3>1, GotoType, ReturnType DEF LookupPayment
    <3>3. eventRow' \in [Event -> {"none", "recorded", "processed", "error"}]
      BY <2>6 DEF LookupPayment, TypeOK
    <3>4. QED  BY <2>6, <3>2, <3>3 DEF LookupPayment, TypeOK, row, provider
  <2>7. CASE MarkProcessed(h)
    <3>1. eventRow' \in [Event -> {"none", "recorded", "processed", "error"}]
      BY <2>7 DEF MarkProcessed, TypeOK
    <3>2. QED
      BY <2>7, <3>1, ReturnType DEF MarkProcessed, TypeOK, row, provider
  <2>8. CASE AskProvider(h)
    <3>1. Verified(l.pay, l.att) \in Outcome
      BY <2>1, <2>8
         DEF Verified, Verdict, Outcome, TypeOK, PromptState, AskProvider, Local,
             PromptNo
    <3>2. \A r \in Outcome :
             /\ [l EXCEPT !.pc = "settle", !.result = r] \in Local
             /\ [l EXCEPT !.pc = "settle", !.result = r].pay \in Payment
      BY <2>1, <2>8 DEF Local, AskProvider
    <3>3. /\ proc' \in [Process -> Local]
          /\ \A g \in Process : proc'[g].pc # "idle" => proc'[g].pay \in Payment
      BY <2>8, <3>1, <3>2, GotoType, ReturnType DEF AskProvider
    <3>4. QED  BY <2>8, <3>3 DEF AskProvider, TypeOK, row, provider
  <2>9. CASE Settle(h)
    <3>1. l.pay \in Payment /\ l.att \in 0 .. MaxPrompts /\ l.result \in Outcome
      BY <2>1, <2>9 DEF Settle, Local
    <3>2. ApplySettlement(l.pay, l.att, l.result)
      BY <2>9 DEF Settle
    <3>3. l.result \in Status
      BY <3>1 DEF Status
    <3>4. /\ status' \in [Payment -> Status]
          /\ ref' \in [Payment -> 0 .. MaxPrompts]
          /\ effects' \in [Payment -> Nat]
      <4>1. CASE CanSettle(l.pay)
        <5>1. status' = [status EXCEPT ![l.pay] = l.result]
          BY <3>2, <4>1 DEF ApplySettlement
        <5>2. ref' = [ref EXCEPT ![l.pay] = IF l.att = 0 THEN @ ELSE l.att]
          BY <3>2, <4>1 DEF ApplySettlement
        <5>3. effects' \in {effects, [effects EXCEPT ![l.pay] = @ + 1]}
          BY <3>2, <4>1 DEF ApplySettlement
        <5>4. status' \in [Payment -> Status]
          BY <3>3, <5>1 DEF TypeOK
        <5>5. ref' \in [Payment -> 0 .. MaxPrompts]
          BY <3>1, <5>2 DEF TypeOK
        <5>6. effects' \in [Payment -> Nat]
          BY <3>1, <5>3 DEF TypeOK
        <5>7. QED  BY <5>4, <5>5, <5>6
      <4>2. CASE ~CanSettle(l.pay)
        BY <3>2, <4>2 DEF ApplySettlement, TypeOK
      <4>3. QED  BY <4>1, <4>2
    <3>5. [l EXCEPT !.pc = "mark"] \in Local
          /\ [l EXCEPT !.pc = "mark"].pay \in Payment
      BY <2>1, <3>1 DEF Local
    <3>6. /\ proc' \in [Process -> Local]
          /\ \A g \in Process : proc'[g].pc # "idle" => proc'[g].pay \in Payment
      BY <2>9, <3>5, GotoType, ReturnType DEF Settle
    <3>7. QED  BY <2>9, <3>4, <3>6 DEF Settle, TypeOK, provider
  <2>10. CASE AnswerLost(h)
    <3>1. PICK k \in AnsweredWith(l.pay) : ProviderAccepts(l.pay, k)
      BY <2>10 DEF AnswerLost
    <3>2. k \in PromptNo /\ l.pay \in Payment
      BY <3>1, <2>1, <2>10 DEF AnsweredWith, PromptNo, AnswerLost
    <3>3. prompt' \in [Payment -> [PromptNo -> PromptState]]
      BY <3>1, <3>2 DEF ProviderAccepts, TypeOK, PromptState
    <3>4. \A c \in {"recall", "fail"} :
             [l EXCEPT !.pc = c] \in Local /\ [l EXCEPT !.pc = c].pay \in Payment
      BY <2>1, <3>2 DEF Local
    <3>5. /\ proc' \in [Process -> Local]
          /\ \A g \in Process : proc'[g].pc # "idle" => proc'[g].pay \in Payment
      BY <2>10, <3>4, GotoType DEF AnswerLost
    <3>6. QED
      BY <2>10, <3>3, <3>5, FaultType DEF AnswerLost, TypeOK, row
  <2>11. CASE Throws(h)
    <3>1. eventRow' \in [Event -> {"none", "recorded", "processed", "error"}]
      BY <2>11 DEF Throws, TypeOK
    <3>2. QED
      BY <2>11, <3>1, ReturnType, FaultType DEF Throws, TypeOK, row, provider
  <2>12. CASE Crash(h)
    BY <2>12, ReturnType, FaultType DEF Crash, TypeOK, row, provider
  <2>13. QED
    BY <1>6, <2>2, <2>3, <2>4, <2>5, <2>6, <2>7, <2>8, <2>9, <2>10, <2>11, <2>12
       DEF Continue, GoesWrong
<1>7. CASE StartSweep
  BY <1>7 DEF StartSweep, Oldest, Pending, TypeOK, row, provider
<1>8. ASSUME NEW p \in Payment, SweepNext(p) PROVE TypeOK'
  <2>1. Cron \in Process /\ ReadForVerify(Cron, p)
    BY <1>8 DEF SweepNext, Process
  <2>2. QED  BY <1>4, <1>8, <2>1 DEF SweepNext, TypeOK, row, provider
<1>9. ASSUME NEW h \in Handler, NEW p \in Payment, ClientVerify(h, p)
      PROVE  TypeOK'
  <2>1. h \in Process /\ ReadForVerify(h, p)
    BY <1>9 DEF ClientVerify, Process
  <2>2. QED  BY <1>4, <1>9, <2>1 DEF ClientVerify, TypeOK, row, provider
<1>10. QED
  BY <1>1, <1>2, <1>3, <1>5, <1>6, <1>7, <1>8, <1>9
     DEF Next, RequestStart, SweepStep

\* TypeOK holds for every instance.
THEOREM TypeCorrect == Spec => []TypeOK
BY TypeInit, TypeNext, PTL DEF Spec

-----------------------------------------------------------------------------
(***************************************************************************)
(* Once paid, a prompt stays paid: no step of the code or of the provider  *)
(* takes a payment back.                                                   *)
(***************************************************************************)
LEMMA AnsweredType ==
  ASSUME TypeOK, NEW h \in Process, CallProvider(h) \/ AnswerLost(h),
         NEW j \in AnsweredWith(proc[h].pay)
  PROVE  j \in PromptNo /\ proc[h].pay \in Payment
<1>1. proc[h].pc # "idle"
  BY DEF CallProvider, AnswerLost
<1>2. 1 \in PromptNo
  BY PaymentsAssumption DEF PromptNo
<1>3. QED  BY <1>1, <1>2 DEF AnsweredWith, TypeOK

LEMMA PromptsGrow ==
  ASSUME TypeOK, [Next]_vars, NEW p \in Payment, NEW k \in PromptNo
  PROVE  /\ prompt[p][k] = "paid" => prompt'[p][k] = "paid"
         /\ prompt[p][k] # "none" => prompt'[p][k] # "none"
<1>1. CASE UNCHANGED prompt
  BY <1>1
<1>2. ASSUME NEW q \in Payment, NEW j \in PromptNo,
             PromptStep(q, j)
      PROVE  /\ prompt[p][k] = "paid" => prompt'[p][k] = "paid"
             /\ prompt[p][k] # "none" => prompt'[p][k] # "none"
  BY <1>2 DEF CustomerPays, CustomerDeclined, CustomerCancels, PromptStep, IntentLowered,
         StripeNotifies, Unpaid, TypeOK
<1>3. ASSUME NEW h \in Process, CallProvider(h) \/ AnswerLost(h)
      PROVE  /\ prompt[p][k] = "paid" => prompt'[p][k] = "paid"
             /\ prompt[p][k] # "none" => prompt'[p][k] # "none"
  <2>1. PICK j \in AnsweredWith(proc[h].pay) : ProviderAccepts(proc[h].pay, j)
    BY <1>3 DEF CallProvider, AnswerLost
  <2>2. j \in PromptNo /\ proc[h].pay \in Payment
    BY <1>3, <2>1, AnsweredType
  <2>3. QED  BY <2>1, <2>2 DEF ProviderAccepts, TypeOK
<1>4. QED
  BY <1>1, <1>2, <1>3
     DEF Next, ProviderStep, RequestStart, Continue, GoesWrong, SweepStep, vars,
         provider, OrderCancelled, Initiate, ClientVerify, ReceiveWebhook,
         ProviderRefuses, InitiateFailed, StoreRef, LookupPayment,
         MarkProcessed, AskProvider, Settle, Throws, Crash, StartSweep,
         SweepNext

LEMMA PaidStays ==
  ASSUME TypeOK, [Next]_vars, NEW p \in Payment, Paid(p)
  PROVE  Paid(p)'
BY PromptsGrow DEF Paid

LEMMA SafetyInit == Init => SafetyInv
BY TypeInit
   DEF Init, SafetyInv, HonestReports, WalletPrompts, UnsettledHasNoEffects,
       EffectsOncePaid, SuccessMeansEffects, Idle, About, Process

\* Where the money stands after a step that leaves status and effects alone.
LEMMA MoneyUntouched ==
  ASSUME SafetyInv, [Next]_vars, UNCHANGED <<status, effects>>
  PROVE  UnsettledHasNoEffects' /\ EffectsOncePaid' /\ SuccessMeansEffects'
<1>1. \A p \in Payment : Paid(p) => Paid(p)'
  BY PaidStays DEF SafetyInv
<1>2. QED
  BY <1>1
     DEF SafetyInv, UnsettledHasNoEffects, EffectsOncePaid, SuccessMeansEffects

LEMMA MoneyNext ==
  ASSUME SafetyInv, [Next]_vars
  PROVE  UnsettledHasNoEffects' /\ EffectsOncePaid' /\ SuccessMeansEffects'
<1> DEFINE Money ==
      UnsettledHasNoEffects' /\ EffectsOncePaid' /\ SuccessMeansEffects'
<1>1. \A p \in Payment : Paid(p) => Paid(p)'
  BY PaidStays DEF SafetyInv
<1>2. CASE UNCHANGED <<status, effects>>
  BY <1>2, MoneyUntouched
<1>3. ASSUME NEW p \in Payment, OrderCancelled(p) PROVE Money
  BY <1>1, <1>3
     DEF OrderCancelled, SafetyInv, TypeOK, UnsettledHasNoEffects,
         EffectsOncePaid, SuccessMeansEffects
<1>4. ASSUME NEW h \in Handler, NEW p \in Payment, Initiate(h, p) PROVE Money
  BY <1>1, <1>4
     DEF Initiate, SafetyInv, TypeOK, UnsettledHasNoEffects, EffectsOncePaid,
         SuccessMeansEffects
<1>5. ASSUME NEW h \in Process, InitiateFailed(h) PROVE Money
  <2>1. proc[h].pay \in Payment
    BY <1>5 DEF InitiateFailed, SafetyInv, TypeOK
  <2>2. QED
    BY <1>1, <1>5, <2>1
       DEF InitiateFailed, SafetyInv, TypeOK, UnsettledHasNoEffects,
           EffectsOncePaid, SuccessMeansEffects
<1>6. ASSUME NEW h \in Process, Settle(h) PROVE Money
  <2> DEFINE l == proc[h]
  <2>1. l.pay \in Payment /\ l.pc = "settle"
    BY <1>6 DEF Settle, SafetyInv, TypeOK
  <2>2. CASE ~CanSettle(l.pay)
    <3>1. UNCHANGED <<status, effects>>
      BY <1>6, <2>2 DEF Settle, ApplySettlement
    <3>2. QED  BY <1>2, <3>1
  <2>3. CASE CanSettle(l.pay)
    <3>1. status' = [status EXCEPT ![l.pay] = l.result]
      BY <1>6, <2>3 DEF Settle, ApplySettlement
    <3>2. effects' = IF l.result = "SUCCESSFUL"
                       THEN [effects EXCEPT ![l.pay] = @ + 1] ELSE effects
      BY <1>6, <2>3 DEF Settle, ApplySettlement
    <3>3. effects[l.pay] = 0 /\ effects \in [Payment -> Nat]
      BY <2>1, <2>3
         DEF CanSettle, SafetyInv, TypeOK, UnsettledHasNoEffects
    <3>4. CASE l.result = "SUCCESSFUL"
      <4>1. \A p \in Payment : p = l.pay => Paid(p)'
        BY <1>1, <2>1, <3>4 DEF SafetyInv, HonestReports
      <4>2. /\ status' = [status EXCEPT ![l.pay] = "SUCCESSFUL"]
            /\ effects' = [effects EXCEPT ![l.pay] = 1]
        BY <3>1, <3>2, <3>3, <3>4
      <4>3. QED
        BY <1>1, <2>1, <4>1, <4>2
           DEF SafetyInv, TypeOK, UnsettledHasNoEffects, EffectsOncePaid,
               SuccessMeansEffects
    <3>5. CASE l.result # "SUCCESSFUL"
      <4>1. l.result # "PENDING" /\ l.result \in Outcome
        BY <2>1 DEF SafetyInv, HonestReports, TypeOK, Local
      <4>2. /\ status' = [status EXCEPT ![l.pay] = l.result]
            /\ effects' = effects
        BY <3>1, <3>2, <3>5, <4>1
      <4>3. l.result \in {"FAILED", "CANCELLED", "REFUNDED"}
        BY <3>5, <4>1 DEF Outcome
      <4>4. QED
        BY <1>1, <2>1, <3>3, <4>2, <4>3
           DEF SafetyInv, TypeOK, UnsettledHasNoEffects, EffectsOncePaid,
               SuccessMeansEffects
    <3>6. QED  BY <3>4, <3>5
  <2>4. QED  BY <2>2, <2>3
<1>7. QED
  BY <1>2, <1>3, <1>4, <1>5, <1>6
     DEF Next, ProviderStep, RequestStart, Continue, GoesWrong, SweepStep, vars,
         row, CustomerPays, CustomerDeclined, CustomerCancels, PromptStep, IntentLowered,
         StripeNotifies, ClientVerify,
         ReceiveWebhook, CallProvider, ProviderRefuses, StoreRef,
         LookupPayment, MarkProcessed, AskProvider, AnswerLost, Throws, Crash,
         StartSweep, SweepNext

-----------------------------------------------------------------------------
LEMMA WalletNext ==
  ASSUME SafetyInv, [Next]_vars
  PROVE  WalletPrompts'
<1>1. CASE UNCHANGED <<method, prompt>>
  BY <1>1 DEF SafetyInv, WalletPrompts
<1>2. ASSUME NEW p \in Payment, NEW k \in PromptNo,
             PromptStep(p, k)
      PROVE  WalletPrompts'
  <2>1. method[p] # "WALLET" /\ method' = method
    BY <1>2
       DEF CustomerPays, CustomerDeclined, CustomerCancels, PromptStep, IntentLowered,
         StripeNotifies, Unpaid, SafetyInv, WalletPrompts, row
  <2>2. \A q \in Payment \ {p}, j \in PromptNo : prompt'[q][j] = prompt[q][j]
    BY <1>2
       DEF CustomerPays, CustomerDeclined, CustomerCancels, PromptStep, IntentLowered,
         StripeNotifies, SafetyInv, TypeOK
  <2>3. QED  BY <2>1, <2>2 DEF SafetyInv, WalletPrompts
<1>3. ASSUME NEW h \in Process, CallProvider(h) \/ AnswerLost(h)
      PROVE  WalletPrompts'
  <2>1. PICK j \in AnsweredWith(proc[h].pay) : ProviderAccepts(proc[h].pay, j)
    BY <1>3 DEF CallProvider, AnswerLost
  <2>2. j \in PromptNo /\ proc[h].pay \in Payment /\ method' = method
    BY <1>3, <2>1, AnsweredType DEF CallProvider, AnswerLost, SafetyInv, row
  <2>3. QED
    BY <2>1, <2>2 DEF ProviderAccepts, SafetyInv, TypeOK, WalletPrompts
<1>4. QED
  BY <1>1, <1>2, <1>3
     DEF Next, ProviderStep, RequestStart, Continue, GoesWrong, SweepStep, vars,
         row, provider, OrderCancelled, Initiate, ClientVerify, ReceiveWebhook,
         ProviderRefuses, InitiateFailed, StoreRef, LookupPayment,
         MarkProcessed, AskProvider, Settle, Throws, Crash, StartSweep,
         SweepNext

-----------------------------------------------------------------------------
\* Events report what happened, whatever happens next.
LEMMA EventsNext ==
  ASSUME SafetyInv, [Next]_vars, NEW e \in events'
  PROVE  /\ prompt'[e.pay][e.att] # "none"
         /\ e.result = "SUCCESSFUL" /\ ~e.short => Paid(e.pay)'
<1> DEFINE Honest == /\ prompt'[e.pay][e.att] # "none"
                     /\ e.result = "SUCCESSFUL" /\ ~e.short => Paid(e.pay)'
<1>1. CASE e \in events
  <2>1. e.pay \in Payment /\ e.att \in PromptNo
    BY <1>1 DEF SafetyInv, TypeOK, Event
  <2>2. QED
    BY <1>1, <2>1, PromptsGrow, PaidStays DEF SafetyInv, HonestReports
<1>2. ASSUME NEW p \in Payment, NEW k \in PromptNo, e \notin events,
             PromptStep(p, k)
      PROVE  Honest
  <2> DEFINE Sent(r) == e = Report(p, k, r)
  <2>1. \A r : Sent(r) => /\ e.pay = p /\ e.att = k /\ e.result = r
                         /\ e.short = Lower(p, k)
    BY DEF Report
  <2>2. prompt[p][k] # "none" => prompt'[p][k] # "none"
    BY <1>2, PromptsGrow DEF SafetyInv
  <2>3. CASE CustomerPays(p, k)
    <3>1. Sent("SUCCESSFUL")
      BY <1>2, <2>3 DEF CustomerPays, Send
    <3>2. prompt[p][k] \in {"open", "lowered"}
      BY <2>3 DEF CustomerPays, Unpaid
    <3>3. ~Lower(p, k) => prompt'[p][k] = "paid"
      BY <2>3, <3>2 DEF CustomerPays, Lower, SafetyInv, TypeOK
    <3>4. QED  BY <2>1, <2>2, <3>1, <3>2, <3>3 DEF Paid
  <2>4. CASE CustomerDeclined(p, k) \/ CustomerCancels(p, k) \/ StripeNotifies(p, k)
    <3>1. PICK r \in {"FAILED", "CANCELLED", "PENDING", "REFUNDED"} : Sent(r)
      BY <1>2, <2>4 DEF CustomerDeclined, CustomerCancels, StripeNotifies, Send
    <3>2. prompt[p][k] # "none"
      BY <2>4 DEF CustomerDeclined, CustomerCancels, StripeNotifies, Unpaid
    <3>3. QED  BY <2>1, <2>2, <3>1, <3>2
  <2>5. CASE IntentLowered(p, k)
    BY <1>2, <2>5 DEF IntentLowered
  <2>6. QED  BY <1>2, <2>3, <2>4, <2>5 DEF PromptStep
<1>3. CASE events' = events
  BY <1>1, <1>3
<1>4. QED
  BY <1>1, <1>2, <1>3
     DEF Next, ProviderStep, RequestStart, Continue, GoesWrong, SweepStep, vars,
         row, provider, OrderCancelled, Initiate, ClientVerify, ReceiveWebhook,
         CallProvider, ProviderRefuses, InitiateFailed, StoreRef, LookupPayment,
         MarkProcessed, AskProvider, AnswerLost, Settle, Throws, Crash,
         StartSweep, SweepNext

\* What a handler must hold before it may settle, as a predicate of its local.
Holds(l) ==
  /\ l.pc = "lookup" => (l.result = "SUCCESSFUL" /\ ~l.short => Paid(l.pay))
  /\ l.pc = "settle" =>
       l.result # "PENDING" /\ (l.result = "SUCCESSFUL" => Paid(l.pay))
  /\ (l.pc = "store" /\ method[l.pay] = "WALLET") => Paid(l.pay)

\* A local that changes nothing about what it holds still holds it.
LEMMA HoldsStays ==
  ASSUME SafetyInv, [Next]_vars, NEW g \in Process, proc'[g] = proc[g]
  PROVE  Holds(proc[g])'
<1>1. method' = method
  BY DEF Next, ProviderStep, RequestStart, Continue, GoesWrong, SweepStep, vars,
         row, provider, OrderCancelled, CustomerPays, CustomerDeclined,
         CustomerCancels, PromptStep, IntentLowered,
         StripeNotifies, Initiate, ClientVerify, ReceiveWebhook,
         CallProvider, ProviderRefuses, InitiateFailed, StoreRef, LookupPayment,
         MarkProcessed, AskProvider, AnswerLost, Settle, Throws, Crash,
         StartSweep, SweepNext
<1>2. \A p \in Payment : Paid(p) => Paid(p)'
  BY PaidStays DEF SafetyInv
<1>3. proc[g].pc # "idle" => proc[g].pay \in Payment
  BY DEF SafetyInv, TypeOK
<1>4. QED
  BY <1>1, <1>2, <1>3
     DEF Holds, SafetyInv, HonestReports, Paid, PromptNo

LEMMA OthersStay ==
  ASSUME TypeOK, NEW h \in Process, NEW l, Goto(h, l), NEW g \in Process, g # h
  PROVE  proc'[g] = proc[g]
BY DEF Goto, TypeOK
LEMMA OwnLocal ==
  ASSUME TypeOK, NEW h \in Process, NEW l, Goto(h, l)
  PROVE  proc'[h] = l
BY DEF Goto, TypeOK

\* A handler that waits, asks or fails holds nothing yet.
LEMMA HoldsNothing ==
  ASSUME NEW l, l.pc \notin {"lookup", "settle", "store"}
  PROVE  Holds(l)
BY DEF Holds

LEMMA ReportsNext ==
  ASSUME SafetyInv, [Next]_vars, NEW g \in Process
  PROVE  Holds(proc[g])'
<1> DEFINE l == proc[g]
<1>1. CASE proc'[g] = proc[g]
  BY <1>1, HoldsStays
<1>2. CASE proc'[g].pc \notin {"lookup", "settle", "store"}
  BY <1>2 DEF Holds
<1>3. ASSUME NEW h \in Process, h # g, Continue(h) \/ GoesWrong(h)
      PROVE  proc'[g] = proc[g]
  BY <1>3
     DEF Continue, GoesWrong, CallProvider, ProviderRefuses, InitiateFailed,
         StoreRef, LookupPayment, MarkProcessed, AskProvider, AnswerLost,
         Settle, Throws, Crash, Return, Goto, SafetyInv, TypeOK
<1>4. ASSUME NEW h \in Handler, NEW p \in Payment,
             Initiate(h, p) \/ ClientVerify(h, p)
      PROVE  \/ proc'[g] = proc[g]
             \/ proc'[g].pc \notin {"lookup", "settle", "store"}
  <2>1. CASE Initiate(h, p)
    BY <2>1 DEF Initiate, About, Goto, SafetyInv, TypeOK
  <2>2. CASE ClientVerify(h, p)
    BY <2>2 DEF ClientVerify, ReadForVerify, About, Goto, SafetyInv, TypeOK
  <2>3. QED  BY <1>4, <2>1, <2>2
<1>5. ASSUME NEW h \in Handler, NEW e \in events, ReceiveWebhook(h, e)
      PROVE  Holds(proc[g])'
  <2>1. CASE h = g
    <3>1. /\ proc'[g].pc = "lookup" /\ proc'[g].pay = e.pay
          /\ proc'[g].result = e.result /\ proc'[g].short = e.short
      BY <1>5, <2>1, OwnLocal, WebhookIs DEF ReceiveWebhook, SafetyInv, Process
    <3>2. e \in events' /\ e.pay \in Payment /\ e.att \in PromptNo
      BY <1>5 DEF ReceiveWebhook, provider, SafetyInv, TypeOK, Event
    <3>3. e.result = "SUCCESSFUL" /\ ~e.short => Paid(e.pay)'
      BY <3>2, EventsNext
    <3>4. QED  BY <3>1, <3>2, <3>3 DEF Holds, Paid
  <2>2. CASE h # g
    BY <1>1, <1>5, <2>2 DEF ReceiveWebhook, Goto, SafetyInv, TypeOK
  <2>3. QED  BY <2>1, <2>2
<1>6. ASSUME Continue(g) PROVE Holds(proc[g])'
  <2>1. l \in Local /\ (l.pc # "idle" => l.pay \in Payment)
    BY DEF SafetyInv, TypeOK
  <2>2. CASE CallProvider(g)
    <3>1. PICK k \in AnsweredWith(l.pay) :
             /\ ProviderAccepts(l.pay, k)
             /\ Goto(g, [l EXCEPT !.pc = "store", !.att = k])
      BY <2>2 DEF CallProvider
    <3>2. k \in PromptNo /\ l.pay \in Payment
      BY <2>2, <3>1, AnsweredType DEF SafetyInv
    <3>3. /\ proc'[g].pc = "store"
          /\ proc'[g].pay = l.pay
      BY <2>1, <3>1 DEF Goto, SafetyInv, TypeOK, Local
    <3>4. method[l.pay] = "WALLET" => prompt'[l.pay][k] = "paid"
      <4>1. prompt[l.pay][k] \in {"none", "paid"} \/ method[l.pay] # "WALLET"
        BY <3>2 DEF SafetyInv, WalletPrompts
      <4>2. QED
        BY <3>1, <3>2, <4>1 DEF ProviderAccepts, SafetyInv, TypeOK
    <3>5. method' = method
      BY <2>2 DEF CallProvider, row
    <3>6. QED  BY <3>2, <3>3, <3>4, <3>5 DEF Holds, Paid
  <2>3. CASE StoreRef(g)
    <3>1. UNCHANGED <<method, prompt>>
      BY <2>3 DEF StoreRef, provider
    <3>2. CASE method[l.pay] = "WALLET"
      <4>1. Paid(l.pay)
        BY <2>3, <3>2 DEF StoreRef, SafetyInv, HonestReports
      <4>2. /\ proc'[g].pc = "settle"
            /\ proc'[g].result = "SUCCESSFUL"
            /\ proc'[g].pay = l.pay
        <5>1. proc'[g] = [l EXCEPT !.pc = "settle", !.result = "SUCCESSFUL"]
          BY <2>3, <3>2, OwnLocal DEF StoreRef, SafetyInv
        <5>2. QED  BY <2>1, <5>1 DEF Local
      <4>3. QED  BY <3>1, <4>1, <4>2 DEF Holds, Paid
    <3>3. CASE method[l.pay] # "WALLET"
      BY <1>2, <2>3, <3>3 DEF StoreRef, Return, Goto, Idle, About, SafetyInv, TypeOK
    <3>4. QED  BY <3>2, <3>3
  <2>4. CASE LookupPayment(g)
    <3>1. UNCHANGED <<method, prompt>>
      BY <2>4 DEF LookupPayment, row, provider
    <3>2. CASE FindPaymentForEvent(l.pay, l.att) /\ AmountCovers(l.short)
      <4>1. CASE l.result = "PENDING"
        <5>1. proc'[g].pc = "mark"
          BY <2>1, <2>4, <3>2, <4>1, OwnLocal DEF LookupPayment, SafetyInv, Local
        <5>2. QED  BY <1>2, <5>1
      <4>2. CASE l.result # "PENDING"
        <5>1. proc'[g] = [l EXCEPT !.pc = "settle"]
          BY <2>4, <3>2, <4>2, OwnLocal DEF LookupPayment, SafetyInv
        <5>2. /\ proc'[g].pc = "settle"
              /\ proc'[g].result = l.result
              /\ proc'[g].pay = l.pay
          BY <2>1, <5>1 DEF Local
        <5>3. l.result = "SUCCESSFUL" => Paid(l.pay)
          BY <2>4, <3>2 DEF LookupPayment, SafetyInv, HonestReports, AmountCovers
        <5>4. QED  BY <3>1, <4>2, <5>2, <5>3 DEF Holds, Paid
      <4>3. QED  BY <4>1, <4>2
    <3>3. CASE ~(FindPaymentForEvent(l.pay, l.att) /\ AmountCovers(l.short))
      BY <1>2, <2>4, <3>3, OwnLocal DEF LookupPayment, Return, Idle, About, SafetyInv
    <3>4. QED  BY <3>2, <3>3
  <2>5. CASE AskProvider(g)
    <3>1. UNCHANGED <<method, prompt>>
      BY <2>5 DEF AskProvider, row, provider
    <3> DEFINE answer == Verified(l.pay, l.att)
               short == l.att # 0 /\ Lower(l.pay, l.att)
    <3>2. CASE answer = "PENDING" \/ (answer = "SUCCESSFUL" /\ ~AmountCovers(short))
      BY <1>2, <2>5, <3>2, OwnLocal DEF AskProvider, Return, Idle, About, SafetyInv
    <3>3. CASE answer # "PENDING" /\ (answer = "SUCCESSFUL" => AmountCovers(short))
      <4>1. /\ proc'[g].pc = "settle"
            /\ proc'[g].result = answer
            /\ proc'[g].pay = l.pay
        <5>1. proc'[g] = [l EXCEPT !.pc = "settle", !.result = answer]
          BY <2>5, <3>3, OwnLocal DEF AskProvider, SafetyInv
        <5>2. QED  BY <2>1, <5>1 DEF Local
      <4>2. answer = "SUCCESSFUL" => Paid(l.pay)
        <5>1. l.pay \in Payment /\ l.att \in 0 .. MaxPrompts
          BY <2>1, <2>5 DEF AskProvider, Local
        <5>2. 1 \in PromptNo /\ (l.att # 0 => l.att \in PromptNo)
          BY <5>1, PaymentsAssumption DEF PromptNo
        <5>3. ASSUME NEW k \in PromptNo, Verdict[prompt[l.pay][k]] = "SUCCESSFUL",
                     ~Lower(l.pay, k)
              PROVE  prompt[l.pay][k] = "paid"
          <6>1. prompt[l.pay][k] \in PromptState
            BY <5>1 DEF SafetyInv, TypeOK
          <6>2. QED  BY <5>3, <6>1 DEF Verdict, PromptState, Lower
        <5>4. answer = "SUCCESSFUL" => ~short
          BY <3>3 DEF AmountCovers
        <5>5. QED  BY <5>1, <5>2, <5>3, <5>4 DEF Verified, Paid
      <4>3. QED  BY <3>1, <3>3, <4>1, <4>2 DEF Holds, Paid
    <3>4. QED  BY <3>2, <3>3
  <2>6. CASE Settle(g)
    BY <1>2, <2>1, <2>6
       DEF Settle, Return, Goto, Idle, About, SafetyInv, TypeOK, Local
  <2>7. CASE ProviderRefuses(g) \/ InitiateFailed(g) \/ MarkProcessed(g)
    BY <1>2, <2>1, <2>7
       DEF ProviderRefuses, InitiateFailed, MarkProcessed, Return, Goto, Idle,
           About, SafetyInv, TypeOK, Local
  <2>8. QED
    BY <1>6, <2>2, <2>3, <2>4, <2>5, <2>6, <2>7 DEF Continue
<1>7. ASSUME GoesWrong(g)
      PROVE  proc'[g].pc \notin {"lookup", "settle", "store"}
  <2>1. l \in Local
    BY DEF SafetyInv, TypeOK
  <2>2. QED
    BY <1>7, <2>1
       DEF GoesWrong, AnswerLost, Throws, Crash, Return, Goto, Idle, About, SafetyInv,
           TypeOK, Local
<1>8. CASE ProviderStep \/ StartSweep \/ UNCHANGED vars
  BY <1>1, <1>8
     DEF ProviderStep, StartSweep, vars, OrderCancelled, CustomerPays,
         CustomerDeclined, CustomerCancels, PromptStep, IntentLowered,
         StripeNotifies
<1>10. ASSUME NEW h \in Process, Continue(h) \/ GoesWrong(h)
       PROVE  Holds(proc[g])'
  <2>1. CASE h # g
    BY <1>1, <1>3, <1>10, <2>1
  <2>2. CASE h = g
    BY <1>2, <1>6, <1>7, <1>10, <2>2
  <2>3. QED  BY <2>1, <2>2
<1>11. ASSUME NEW h \in Handler, RequestStart(h) PROVE Holds(proc[g])'
  <2>1. CASE \E p \in Payment : Initiate(h, p) \/ ClientVerify(h, p)
    <3>1. PICK p \in Payment : Initiate(h, p) \/ ClientVerify(h, p)
      BY <2>1
    <3>2. \/ proc'[g] = proc[g]
          \/ proc'[g].pc \notin {"lookup", "settle", "store"}
      BY <3>1, <1>4
    <3>3. QED  BY <3>2, <1>1, <1>2
  <2>2. CASE \E e \in events : ReceiveWebhook(h, e)
    BY <1>5, <2>2
  <2>3. QED  BY <1>11, <2>1, <2>2 DEF RequestStart
<1>12. ASSUME NEW p \in Payment, SweepNext(p) PROVE Holds(proc[g])'
  <2>1. \/ proc'[g] = proc[g]
        \/ proc'[g].pc \notin {"lookup", "settle", "store"}
    BY <1>12 DEF SweepNext, ReadForVerify, About, Goto, SafetyInv, TypeOK
  <2>2. QED  BY <2>1, <1>1, <1>2
<1>13. QED
  <2>1. CASE ProviderStep \/ StartSweep \/ UNCHANGED vars
    BY <1>1, <1>8, <2>1
  <2>2. QED
    BY <1>10, <1>11, <1>12, <2>1 DEF Next, SweepStep

LEMMA SafetyNext == SafetyInv /\ [Next]_vars => SafetyInv'
<1> SUFFICES ASSUME SafetyInv, [Next]_vars PROVE SafetyInv'
  OBVIOUS
<1>1. TypeOK'
  BY TypeNext DEF SafetyInv
<1>2. HonestReports'
  BY EventsNext, ReportsNext DEF HonestReports, Holds
<1>3. QED
  BY <1>1, <1>2, MoneyNext, WalletNext DEF SafetyInv

\* The invariant of settlement holds for every instance.
THEOREM Safety == Spec => []SafetyInv
BY SafetyInit, SafetyNext, PTL DEF Spec

\* The effects of a payment run at most once, and only for money the provider
\* took, whatever the number of handlers, replays and faults.
THEOREM EffectsOncePaidHolds == Spec => []EffectsOncePaid
<1>1. SafetyInv => EffectsOncePaid
  BY DEF SafetyInv
<1>2. QED  BY <1>1, Safety, PTL

\* A payment shown as SUCCESSFUL has had its effects.
THEOREM SuccessMeansEffectsHolds == Spec => []SuccessMeansEffects
<1>1. SafetyInv => SuccessMeansEffects
  BY DEF SafetyInv
<1>2. QED  BY <1>1, Safety, PTL

-----------------------------------------------------------------------------
(***************************************************************************)
(* The detailed payments implement the abstract settlement.                *)
(***************************************************************************)
Charged == {p \in Payment : Paid(p)}

LEMMA ChargeStep ==
  ASSUME SafetyInv, [Next]_vars, NEW q \in Payment, UNCHANGED effects,
         \A p \in Payment \ {q}, k \in PromptNo : prompt'[p][k] = prompt[p][k]
  PROVE  [Settlement!Next]_(Settlement!vars)
<1>1. \A p \in Payment : Paid(p) => Paid(p)'
  BY PaidStays DEF SafetyInv
<1>2. \A p \in Payment \ {q} : Paid(p)' = Paid(p)
  BY DEF Paid
<1>3. CASE Paid(q)'
  <2>1. Charged' = Charged \union {q}
    BY <1>1, <1>2, <1>3 DEF Charged
  <2>2. QED
    BY <2>1 DEF Settlement!Next, Settlement!Charge, Charged
<1>4. CASE ~Paid(q)'
  <2>1. Charged' = Charged
    BY <1>1, <1>2, <1>4 DEF Charged
  <2>2. QED
    BY <2>1 DEF Settlement!vars, Charged
<1>5. QED  BY <1>3, <1>4

LEMMA RefinementNext ==
  ASSUME SafetyInv, [Next]_vars
  PROVE  [Settlement!Next]_(Settlement!vars)
<1>1. CASE UNCHANGED <<prompt, effects>>
  <2>1. Charged' = Charged
    BY <1>1 DEF Charged, Paid
  <2>2. QED  BY <1>1, <2>1 DEF Settlement!vars, Charged
<1>2. ASSUME NEW q \in Payment, NEW k \in PromptNo,
             PromptStep(q, k)
      PROVE  [Settlement!Next]_(Settlement!vars)
  <2>1. UNCHANGED effects
    BY <1>2 DEF CustomerPays, CustomerDeclined, CustomerCancels, PromptStep, IntentLowered,
         StripeNotifies, row
  <2>2. \A p \in Payment \ {q}, j \in PromptNo : prompt'[p][j] = prompt[p][j]
    BY <1>2
       DEF CustomerPays, CustomerDeclined, CustomerCancels, PromptStep, IntentLowered,
         StripeNotifies, SafetyInv, TypeOK
  <2>3. QED  BY <2>1, <2>2, ChargeStep
<1>3. ASSUME NEW h \in Process, CallProvider(h) \/ AnswerLost(h)
      PROVE  [Settlement!Next]_(Settlement!vars)
  <2>1. PICK j \in AnsweredWith(proc[h].pay) : ProviderAccepts(proc[h].pay, j)
    BY <1>3 DEF CallProvider, AnswerLost
  <2>2. PICK q \in Payment : q = proc[h].pay
    BY <1>3, <2>1, AnsweredType DEF SafetyInv
  <2>3. UNCHANGED effects
    BY <1>3 DEF CallProvider, AnswerLost, row
  <2>4. \A p \in Payment \ {q}, k \in PromptNo : prompt'[p][k] = prompt[p][k]
    BY <2>1, <2>2 DEF ProviderAccepts, SafetyInv, TypeOK
  <2>5. QED  BY <2>3, <2>4, ChargeStep
<1>4. ASSUME NEW h \in Process, Settle(h)
      PROVE  [Settlement!Next]_(Settlement!vars)
  <2> DEFINE l == proc[h]
  <2>1. UNCHANGED prompt
    BY <1>4 DEF Settle, provider
  <2>2. Charged' = Charged
    BY <2>1 DEF Charged, Paid
  <2>3. CASE effects' = effects
    BY <1>1, <2>1, <2>3
  <2>4. CASE effects' # effects
    <3>1. CanSettle(l.pay) /\ l.result = "SUCCESSFUL"
      BY <1>4, <2>4 DEF Settle, ApplySettlement
    <3>2. effects' = [effects EXCEPT ![l.pay] = @ + 1]
      BY <1>4, <3>1 DEF Settle, ApplySettlement
    <3>3. l.pay \in Payment /\ l.result = "SUCCESSFUL"
      BY <1>4, <3>1
         DEF Settle, SafetyInv, TypeOK, HonestReports
    <3>4. l.pay \in Charged
      BY <1>4, <3>3 DEF Settle, SafetyInv, HonestReports, Charged
    <3>5. effects[l.pay] = 0 /\ effects \in [Payment -> Nat]
      BY <3>1, <3>3
         DEF CanSettle, SafetyInv, TypeOK, UnsettledHasNoEffects
    <3>6. effects' = [effects EXCEPT ![l.pay] = 1]
      BY <3>2, <3>3, <3>5
    <3>7. QED
      BY <2>2, <3>3, <3>4, <3>5, <3>6
         DEF Settlement!Next, Settlement!Grant, Charged
  <2>5. QED  BY <2>3, <2>4
<1>5. QED
  BY <1>1, <1>2, <1>3, <1>4
     DEF Next, ProviderStep, RequestStart, Continue, GoesWrong, SweepStep, vars,
         row, provider, OrderCancelled, Initiate, ClientVerify, ReceiveWebhook,
         ProviderRefuses, InitiateFailed, StoreRef, LookupPayment,
         MarkProcessed, AskProvider, Throws, Crash, StartSweep, SweepNext

\* Every step of the code, of the providers and of the failures is a charge, a
\* grant or nothing: effects follow money, once.
THEOREM Refinement == Spec => ImplementsSettlement
<1>1. Init => Settlement!Init
  BY DEF Init, Settlement!Init, Paid
<1>2. SafetyInv /\ [Next]_vars => [Settlement!Next]_(Settlement!vars)
  BY RefinementNext
<1>3. QED
  BY <1>1, <1>2, Safety, PTL DEF Spec, ImplementsSettlement, Settlement!Spec

-----------------------------------------------------------------------------
LEMMA ClosedNext ==
  ASSUME TypeOK, [Next]_vars, NEW p \in Payment,
         status[p] \notin {"NONE", "PENDING"}
  PROVE  status'[p] \in {status[p], "FAILED"}
<1>1. CASE status' = status
  BY <1>1
<1>2. ASSUME NEW q \in Payment, OrderCancelled(q)
      PROVE  status'[p] = status[p]
  BY <1>2 DEF OrderCancelled, TypeOK
<1>3. ASSUME NEW h \in Handler, NEW q \in Payment, Initiate(h, q)
      PROVE  status'[p] = status[p]
  BY <1>3 DEF Initiate, TypeOK
<1>4. ASSUME NEW h \in Process, InitiateFailed(h)
      PROVE  status'[p] \in {status[p], "FAILED"}
  BY <1>4 DEF InitiateFailed, TypeOK
<1>5. ASSUME NEW h \in Process, Settle(h)
      PROVE  status'[p] = status[p]
  BY <1>5 DEF Settle, ApplySettlement, CanSettle, TypeOK
<1>6. QED
  BY <1>1, <1>2, <1>3, <1>4, <1>5
     DEF Next, ProviderStep, RequestStart, Continue, GoesWrong, SweepStep, vars,
         row, CustomerPays, CustomerDeclined, CustomerCancels, PromptStep, IntentLowered,
         StripeNotifies, ClientVerify,
         ReceiveWebhook, CallProvider, ProviderRefuses, StoreRef,
         LookupPayment, MarkProcessed, AskProvider, AnswerLost, Throws, Crash,
         StartSweep, SweepNext

-----------------------------------------------------------------------------
(***************************************************************************)
(* Closed payments stay closed, and a paid one paid if nothing settled it   *)
(* during its own call.                                                     *)
(***************************************************************************)
\* Only the catch clause overwrites a success, and it works on unpaid rows.
LEMMA SettledNext ==
  ASSUME TypeOK, FailsUnpaid, [Next]_vars, NEW p \in Payment \ crossed,
         status[p] \in TookMoney
  PROVE  status'[p] = status[p]
<1>1. CASE status' = status
  BY <1>1
<1>2. ASSUME NEW q \in Payment, OrderCancelled(q)
      PROVE  status'[p] = status[p]
  BY <1>2 DEF OrderCancelled, TookMoney, TypeOK
<1>3. ASSUME NEW h \in Handler, NEW q \in Payment, Initiate(h, q)
      PROVE  status'[p] = status[p]
  BY <1>3 DEF Initiate, TookMoney, TypeOK
<1>4. ASSUME NEW h \in Process, InitiateFailed(h)
      PROVE  status'[p] = status[p]
  <2>1. proc[h].pay # p
    BY <1>4 DEF InitiateFailed, FailsUnpaid, Calling
  <2>2. QED  BY <1>4, <2>1 DEF InitiateFailed, TypeOK
<1>5. ASSUME NEW h \in Process, Settle(h)
      PROVE  status'[p] = status[p]
  BY <1>5 DEF Settle, ApplySettlement, CanSettle, TookMoney, TypeOK
<1>6. QED
  BY <1>1, <1>2, <1>3, <1>4, <1>5
     DEF Next, ProviderStep, RequestStart, Continue, GoesWrong, SweepStep, vars,
         row, CustomerPays, CustomerDeclined, CustomerCancels, PromptStep, IntentLowered,
         StripeNotifies, ClientVerify,
         ReceiveWebhook, CallProvider, ProviderRefuses, StoreRef,
         LookupPayment, MarkProcessed, AskProvider, AnswerLost, Throws, Crash,
         StartSweep, SweepNext

\* Only a settlement reports that the provider took the money.
LEMMA SuccessBySettle ==
  ASSUME TypeOK, [Next]_vars, NEW p \in Payment,
         status[p] \notin TookMoney, status'[p] \in TookMoney
  PROVE  \E h \in Process : proc[h].pc = "settle" /\ proc[h].pay = p
<1>1. status' # status
  OBVIOUS
<1>2. ASSUME NEW q \in Payment, OrderCancelled(q)  PROVE FALSE
  BY <1>2 DEF OrderCancelled, TookMoney, TypeOK
<1>3. ASSUME NEW h \in Handler, NEW q \in Payment, Initiate(h, q)  PROVE FALSE
  BY <1>3 DEF Initiate, TookMoney, TypeOK
<1>4. ASSUME NEW h \in Process, InitiateFailed(h)  PROVE FALSE
  BY <1>4 DEF InitiateFailed, TookMoney, TypeOK
<1>5. ASSUME NEW h \in Process, Settle(h)
      PROVE  proc[h].pc = "settle" /\ proc[h].pay = p
  BY <1>5 DEF Settle, ApplySettlement, TypeOK
<1>6. QED
  BY <1>1, <1>2, <1>3, <1>4, <1>5
     DEF Next, ProviderStep, RequestStart, Continue, GoesWrong, SweepStep, vars,
         row, CustomerPays, CustomerDeclined, CustomerCancels, PromptStep, IntentLowered,
         StripeNotifies, ClientVerify,
         ReceiveWebhook, CallProvider, ProviderRefuses, StoreRef,
         LookupPayment, MarkProcessed, AskProvider, AnswerLost, Throws, Crash,
         StartSweep, SweepNext

\* A request in its call was there before, or starts on a pending payment.
LEMMA CallsStart ==
  ASSUME TypeOK, [Next]_vars, NEW g \in Process, proc'[g].pc \in Calling
  PROVE  \/ proc[g].pc \in Calling /\ proc'[g].pay = proc[g].pay
         \/ proc'[g].pay \in Payment /\ status'[proc'[g].pay] = "PENDING"
<1> DEFINE Was == proc[g].pc \in Calling /\ proc'[g].pay = proc[g].pay
<1>1. CASE proc' = proc
  BY <1>1
<1>2. ASSUME NEW h \in Process, NEW l, Goto(h, l), l.pc \notin Calling
      PROVE  Was
  BY <1>2, OthersStay, OwnLocal
<1>3. ASSUME NEW h \in Process, Return(h)
      PROVE  Was
  BY <1>2, <1>3 DEF Return, Idle, About, Calling
<1>4. ASSUME NEW h \in Handler, NEW q \in Payment, Initiate(h, q)
      PROVE  Was \/ (proc'[g].pay \in Payment /\ status'[proc'[g].pay] = "PENDING")
  <2>1. h \in Process /\ status'[q] = "PENDING"
    BY <1>4 DEF Initiate, TypeOK, Process
  <2>2. CASE g = h
    BY <1>4, <2>1, <2>2, OwnLocal, AboutIs DEF Initiate
  <2>3. CASE g # h
    BY <1>4, <2>1, <2>3, OthersStay DEF Initiate
  <2>4. QED  BY <2>2, <2>3
<1>5. ASSUME NEW h \in Process, AnswerLost(h) \/ ProviderRefuses(h)
      PROVE  Was
  <2>1. proc[h].pc \in Calling /\ proc[h] \in Local
    BY <1>5 DEF AnswerLost, ProviderRefuses, Calling, TypeOK
  <2>2. PICK pc : Goto(h, [proc[h] EXCEPT !.pc = pc])
    BY <1>5 DEF AnswerLost, ProviderRefuses
  <2>3. [proc[h] EXCEPT !.pc = pc].pay = proc[h].pay
    BY <2>1 DEF Local
  <2>4. CASE g = h
    BY <2>1, <2>2, <2>3, <2>4, OwnLocal
  <2>5. CASE g # h
    BY <2>2, <2>5, OthersStay
  <2>6. QED  BY <2>4, <2>5
<1>6. ASSUME NEW h \in Process, NEW q \in Payment, ReadForVerify(h, q)
      PROVE  Was
  <2>1. About("ask", "verify", q, ref[q]).pc = "ask"
    BY DEF About
  <2>2. QED  BY <1>1, <1>2, <1>6, <2>1 DEF ReadForVerify, Calling
<1>7. ASSUME NEW h \in Process,
             \/ CallProvider(h) \/ StoreRef(h) \/ LookupPayment(h)
             \/ AskProvider(h) \/ Settle(h)
      PROVE  Was
  <2>1. proc[h] \in Local
    BY DEF TypeOK
  <2>2. ASSUME NEW pc, pc \notin Calling, NEW k, NEW r,
               \/ Goto(h, [proc[h] EXCEPT !.pc = pc])
               \/ Goto(h, [proc[h] EXCEPT !.pc = pc, !.att = k])
               \/ Goto(h, [proc[h] EXCEPT !.pc = pc, !.result = r])
        PROVE  Was
    <3>1. /\ [proc[h] EXCEPT !.pc = pc].pc = pc
          /\ [proc[h] EXCEPT !.pc = pc, !.att = k].pc = pc
          /\ [proc[h] EXCEPT !.pc = pc, !.result = r].pc = pc
      BY <2>1 DEF Local
    <3>2. QED  BY <1>2, <2>2, <3>1
  <2>3. "store" \notin Calling /\ "settle" \notin Calling /\ "mark" \notin Calling
    BY DEF Calling
  <2>4. CASE CallProvider(h)
    BY <2>2, <2>3, <2>4 DEF CallProvider
  <2>5. CASE StoreRef(h)
    BY <1>3, <2>2, <2>3, <2>5 DEF StoreRef
  <2>6. CASE LookupPayment(h)
    BY <1>3, <2>2, <2>3, <2>6 DEF LookupPayment
  <2>7. CASE AskProvider(h)
    BY <1>3, <2>2, <2>3, <2>7 DEF AskProvider
  <2>8. CASE Settle(h)
    BY <1>3, <2>2, <2>3, <2>8 DEF Settle
  <2>9. QED  BY <1>7, <2>4, <2>5, <2>6, <2>7, <2>8
<1>8. ASSUME NEW h \in Process,
             InitiateFailed(h) \/ MarkProcessed(h) \/ Throws(h) \/ Crash(h)
      PROVE  Was
  BY <1>3, <1>8 DEF InitiateFailed, MarkProcessed, Throws, Crash
<1>9. ASSUME NEW h \in Handler, RequestStart(h)
      PROVE  Was \/ (proc'[g].pay \in Payment /\ status'[proc'[g].pay] = "PENDING")
  <2>1. h \in Process
    BY DEF Process
  <2>2. ASSUME NEW e \in events, ReceiveWebhook(h, e) PROVE Was
    BY <1>2, <2>1, <2>2, WebhookIs DEF ReceiveWebhook, Calling
  <2>3. ASSUME NEW q \in Payment, ClientVerify(h, q) PROVE Was
    BY <1>6, <2>1, <2>3 DEF ClientVerify
  <2>4. QED  BY <1>4, <1>9, <2>2, <2>3 DEF RequestStart
<1>10. CASE SweepStep
  <2>1. Cron \in Process
    BY DEF Process
  <2>2. QED
    BY <1>1, <1>6, <1>10, <2>1 DEF SweepStep, StartSweep, SweepNext
<1>11. CASE ProviderStep
  <2>1. proc' = proc
    BY <1>11 DEF ProviderStep, OrderCancelled, CustomerPays, CustomerDeclined,
                 CustomerCancels, PromptStep, IntentLowered,
         StripeNotifies
  <2>2. QED  BY <1>1, <2>1
<1>12. CASE UNCHANGED vars
  BY <1>1, <1>12 DEF vars
<1>13. QED
  BY <1>5, <1>7, <1>8, <1>9, <1>10, <1>11, <1>12 DEF Next, Continue, GoesWrong

LEMMA FailsUnpaidNext ==
  ASSUME CrossedInv, [Next]_vars, crossed \subseteq crossed'
  PROVE  FailsUnpaid'
<1>1. TypeOK /\ Crossing \subseteq crossed /\ FailsUnpaid
  BY DEF CrossedInv
<1>2. SUFFICES ASSUME NEW g \in Process, proc'[g].pc \in Calling,
                      proc'[g].pay \notin crossed,
                      status'[proc'[g].pay] \in TookMoney
               PROVE  FALSE
  BY DEF FailsUnpaid, TookMoney
<1>3. proc[g].pc \in Calling /\ proc'[g].pay = proc[g].pay
  BY <1>1, <1>2, CallsStart DEF TookMoney
<1>4. proc[g].pay \in Payment /\ status[proc[g].pay] \notin TookMoney
  BY <1>1, <1>2, <1>3 DEF TypeOK, FailsUnpaid, Calling
<1>5. \E h \in Process : proc[h].pc = "settle" /\ proc[h].pay = proc[g].pay
  BY <1>1, <1>2, <1>3, <1>4, SuccessBySettle
<1>6. proc[g].pay \in Crossing
  BY <1>3, <1>4, <1>5 DEF Crossing
<1>7. QED  BY <1>1, <1>2, <1>3, <1>6

\* Remembering takes nothing away: a behaviour with the history is one of the
\* payments.
LEMMA NotedIsSpec == NotedSpec => Spec
<1>1. [NotedNext]_<<vars, crossed>> => [Next]_vars
  BY DEF NotedNext
<1>2. QED  BY <1>1, PTL DEF NotedSpec, NotedInit, Spec

\* A payment that left PENDING is never reopened and never succeeds later; and
\* a paid one stays paid, whatever callbacks, polls, sweeps and retries follow,
\* unless it was settled while the call of an initiation was out
\* (initiateWithProvider's catch clause).
THEOREM ClosedStaysClosedHolds == NotedSpec => ClosedStaysClosed
<1>1. Init /\ crossed = {} => CrossedInv
  <2>1. Init => Crossing = {} /\ FailsUnpaid
    BY DEF Init, Crossing, FailsUnpaid, Idle, About, Calling
  <2>2. QED  BY <2>1, TypeInit DEF CrossedInv
<1>2. CrossedInv /\ [NotedNext]_<<vars, crossed>> => CrossedInv'
  <2>1. ASSUME CrossedInv, NotedNext PROVE CrossedInv'
    <3>1. crossed \subseteq crossed' /\ (Crossing \subseteq crossed)'
      BY <2>1 DEF NotedNext
    <3>2. TypeOK' /\ FailsUnpaid'
      BY <2>1, <3>1, TypeNext, FailsUnpaidNext DEF CrossedInv, NotedNext
    <3>3. QED  BY <3>1, <3>2 DEF CrossedInv
  <2>2. ASSUME CrossedInv, UNCHANGED <<vars, crossed>> PROVE CrossedInv'
    <3>1. TypeOK'
      BY <2>2, TypeNext DEF CrossedInv
    <3>2. (Crossing \subseteq crossed)' /\ FailsUnpaid'
      BY <2>2 DEF CrossedInv, Crossing, FailsUnpaid, vars, row
    <3>3. QED  BY <3>1, <3>2 DEF CrossedInv
  <2>3. QED  BY <2>1, <2>2
<1>3. CrossedInv /\ [NotedNext]_<<vars, crossed>> =>
        [\A p \in Payment :
           status[p] \notin {"NONE", "PENDING"} =>
             \/ status'[p] = status[p]
             \/ /\ status'[p] = "FAILED"
                /\ status[p] = "CANCELLED" \/ p \in crossed]_vars
  <2>1. ASSUME CrossedInv, [Next]_vars, NEW p \in Payment,
               status[p] \notin {"NONE", "PENDING"}
        PROVE  \/ status'[p] = status[p]
               \/ /\ status'[p] = "FAILED"
                  /\ status[p] = "CANCELLED" \/ p \in crossed
    <3>1. TypeOK /\ FailsUnpaid
      BY <2>1 DEF CrossedInv
    <3>2. status'[p] \in {status[p], "FAILED"}
      BY <2>1, <3>1, ClosedNext
    <3>3. status[p] \in TookMoney /\ p \notin crossed => status'[p] = status[p]
      BY <2>1, <3>1, SettledNext
    <3>4. status[p] \in {"SUCCESSFUL", "FAILED", "CANCELLED", "REFUNDED"}
      BY <2>1, <3>1 DEF TypeOK, Status, Outcome
    <3>5. QED  BY <3>2, <3>3, <3>4 DEF TookMoney
  <2>2. QED  BY <2>1 DEF NotedNext
<1>4. QED
  BY <1>1, <1>2, <1>3, PTL DEF NotedSpec, NotedInit, ClosedStaysClosed

-----------------------------------------------------------------------------
(***************************************************************************)
(* Card callbacks that did their job.                                      *)
(***************************************************************************)
LEMMA MethodStays == [Next]_vars => method' = method
BY DEF Next, ProviderStep, RequestStart, Continue, GoesWrong, SweepStep, vars, row, provider,
     OrderCancelled, CustomerPays, CustomerDeclined, CustomerCancels, PromptStep, IntentLowered,
         StripeNotifies, Initiate, ClientVerify,
     ReceiveWebhook, CallProvider, ProviderRefuses, InitiateFailed, StoreRef, LookupPayment,
     MarkProcessed, AskProvider, AnswerLost, Settle, Throws, Crash, StartSweep, SweepNext

\* A row that exists stays, and a closed one is not PENDING again.
LEMMA StatusLasts ==
  ASSUME SafetyInv, [Next]_vars, NEW p \in Payment, status[p] # "NONE"
  PROVE  status'[p] # "NONE" /\ (status[p] # "PENDING" => status'[p] # "PENDING")
<1>0. TypeOK
  BY DEF SafetyInv
<1>1. CASE status[p] # "PENDING"
  <2>1. status'[p] \in {status[p], "FAILED"}
    BY <1>0, <1>1, ClosedNext
  <2> QED
    BY <1>1, <2>1
<1>2. CASE status[p] = "PENDING"
  <2>1. CASE status' = status
    BY <1>2, <2>1
  <2>2. ASSUME NEW q \in Payment, OrderCancelled(q) PROVE status'[p] # "NONE"
    BY <1>0, <1>2, <2>2 DEF OrderCancelled, TypeOK
  <2>3. ASSUME NEW h \in Handler, NEW q \in Payment, Initiate(h, q) PROVE status'[p] # "NONE"
    BY <1>0, <1>2, <2>3 DEF Initiate, TypeOK
  <2>4. ASSUME NEW h \in Process, InitiateFailed(h) PROVE status'[p] # "NONE"
    BY <1>0, <1>2, <2>4 DEF InitiateFailed, TypeOK
  <2>5. ASSUME NEW h \in Process, Settle(h) PROVE status'[p] # "NONE"
    <3>1. proc[h].result # "NONE"
      BY <1>0 DEF TypeOK, Local, Outcome
    <3> QED
      BY <1>0, <1>2, <2>5, <3>1 DEF Settle, ApplySettlement, TypeOK
  <2> QED
    BY <1>2, <2>1, <2>2, <2>3, <2>4, <2>5
       DEF Next, ProviderStep, RequestStart, Continue, GoesWrong, SweepStep, vars,
           row, CustomerPays, CustomerDeclined, CustomerCancels, PromptStep, IntentLowered,
         StripeNotifies, ClientVerify,
           ReceiveWebhook, CallProvider, ProviderRefuses, StoreRef,
           LookupPayment, MarkProcessed, AskProvider, AnswerLost, Throws, Crash,
           StartSweep, SweepNext
<1> QED
  BY <1>1, <1>2

\* Prompts and handlers are about rows that exist.
LEMMA RowsExistNext ==
  ASSUME SafetyInv, RowsExist, [Next]_vars
  PROVE  RowsExist'
<1>0. TypeOK
  BY DEF SafetyInv
<1>1. ASSUME NEW p \in Payment, NEW k \in PromptNo, prompt'[p][k] # "none"
      PROVE  status'[p] # "NONE"
  <2>1. CASE prompt[p][k] # "none"
    BY <2>1, StatusLasts DEF RowsExist
  <2>2. ASSUME NEW h \in Process, CallProvider(h) \/ AnswerLost(h)
        PROVE  status'[p] # "NONE"
    <3>1. PICK j \in AnsweredWith(proc[h].pay) : ProviderAccepts(proc[h].pay, j)
      BY <2>2 DEF CallProvider, AnswerLost
    <3>2. j \in PromptNo /\ proc[h].pay \in Payment
      BY <1>0, <2>2, <3>1, AnsweredType
    <3>3. status[proc[h].pay] # "NONE"
      BY <2>2 DEF RowsExist, CallProvider, AnswerLost
    <3>4. prompt[p][k] = "none" => p = proc[h].pay
      BY <1>0, <1>1, <3>1, <3>2 DEF ProviderAccepts, TypeOK
    <3> QED
      BY <2>1, <3>3, <3>4, StatusLasts
  <2>3. ASSUME NEW q \in Payment, NEW j \in PromptNo,
               PromptStep(q, j)
        PROVE  prompt[p][k] # "none"
    <3>1. prompt[q][j] # "none"
      BY <2>3 DEF CustomerPays, CustomerDeclined, CustomerCancels, PromptStep, IntentLowered,
         StripeNotifies, Unpaid
    <3>2. \/ prompt' = prompt
          \/ \E s \in PromptState : prompt' = [prompt EXCEPT ![q][j] = s]
      BY <2>3 DEF CustomerPays, CustomerDeclined, CustomerCancels, PromptStep, IntentLowered,
         StripeNotifies, PromptState
    <3>3. p # q \/ k # j => prompt'[p][k] = prompt[p][k]
      BY <1>0, <3>2 DEF TypeOK
    <3> QED
      BY <1>1, <3>1, <3>3
  <2>4. CASE UNCHANGED prompt
    BY <1>1, <2>1, <2>4
  <2> QED
    BY <2>1, <2>2, <2>3, <2>4
       DEF Next, ProviderStep, RequestStart, Continue, GoesWrong, SweepStep, vars,
           provider, OrderCancelled, Initiate, ClientVerify, ReceiveWebhook,
           ProviderRefuses, InitiateFailed, StoreRef, LookupPayment,
           MarkProcessed, AskProvider, Settle, Throws, Crash, StartSweep, SweepNext
<1> DEFINE Serves(g) == /\ proc'[g].pc # "idle" => status'[proc'[g].pay] # "NONE"
                        /\ proc'[g].pc = "mark" /\ proc'[g].result # "PENDING" =>
                             status'[proc'[g].pay] # "PENDING"
<1>2. ASSUME NEW g \in Process, proc'[g].pay = proc[g].pay, proc[g].pc # "idle",
             proc'[g].pc = "mark" /\ proc'[g].result # "PENDING" =>
               \/ proc[g].pc = "mark" /\ proc[g].result # "PENDING"
               \/ status'[proc[g].pay] # "PENDING"
      PROVE  Serves(g)
  BY <1>0, <1>2, StatusLasts DEF RowsExist, TypeOK
<1>3. ASSUME NEW g \in Process, proc'[g] = proc[g] \/ proc'[g].pc = "idle"
      PROVE  Serves(g)
  BY <1>2, <1>3
<1>4. ASSUME NEW g \in Process, NEW h \in Process, NEW l, Goto(h, l),
             \/ l.pc = "idle"
             \/ /\ l.pay = proc[h].pay
                /\ proc[h].pc # "idle"
                /\ l.pc = "mark" /\ l.result # "PENDING" =>
                     status'[l.pay] # "PENDING"
             \/ /\ status'[l.pay] # "NONE"
                /\ l.pc # "mark"
      PROVE  Serves(g)
  <2>1. CASE g # h
    BY <1>0, <1>3, <1>4, <2>1, OthersStay
  <2>2. CASE g = h
    <3>1. proc'[g] = l
      BY <1>0, <1>4, <2>2, OwnLocal
    <3> HIDE DEF Serves
    <3>2. CASE l.pc = "idle"
      BY <1>3, <3>1, <3>2
    <3>3. CASE /\ l.pay = proc[h].pay
               /\ proc[h].pc # "idle"
               /\ l.pc = "mark" /\ l.result # "PENDING" =>
                    status'[l.pay] # "PENDING"
      BY <1>2, <2>2, <3>1, <3>3
    <3>4. CASE status'[l.pay] # "NONE" /\ l.pc # "mark"
      BY <3>1, <3>4 DEF Serves
    <3> QED
      BY <1>4, <3>2, <3>3, <3>4
  <2> QED
    BY <2>1, <2>2
<1> HIDE DEF Serves
<1>5. ASSUME NEW h \in Process, NEW p \in Payment, ReadForVerify(h, p),
             status' = status, NEW g \in Process
      PROVE  Serves(g)
  <2>1. CASE proc' = proc
    BY <1>3, <2>1
  <2>2. CASE status[p] = "PENDING"
    <3> DEFINE l == About("ask", "verify", p, ref[p])
    <3>1. Goto(h, l)
      BY <1>5, <2>2 DEF ReadForVerify
    <3>2. l.pc = "ask" /\ l.pay = p
      BY AboutIs
    <3>3. status'[l.pay] # "NONE"
      BY <1>5, <2>2, <3>2
    <3> HIDE DEF l
    <3> QED
      BY <1>4, <3>1, <3>2, <3>3
  <2> QED
    BY <1>5, <2>1, <2>2 DEF ReadForVerify
<1>6. ASSUME NEW h \in Handler, NEW p \in Payment, Initiate(h, p), NEW g \in Process
      PROVE  Serves(g)
  <2> DEFINE l == About("call", "initiate", p, 0)
  <2>1. h \in Process /\ Goto(h, l)
    BY <1>6 DEF Initiate, Process
  <2>2. l.pc = "call" /\ l.pay = p
    BY AboutIs
  <2>3. status'[l.pay] # "NONE"
    BY <1>0, <1>6, <2>2 DEF Initiate, TypeOK
  <2> HIDE DEF l
  <2> QED
    BY <1>4, <2>1, <2>2, <2>3
<1>7. ASSUME NEW h \in Handler, NEW e \in events, ReceiveWebhook(h, e), NEW g \in Process
      PROVE  Serves(g)
  <2> DEFINE l == [About("lookup", "webhook", e.pay, e.att) EXCEPT
                     !.result = e.result, !.short = e.short]
  <2>1. h \in Process /\ Goto(h, l)
    BY <1>7 DEF ReceiveWebhook, Process
  <2>2. l.pc = "lookup" /\ l.pay = e.pay
    BY WebhookIs
  <2>3. e.pay \in Payment /\ e.att \in PromptNo
    BY <1>0 DEF TypeOK, Event
  <2>4. status[e.pay] # "NONE"
    BY <2>3 DEF SafetyInv, HonestReports, RowsExist
  <2>5. status'[l.pay] # "NONE"
    BY <1>7, <2>2, <2>4 DEF ReceiveWebhook, row
  <2> HIDE DEF l
  <2> QED
    BY <1>4, <2>1, <2>2, <2>5
\* A step that goes on keeps its payment; only Settle arrives at "mark" with
\* something that was to settle.
<1>8. ASSUME NEW h \in Process, NEW l, Goto(h, l), l.pay = proc[h].pay,
             proc[h].pc # "idle", l.pc # "mark" \/ l.result = "PENDING",
             NEW g \in Process
      PROVE  Serves(g)
  BY <1>4, <1>8
<1>9. ASSUME NEW h \in Process, Return(h), NEW g \in Process
      PROVE  Serves(g)
  BY <1>4, <1>9 DEF Return, Idle, About
<1>10. ASSUME NEW h \in Process, Settle(h), NEW g \in Process
       PROVE  Serves(g)
  <2>1. CASE Return(h)
    BY <1>9, <2>1
  <2> DEFINE l == [proc[h] EXCEPT !.pc = "mark"]
  <2>2. CASE Goto(h, l)
    <3>1. proc[h] \in Local /\ proc[h].pc = "settle" /\ proc[h].pay \in Payment
      BY <1>0, <1>10 DEF Settle, TypeOK
    <3>2. l.pay = proc[h].pay
      BY <3>1 DEF Local
    <3>3. status'[proc[h].pay] # "PENDING"
      <4>1. proc[h].result # "PENDING"
        BY <3>1 DEF SafetyInv, HonestReports
      <4> QED
        BY <1>0, <1>10, <3>1, <4>1
           DEF Settle, ApplySettlement, CanSettle, TypeOK
    <3> HIDE DEF l
    <3> QED
      BY <1>4, <2>2, <3>1, <3>2, <3>3
  <2> QED
    BY <1>10, <2>1, <2>2 DEF Settle
<1>11. ASSUME NEW h \in Process, NEW g \in Process, Continue(h) \/ GoesWrong(h)
       PROVE  Serves(g)
  <2> DEFINE At(pc) == [proc[h] EXCEPT !.pc = pc]
  <2>1. CASE Return(h)
    BY <1>9, <2>1
  <2>2. CASE Settle(h)
    BY <1>10, <2>2
  <2>3. proc[h] \in Local
    BY <1>0 DEF TypeOK
  <2>4. CASE CallProvider(h)
    <3>1. PICK k \in AnsweredWith(proc[h].pay) :
             Goto(h, [proc[h] EXCEPT !.pc = "store", !.att = k])
      BY <2>4 DEF CallProvider
    <3> DEFINE l == [proc[h] EXCEPT !.pc = "store", !.att = k]
    <3>2. l.pay = proc[h].pay /\ l.pc = "store" /\ proc[h].pc # "idle"
      BY <2>3, <2>4 DEF CallProvider, Local
    <3> HIDE DEF l
    <3> QED
      BY <1>8, <3>1, <3>2 DEF l
  <2>5. CASE ProviderRefuses(h) \/ AnswerLost(h)
    <3>1. PICK pc \in {"recall", "fail"} : Goto(h, [proc[h] EXCEPT !.pc = pc])
      BY <2>5 DEF ProviderRefuses, AnswerLost
    <3> DEFINE l == [proc[h] EXCEPT !.pc = pc]
    <3>2. l.pay = proc[h].pay /\ l.pc # "mark" /\ proc[h].pc # "idle"
      BY <2>3, <2>5 DEF ProviderRefuses, AnswerLost, Local
    <3>3. Goto(h, l)
      BY <3>1
    <3> HIDE DEF l
    <3> QED
      BY <1>8, <3>2, <3>3
  <2>6. CASE StoreRef(h)
    <3> DEFINE l == [proc[h] EXCEPT !.pc = "settle", !.result = "SUCCESSFUL"]
    <3>1. l.pay = proc[h].pay /\ l.pc # "mark" /\ proc[h].pc # "idle"
      BY <2>3, <2>6 DEF StoreRef, Local
    <3>2. Goto(h, l) \/ Return(h)
      BY <2>6 DEF StoreRef
    <3> HIDE DEF l
    <3> QED
      BY <1>8, <2>1, <3>1, <3>2
  <2>7. CASE LookupPayment(h)
    <3> DEFINE l == [proc[h] EXCEPT !.pc = IF proc[h].result = "PENDING"
                                              THEN "mark" ELSE "settle"]
    <3>1. /\ l.pay = proc[h].pay
          /\ l.pc # "mark" \/ l.result = "PENDING"
          /\ proc[h].pc # "idle"
      BY <2>3, <2>7 DEF LookupPayment, Local
    <3>2. Goto(h, l) \/ Return(h)
      BY <2>7 DEF LookupPayment
    <3> HIDE DEF l
    <3> QED
      BY <1>8, <2>1, <3>1, <3>2
  <2>8. CASE AskProvider(h)
    <3> DEFINE l == [proc[h] EXCEPT !.pc = "settle",
                                    !.result = Verified(proc[h].pay, proc[h].att)]
    <3>1. l.pay = proc[h].pay /\ l.pc # "mark" /\ proc[h].pc # "idle"
      BY <2>3, <2>8 DEF AskProvider, Local
    <3>2. Goto(h, l) \/ Return(h)
      BY <2>8 DEF AskProvider
    <3> HIDE DEF l
    <3> QED
      BY <1>8, <2>1, <3>1, <3>2
  <2>9. CASE InitiateFailed(h) \/ MarkProcessed(h) \/ Throws(h) \/ Crash(h)
    BY <2>1, <2>9 DEF InitiateFailed, MarkProcessed, Throws, Crash
  <2> QED
    BY <1>11, <2>2, <2>4, <2>5, <2>6, <2>7, <2>8, <2>9 DEF Continue, GoesWrong
<1>12. ASSUME NEW g \in Process PROVE Serves(g)
  <2>1. CASE ProviderStep \/ StartSweep \/ UNCHANGED vars
    BY <1>3, <2>1
       DEF ProviderStep, StartSweep, vars, OrderCancelled, CustomerPays,
           CustomerDeclined, CustomerCancels, PromptStep, IntentLowered,
         StripeNotifies
  <2>2. ASSUME NEW h \in Handler, NEW p \in Payment, ClientVerify(h, p)
        PROVE  Serves(g)
    <3>1. h \in Process /\ ReadForVerify(h, p) /\ status' = status
      BY <2>2 DEF ClientVerify, Process, row
    <3> QED
      BY <1>5, <3>1
  <2>3. ASSUME NEW p \in Payment, SweepNext(p)
        PROVE  Serves(g)
    <3>1. Cron \in Process /\ ReadForVerify(Cron, p) /\ status' = status
      BY <2>3 DEF SweepNext, Process, row
    <3> QED
      BY <1>5, <3>1
  <2> QED
    BY <1>6, <1>7, <1>11, <2>1, <2>2, <2>3 DEF Next, RequestStart, SweepStep
<1> QED
  BY <1>1, <1>12 DEF RowsExist, Serves

\* Only MarkProcessed marks a card event that reports a full amount, and it
\* does so when the payment is closed.
LEMMA CardEventsNext ==
  ASSUME SafetyInv, RowsExist, CardEventsDone, [Next]_vars
  PROVE  CardEventsDone'
<1>0. TypeOK
  BY DEF SafetyInv
<1> SUFFICES ASSUME NEW e \in Event, method[e.pay] = "CARD", ~e.short,
                    e.result # "PENDING", eventRow'[e] = "processed"
             PROVE  status'[e.pay] \notin {"NONE", "PENDING"}
  BY MethodStays DEF CardEventsDone
<1>1. e.pay \in Payment
  BY DEF Event
<1>2. CASE eventRow[e] = "processed"
  BY <1>1, <1>2, StatusLasts DEF CardEventsDone
<1>3. CASE UNCHANGED eventRow
  BY <1>2, <1>3
<1>4. ASSUME NEW h \in Process, Throws(h)
      PROVE  eventRow[e] = "processed"
  BY <1>0, <1>4 DEF Throws, TypeOK
<1>5. ASSUME NEW h \in Handler, NEW f \in events, ReceiveWebhook(h, f)
      PROVE  eventRow[e] = "processed"
  BY <1>0, <1>5 DEF ReceiveWebhook, TypeOK
<1>6. ASSUME NEW h \in Process, LookupPayment(h)
      PROVE  eventRow[e] = "processed"
  <2> DEFINE l == proc[h]
             own == EventOf(l)
  <2>1. CASE UNCHANGED eventRow
    BY <2>1
  <2>2. CASE /\ ~(FindPaymentForEvent(l.pay, l.att) /\ AmountCovers(l.short))
             /\ eventRow' = [eventRow EXCEPT ![own] = "processed"]
    <3>1. e # own
      BY <2>2 DEF FindPaymentForEvent, AmountCovers, EventOf
    <3> HIDE DEF own
    <3> QED
      BY <1>0, <2>2, <3>1 DEF TypeOK
  <2> QED
    BY <1>6, <2>1, <2>2 DEF LookupPayment
<1>7. ASSUME NEW h \in Process, MarkProcessed(h)
      PROVE  status'[e.pay] \notin {"NONE", "PENDING"}
  <2> DEFINE l == proc[h]
             own == EventOf(l)
  <2>1. /\ status[l.pay] # "NONE"
        /\ l.result # "PENDING" => status[l.pay] # "PENDING"
    BY <1>7 DEF MarkProcessed, RowsExist
  <2>2. CASE e = own
    BY <1>7, <2>1, <2>2 DEF MarkProcessed, EventOf, row
  <2>3. CASE e # own
    <3>1. eventRow' = [eventRow EXCEPT ![own] = "processed"]
      BY <1>7 DEF MarkProcessed
    <3> HIDE DEF own
    <3> QED
      BY <1>0, <1>2, <2>3, <3>1 DEF TypeOK
  <2> QED
    BY <2>2, <2>3
<1> QED
  BY <1>2, <1>3, <1>4, <1>5, <1>6, <1>7
     DEF Next, ProviderStep, RequestStart, Continue, GoesWrong, SweepStep, vars,
         OrderCancelled, CustomerPays, CustomerDeclined, CustomerCancels, PromptStep, IntentLowered,
         StripeNotifies,
         Initiate, ClientVerify, CallProvider, ProviderRefuses, InitiateFailed,
         StoreRef, AskProvider, AnswerLost, Settle, Crash, StartSweep, SweepNext

\* A card callback that was marked processed did its job: its payment is no
\* longer PENDING, in whatever order callbacks, polls and crashes came.
THEOREM ProcessedCardEventSettledHolds == Spec => []ProcessedCardEventSettled
<1>1. Init => RowsExist /\ CardEventsDone
  BY DEF Init, Idle, About, RowsExist, CardEventsDone
<1>2. SafetyInv /\ RowsExist /\ [Next]_vars => RowsExist'
  BY RowsExistNext
<1>3. SafetyInv /\ RowsExist /\ CardEventsDone /\ [Next]_vars => CardEventsDone'
  BY CardEventsNext
<1>4. TypeOK /\ CardEventsDone => ProcessedCardEventSettled
  BY DEF TypeOK, CardEventsDone, ProcessedCardEventSettled
<1> QED
  BY <1>1, <1>2, <1>3, <1>4, Safety, TypeCorrect, PTL DEF Spec


(***************************************************************************)
(* Client: the app, for any tables of screens that satisfy                 *)
(* ScreensAssumption, any people, and any number of presses, losses,       *)
(* events and restarts.                                                    *)
(***************************************************************************)
Opening == [screen : DOMAIN Screen, visit : Nat]
Ticks == {None} \cup {<<n>> : n \in Nat}
Entry == [seen : Nat, by : User, old : BOOLEAN, how : {"read", "press"}]
Reading == [by : User, got : Ticks]

Calls == UNION {Screen[s].presses : s \in DOMAIN Screen}
Job == [id : Nat, press : Calls, at : Opening, by : User, left : Nat,
        out : BOOLEAN, tick : Ticks]
JobOK(j) == j \in Job /\ j.press \in Screen[j.at.screen].presses

Counters ==
  {"opens", "doors", "taps", "presses", "events", "losses", "ends"}
Entries(f) == \A v \in DOMAIN f : f[v] \in Entry
Readings(f) == \A v \in DOMAIN f : f[v] \in Reading

ClientTypes ==
  /\ who \in User \cup {Nobody}
  /\ ended \in {"no", "forced", "clearing", "torn"}
  /\ stack \in Seq(Opening) /\ stack # <<>>
  /\ Entries(cache) /\ Entries(disk) /\ Readings(fetch)
  /\ \A j \in jobs : JobOK(j)
  /\ clock \in Nat
  /\ budget \in [Counters -> Nat]

-----------------------------------------------------------------------------
USE DEF served

LEMMA OverIs ==
  ASSUME NEW f, NEW g
  PROVE  /\ DOMAIN Over(f, g) = DOMAIN f \cup DOMAIN g
         /\ \A v \in DOMAIN f : Over(f, g)[v] = f[v]
         /\ \A v \in DOMAIN g \ DOMAIN f : Over(f, g)[v] = g[v]
BY DEF Over

LEMMA OnlyIs ==
  ASSUME NEW f, NEW S
  PROVE  /\ DOMAIN Only(f, S) = DOMAIN f \cap S
         /\ \A v \in DOMAIN f \cap S : Only(f, S)[v] = f[v]
BY DEF Only

\* What marking views old does to the entries held.
LEMMA AgedIs ==
  ASSUME ClientTypes, NEW views
  PROVE  /\ DOMAIN Aged(views) = Loaded
         /\ \A v \in Loaded :
              /\ Aged(views)[v].seen = cache[v].seen
              /\ Aged(views)[v].by = cache[v].by
              /\ Aged(views)[v].how = cache[v].how
              /\ Aged(views)[v].old = (cache[v].old \/ v \in views)
         /\ Entries(Aged(views))
<1>1. DOMAIN Aged(views) = Loaded
  BY DEF Aged
<1>2. ASSUME NEW v \in Loaded
      PROVE  /\ Aged(views)[v].seen = cache[v].seen
             /\ Aged(views)[v].by = cache[v].by
             /\ Aged(views)[v].how = cache[v].how
             /\ Aged(views)[v].old = (cache[v].old \/ v \in views)
             /\ Aged(views)[v] \in Entry
  <2>1. cache[v] \in Entry
    BY DEF ClientTypes, Entries, Loaded
  <2>2. CASE v \in views
    BY <2>1, <2>2 DEF Aged, Entry, Loaded
  <2>3. CASE v \notin views
    BY <2>1, <2>3 DEF Aged, Entry, Loaded
  <2>4. QED  BY <2>2, <2>3
<1>3. QED  BY <1>1, <1>2 DEF Entries

\* What asking for views does to the reads in flight.
LEMMA AskedIs ==
  ASSUME ClientTypes, NEW reads, Readings(reads), NEW views
  PROVE  /\ Readings(Asked(reads, views))
         /\ who = Nobody => Asked(reads, views) = reads
         /\ \A v \in DOMAIN Asked(reads, views) :
              \/ v \in DOMAIN reads /\ Asked(reads, views)[v] = reads[v]
              \/ /\ who # Nobody
                 /\ Asked(reads, views)[v] = [by |-> who, got |-> None]
         /\ \A v \in views :
              who # Nobody /\ (v \in Loaded \/ v \notin DOMAIN reads) =>
                /\ v \in DOMAIN Asked(reads, views)
                /\ Asked(reads, views)[v] = [by |-> who, got |-> None]
         /\ \A v \in DOMAIN reads \ views :
              /\ v \in DOMAIN Asked(reads, views)
              /\ Asked(reads, views)[v] = reads[v]
<1>1. CASE who = Nobody
  BY <1>1 DEF Asked, AskedOf
<1>2. CASE who # Nobody
  <2> DEFINE again == {v \in views : v \notin DOMAIN reads \/ v \in Loaded}
             new == [v \in again |-> [by |-> who, got |-> None]]
  <2>1. Asked(reads, views) = Over(new, reads)
    BY <1>2 DEF Asked, AskedOf
  <2>2. /\ DOMAIN new = again
        /\ \A v \in again : new[v] = [by |-> who, got |-> None]
    OBVIOUS
  <2>3. [by |-> who, got |-> None] \in Reading
    BY <1>2 DEF ClientTypes, Reading, Ticks
  <2> HIDE DEF new
  <2>4. /\ DOMAIN Asked(reads, views) = again \cup DOMAIN reads
        /\ \A v \in again : Asked(reads, views)[v] = [by |-> who, got |-> None]
        /\ \A v \in DOMAIN reads \ again : Asked(reads, views)[v] = reads[v]
    <3>1. /\ DOMAIN Over(new, reads) = DOMAIN new \cup DOMAIN reads
          /\ \A v \in DOMAIN new : Over(new, reads)[v] = new[v]
          /\ \A v \in DOMAIN reads \ DOMAIN new : Over(new, reads)[v] = reads[v]
      BY OverIs
    <3>2. QED  BY <2>1, <2>2, <3>1
  <2>5. QED  BY <1>2, <2>3, <2>4 DEF Readings
<1>3. QED  BY <1>1, <1>2

\* A stack that loses its top screen.
LEMMA FirstOf ==
  ASSUME NEW S, NEW st \in Seq(S), NEW n \in 1 .. Len(st)
  PROVE  /\ SubSeq(st, 1, n) \in Seq(S)
         /\ Len(SubSeq(st, 1, n)) = n
         /\ \A i \in 1 .. n : SubSeq(st, 1, n)[i] = st[i]
         /\ SubSeq(st, 1, n) # <<>>
<1>1. /\ SubSeq(st, 1, n) \in Seq(S)
      /\ Len(SubSeq(st, 1, n)) = n
      /\ \A i \in 1 .. n : SubSeq(st, 1, n)[i] = st[i]
  OBVIOUS
<1>2. QED  BY <1>1

LEMMA ClosedIs ==
  ASSUME NEW S, NEW st \in Seq(S), Len(st) > 1
  PROVE  /\ Closed(st) \in Seq(S) /\ Closed(st) # <<>>
         /\ Len(Closed(st)) = Len(st) - 1
         /\ \A i \in 1 .. Len(Closed(st)) :
              i \in 1 .. Len(st) /\ Closed(st)[i] = st[i]
<1>1. Len(st) \in Nat /\ Len(st) - 1 \in 1 .. Len(st)
  OBVIOUS
<1>2. QED  BY <1>1, FirstOf DEF Closed

LEMMA AppendIs ==
  ASSUME NEW S, NEW st \in Seq(S), NEW e \in S
  PROVE  /\ Append(Closed(st), e) \in Seq(S) /\ Append(Closed(st), e) # <<>>
         /\ \A i \in 1 .. Len(Append(Closed(st), e)) :
              \/ Append(Closed(st), e)[i] = e
              \/ i \in 1 .. Len(st) /\ Append(Closed(st), e)[i] = st[i]
         /\ Append(st, e) \in Seq(S) /\ Append(st, e) # <<>>
         /\ \A i \in 1 .. Len(Append(st, e)) :
              \/ Append(st, e)[i] = e
              \/ i \in 1 .. Len(st) /\ Append(st, e)[i] = st[i]
BY DEF Closed
LEMMA TopIs ==
  ASSUME ClientTypes
  PROVE  /\ Len(stack) \in Nat /\ Len(stack) >= 1
         /\ Top \in Opening /\ Top.screen \in DOMAIN Screen
         /\ \A i \in 1 .. Len(stack) : stack[i] \in Opening
<1>1. stack \in Seq(Opening) /\ stack # <<>>
  BY DEF ClientTypes
<1>2. Len(stack) \in 1 .. Len(stack)
  BY <1>1
<1>3. \A i \in 1 .. Len(stack) : stack[i] \in Opening
  BY <1>1
<1>4. Top \in Opening
  BY <1>2, <1>3 DEF Top
<1>5. QED  BY <1>1, <1>2, <1>3, <1>4 DEF Opening

LEMMA VisitIs ==
  ASSUME ClientTypes, NEW s \in DOMAIN Screen
  PROVE  Visit(s) \in Opening /\ Visit(s).screen = s
<1>1. Openings(budget) \in Nat
  BY DEF ClientTypes, Counters, Openings
<1>2. QED  BY <1>1 DEF Visit, Opening

\* The stack after a press: what was there, or a screen newly opened.
LEMMA GoesIs ==
  ASSUME ClientTypes, NEW from,
         NEW to \in DOMAIN Screen \cup {"stay", "close", "back"}
  PROVE  /\ Goes(to, stack, from) \in Seq(Opening)
         /\ Goes(to, stack, from) # <<>>
         /\ \A i \in 1 .. Len(Goes(to, stack, from)) :
              \/ to \in DOMAIN Screen /\ Goes(to, stack, from)[i] = Visit(to)
              \/ i \in 1 .. Len(stack) /\ Goes(to, stack, from)[i] = stack[i]
<1> DEFINE st == Goes(to, stack, from)
<1>1. stack \in Seq(Opening) /\ stack # <<>>
  BY DEF ClientTypes
<1>2. CASE st = stack
  BY <1>1, <1>2
<1>3. CASE Len(stack) > 1 /\ st = Closed(stack)
  BY <1>1, <1>3, ClosedIs
<1>4. CASE to \in DOMAIN Screen /\ st = Append(Closed(stack), Visit(to))
  BY <1>1, <1>4, AppendIs, VisitIs
<1>5. \/ st = stack
      \/ Len(stack) > 1 /\ st = Closed(stack)
      \/ to \in DOMAIN Screen /\ st = Append(Closed(stack), Visit(to))
  <2>1. CASE to = "stay"
    BY <2>1 DEF Goes
  <2>2. CASE to = "close"
    BY <2>2 DEF Goes
  <2>3. CASE to = "back"
    BY <2>3 DEF Goes
  <2>4. CASE to \notin {"stay", "close", "back"}
    BY <2>4 DEF Goes
  <2>5. QED  BY <2>1, <2>2, <2>3, <2>4
<1>6. QED  BY <1>2, <1>3, <1>4, <1>5

-----------------------------------------------------------------------------
LEMMA AloneIs ==
  ASSUME ClientTypes, NEW s \in DOMAIN Screen
  PROVE  /\ Alone(s) \in Seq(Opening) /\ Alone(s) # <<>>
         /\ Len(Alone(s)) = 1 /\ Alone(s)[1] = Visit(s)
BY VisitIs DEF Alone

LEMMA TypesInit == ClientInit => ClientTypes
<1> SUFFICES ASSUME ClientInit  PROVE ClientTypes
  OBVIOUS
<1>1. PICK s \in Start, u \in User :
        /\ who = u
        /\ leaving = FALSE /\ ended = "no"
        /\ stack = <<[screen |-> s.screen, visit |-> Openings(s.budget) + 1]>>
        /\ cache = [v \in Screen[s.screen].reads \cup s.held |->
                      [seen |-> 0, by |-> u, old |-> FALSE, how |-> "read"]]
        /\ fetch = None /\ jobs = {} /\ disk = None
        /\ clock = 0 /\ done = None /\ atApi = {} /\ told = None
        /\ budget = s.budget
  BY DEF ClientInit
<1>2. s.screen \in DOMAIN Screen /\ s.budget \in [Counters -> Nat]
  BY ClientAssumption DEF Counters
<1>3. Openings(s.budget) + 1 \in Nat
  BY <1>2 DEF Openings, Counters
<1>4. [screen |-> s.screen, visit |-> Openings(s.budget) + 1] \in Opening
  BY <1>2, <1>3 DEF Opening
<1>5. stack \in Seq(Opening) /\ stack # <<>>
  BY <1>1, <1>4
<1>6. Entries(cache)
  BY <1>1 DEF Entries, Entry
<1>7. DOMAIN None = {}
  BY DEF None
<1>8. Entries(disk) /\ Readings(fetch)
  BY <1>1, <1>7 DEF Entries, Readings
<1>9. QED  BY <1>1, <1>2, <1>5, <1>6, <1>8 DEF ClientTypes

\* Opening a screen, however it came about.
LEMMA OpenTypes ==
  ASSUME ClientTypes, NEW s \in DOMAIN Screen, NEW aged, NEW turn \in Counters,
         Open(s, aged, turn)
  PROVE  ClientTypes'
<1>1. Onto(s) \in Seq(Opening) /\ Onto(s) # <<>>
  BY VisitIs, AppendIs DEF Onto, ClientTypes
<1>2. stack' = Onto(s) /\ \E views : fetch' = Asked(fetch, views)
  BY DEF Open, Mount
<1>3. Readings(fetch')
  BY <1>2, AskedIs DEF ClientTypes
<1>4. budget' \in [Counters -> Nat]
  BY DEF Open, ClientTypes
<1>5. QED  BY <1>1, <1>2, <1>3, <1>4 DEF Open, ClientTypes

LEMMA BackTypes == ASSUME ClientTypes, GoBack  PROVE ClientTypes'
<1>1. PICK views, more : cache' = Aged(views) /\ fetch' = Asked(fetch, more)
  BY DEF GoBack
<1>2. Entries(cache') /\ Readings(fetch')
  BY <1>1, AgedIs, AskedIs DEF ClientTypes
<1>3. stack' \in Seq(Opening) /\ stack' # <<>>
  BY ClosedIs DEF GoBack, ClientTypes
<1>4. QED  BY <1>2, <1>3 DEF GoBack, ClientTypes

\* The entry that an answer makes of a read.
LEMMA ReadIs ==
  ASSUME ClientTypes, NEW v \in DOMAIN fetch, fetch[v].got # None
  PROVE  [seen |-> fetch[v].got[1], by |-> fetch[v].by, old |-> FALSE,
          how |-> "read"] \in Entry
<1>1. fetch[v] \in Reading
  BY DEF ClientTypes, Readings
<1>2. fetch[v].got[1] \in Nat
  BY <1>1 DEF Reading, Ticks
<1>3. QED  BY <1>1, <1>2 DEF Reading, Entry

LEMMA ReadTypes ==
  ASSUME ClientTypes, NEW v \in DOMAIN fetch, Answer(v) \/ Arrive(v) \/ Fail(v)
  PROVE  ClientTypes'
<1>1. CASE Answer(v)
  <2>1. /\ DOMAIN fetch' = DOMAIN fetch
        /\ fetch'[v] = [fetch[v] EXCEPT !.got = <<clock>>]
        /\ \A w \in DOMAIN fetch \ {v} : fetch'[w] = fetch[w]
    BY <1>1 DEF Answer
  <2>2. fetch[v] \in Reading /\ <<clock>> \in Ticks
    BY DEF ClientTypes, Readings, Ticks
  <2>3. fetch'[v] \in Reading
    BY <2>1, <2>2 DEF Reading
  <2>4. Readings(fetch')
    BY <2>1, <2>3 DEF ClientTypes, Readings
  <2>5. QED  BY <1>1, <2>4 DEF Answer, ClientTypes
<1>2. CASE Arrive(v)
  <2> DEFINE entry == [seen |-> fetch[v].got[1], by |-> fetch[v].by,
                       old |-> FALSE, how |-> "read"]
  <2>1. entry \in Entry
    BY <1>2, ReadIs DEF Arrive
  <2>2. cache' = Over([w \in {v} |-> entry], cache)
    BY <1>2 DEF Arrive
  <2> HIDE DEF entry
  <2>3. Entries(cache')
    BY <2>1, <2>2 DEF ClientTypes, Entries, Over
  <2>4. fetch' = Only(fetch, DOMAIN fetch \ {v})
    BY <1>2 DEF Arrive
  <2>5. Readings(fetch')
    BY <2>4 DEF ClientTypes, Readings, Only
  <2>6. QED  BY <1>2, <2>3, <2>5 DEF Arrive, ClientTypes
<1>3. CASE Fail(v)
  <2>1. fetch' = Only(fetch, DOMAIN fetch \ {v})
    BY <1>3 DEF Fail
  <2>2. Readings(fetch')
    BY <2>1 DEF ClientTypes, Readings, Only
  <2>3. budget' \in [Counters -> Nat]
    BY <1>3 DEF Fail, ClientTypes, Counters
  <2>4. QED  BY <1>3, <2>2, <2>3 DEF Fail, ClientTypes
<1>4. QED  BY <1>1, <1>2, <1>3

LEMMA HearTypes == ASSUME ClientTypes, NEW views, Hear(views)  PROVE ClientTypes'
<1>1. Entries(cache') /\ Readings(fetch')
  BY AgedIs, AskedIs DEF Hear, Renewed, ClientTypes
<1>2. budget' \in [Counters -> Nat]
  BY DEF Hear, ClientTypes, Counters
<1>3. QED  BY <1>1, <1>2 DEF Hear, ClientTypes

-----------------------------------------------------------------------------
LEMMA PressTypes ==
  ASSUME ClientTypes, NEW p, NEW u \in User, Press(p, u)
  PROVE  ClientTypes'
<1> DEFINE k == [id |-> budget.presses, press |-> p, at |-> Top, by |-> u,
                 left |-> IF p.retried THEN Retries ELSE 0, out |-> FALSE, tick |-> None]
<1>1. Top \in Opening /\ p \in Screen[Top.screen].presses
  BY TopIs DEF Press
<1>2. (IF p.retried THEN Retries ELSE 0) \in Nat
  BY ClientAssumption
<1>3. JobOK(k)
  <2>1. p \in Calls
    BY <1>1, TopIs DEF Calls
  <2>2. budget.presses \in Nat
    BY DEF ClientTypes, Counters
  <2>3. QED  BY <1>1, <1>2, <2>1, <2>2 DEF JobOK, Job, Ticks
<1>4. jobs' = jobs \cup {k}
  BY DEF Press
<1> HIDE DEF k
<1>5. \A j \in jobs' : JobOK(j)
  BY <1>3, <1>4 DEF ClientTypes
<1>6. budget' \in [Counters -> Nat]
  BY DEF Press, ClientTypes, Counters
<1>7. QED  BY <1>5, <1>6 DEF Press, ClientTypes

\* What the API's taking a call, or the loss of an answer, makes of the job.
LEMMA ServeIs ==
  ASSUME ClientTypes, NEW job, Serve(job) \/ LookUp(job)
  PROVE  /\ job \in jobs /\ clock' \in Nat
         /\ clock' = clock \/ clock' = clock + 1
         /\ \E k : /\ JobOK(k) /\ k.press = job.press /\ k.by = job.by
                   /\ k.at = job.at /\ (k.tick = None \/ k.tick = <<clock'>>)
                   /\ jobs' = (jobs \ {job}) \cup {k}
<1>1. clock \in Nat /\ JobOK(job) /\ job \in jobs
  BY DEF ClientTypes, Serve, LookUp
<1>2. (clock' = clock \/ clock' = clock + 1) /\ clock' \in Nat
  BY <1>1 DEF Serve, LookUp
<1>3. <<clock'>> \in Ticks
  BY <1>2 DEF Ticks
<1>4. CASE Serve(job)
  <2> DEFINE k == [job EXCEPT !.tick = <<clock'>>]
  <2>1. /\ JobOK(k) /\ k.press = job.press /\ k.by = job.by /\ k.at = job.at
        /\ k.tick = <<clock'>>
    BY <1>1, <1>3 DEF JobOK, Job
  <2>2. jobs' = (jobs \ {job}) \cup {k}
    BY <1>4 DEF Serve
  <2>3. QED  BY <1>1, <1>2, <2>1, <2>2
<1>5. CASE LookUp(job)
  <2> DEFINE k == [job EXCEPT !.out = TRUE]
  <2>1. /\ JobOK(k) /\ k.press = job.press /\ k.by = job.by /\ k.at = job.at
        /\ k.tick = job.tick /\ job.tick = None
    BY <1>1, <1>5 DEF JobOK, Job, LookUp
  <2>2. jobs' = (jobs \ {job}) \cup {k}
    BY <1>5 DEF LookUp
  <2>3. QED  BY <1>1, <1>2, <2>1, <2>2
<1>6. QED  BY <1>4, <1>5

\* What the end of a request makes of the calls.
LEMMA CommitIs ==
  ASSUME ClientTypes, NEW req, Commit(req)
  PROVE  /\ clock' \in Nat /\ (clock' = clock \/ clock' = clock + 1)
         /\ \A k \in jobs' :
              \/ k \in jobs
              \/ \E j \in jobs : /\ JobOK(k) /\ k.press = j.press /\ k.by = j.by
                                 /\ k.at = j.at /\ k.tick = <<clock'>>
                                 /\ Attempt(j, req)
                                 /\ req.found \/ NewKey(req)
<1>1. clock' \in Nat /\ (clock' = clock \/ clock' = clock + 1)
  BY DEF Commit, ClientTypes
<1>2. ASSUME NEW k \in jobs', k \notin jobs
      PROVE  \E j \in jobs : /\ JobOK(k) /\ k.press = j.press /\ k.by = j.by
                             /\ k.at = j.at /\ k.tick = <<clock'>>
                             /\ Attempt(j, req)
                             /\ req.found \/ NewKey(req)
  <2>1. (req.found \/ NewKey(req)) /\
        \E j \in jobs : Attempt(j, req) /\ k = [j EXCEPT !.tick = <<clock'>>]
    BY <1>2 DEF Commit
  <2>2. PICK j \in jobs : Attempt(j, req) /\ k = [j EXCEPT !.tick = <<clock'>>]
    BY <2>1
  <2>3. JobOK(j) /\ <<clock'>> \in Ticks
    BY <1>1 DEF ClientTypes, Ticks
  <2>4. /\ JobOK(k) /\ k.press = j.press /\ k.by = j.by /\ k.at = j.at
        /\ k.tick = <<clock'>>
    BY <2>2, <2>3 DEF JobOK, Job
  <2>5. QED  BY <2>1, <2>2, <2>4
<1>3. QED  BY <1>1, <1>2

LEMMA RepeatIs ==
  ASSUME ClientTypes, NEW job, Repeat(job)
  PROVE  /\ job \in jobs
         /\ \E k : /\ JobOK(k) /\ k.press = job.press /\ k.by = job.by
                   /\ k.at = job.at /\ k.tick = None
                   /\ jobs' = (jobs \ {job}) \cup {k}
<1> DEFINE k == [job EXCEPT !.left = @ - 1, !.out = FALSE, !.tick = None]
<1>1. JobOK(job) /\ job \in jobs /\ job.left > 0
  BY DEF ClientTypes, Repeat
<1>3. None \in Ticks /\ job.left - 1 \in Nat
  BY <1>1 DEF Ticks, JobOK, Job
<1>4. /\ JobOK(k) /\ k.press = job.press /\ k.by = job.by /\ k.at = job.at
      /\ k.tick = None
  BY <1>1, <1>3 DEF JobOK, Job
<1>5. jobs' = (jobs \ {job}) \cup {k}
  BY DEF Repeat
<1>6. QED  BY <1>1, <1>4, <1>5

LEMMA CallTypes ==
  ASSUME ClientTypes, NEW job, Serve(job) \/ LookUp(job) \/ Repeat(job)
  PROVE  ClientTypes'
<1>1. CASE Serve(job) \/ LookUp(job)
  <2>1. \A j \in jobs' : JobOK(j)
    BY <1>1, ServeIs DEF ClientTypes
  <2>2. clock' \in Nat
    BY <1>1, ServeIs
  <2>3. QED  BY <1>1, <2>1, <2>2 DEF Serve, LookUp, ClientTypes
<1>2. CASE Repeat(job)
  <2>1. \A j \in jobs' : JobOK(j)
    BY <1>2, RepeatIs DEF ClientTypes
  <2>2. budget' \in [Counters -> Nat]
    BY <1>2 DEF Repeat, ClientTypes, Counters
  <2>3. QED  BY <1>2, <2>1, <2>2 DEF Repeat, ClientTypes
<1>3. QED  BY <1>1, <1>2

LEMMA CommitTypes == ASSUME ClientTypes, NEW req, Commit(req)  PROVE ClientTypes'
<1>1. clock' \in Nat /\ \A j \in jobs' : JobOK(j)
  BY CommitIs DEF ClientTypes
<1>2. QED  BY <1>1 DEF Commit, ClientTypes

LEMMA GiveUpTypes == ASSUME ClientTypes, NEW job, GiveUp(job)  PROVE ClientTypes'
<1>1. Entries(cache') /\ Readings(fetch')
  BY AgedIs, AskedIs DEF GiveUp, Renewed, ClientTypes
<1>2. budget' \in [Counters -> Nat]
  BY DEF GiveUp, ClientTypes, Counters
<1>3. \A j \in jobs' : JobOK(j)
  BY DEF GiveUp, ClientTypes
<1>4. QED  BY <1>1, <1>2, <1>3 DEF GiveUp, ClientTypes

-----------------------------------------------------------------------------
\* What a successful press does, by name.
Moves(to) == to \in DOMAIN Screen /\ (who = Nobody => to \in SignedOutScreens)
Then(job, to) ==
  IF who = Nobody /\ ~Moves(to) THEN stack ELSE Goes(to, stack, job.at.screen)
OwedBy(job) ==
  {o[3] : o \in {o \in Owed : o[1] = job.at.screen /\ o[2] = job.press.call}}

LEMMA SucceedIs ==
  ASSUME NEW job, NEW to, NEW aged, Succeed(job, to, aged)
  PROVE  /\ job \in jobs /\ job.tick # None
         /\ to \in job.press.to \ {"enter", "out"}
         /\ Moves(to) => budget[Turns] > 0
         /\ budget' = IF Moves(to) THEN [budget EXCEPT ![Turns] = @ - 1]
                      ELSE budget
         /\ stack' = Then(job, to)
         /\ cache' = Written(Aged(job.press.old), job.press, job)
         /\ \/ fetch' = Renewed(job.press.old)
            \/ \E views : /\ fetch' = Asked(Renewed(job.press.old), views)
                          /\ views \cap DOMAIN Renewed(job.press.old) = {}
         /\ told' = Tell(OwedBy(job), job.tick[1], Then(job, to))
         /\ jobs' = jobs \ {job}
         /\ UNCHANGED <<who, leaving, ended, disk, clock, done, atApi>>
<1>1. /\ job \in jobs /\ job.tick # None
      /\ to \in job.press.to \ {"enter", "out"}
      /\ Moves(to) => budget[Turns] > 0
      /\ budget' = IF Moves(to) THEN [budget EXCEPT ![Turns] = @ - 1]
                   ELSE budget
      /\ stack' = Then(job, to)
      /\ jobs' = jobs \ {job}
  BY DEF Succeed, Moves, Then
<1>2. /\ cache' = Written(Aged(job.press.old), job.press, job)
      /\ UNCHANGED <<who, leaving, ended, disk, clock, done, atApi>>
  BY DEF Succeed
<1>3. told' = Tell(OwedBy(job), job.tick[1], Then(job, to))
  BY DEF Succeed, Moves, Then, OwedBy
<1>4. \/ fetch' = Renewed(job.press.old)
      \/ \E views : /\ fetch' = Asked(Renewed(job.press.old), views)
                    /\ views \cap DOMAIN Renewed(job.press.old) = {}
  <2> DEFINE renewed == Renewed(job.press.old)
             marked == Written(Aged(job.press.old), job.press, job)
             views == {v \in Screen[to].reads \ DOMAIN renewed :
                         v \in DOMAIN marked => marked[v].old \/ aged}
  <2>1. fetch' = IF Moves(to) THEN Asked(renewed, views) ELSE renewed
    BY DEF Succeed, Moves
  <2>2. views \cap DOMAIN renewed = {}
    OBVIOUS
  <2> HIDE DEF renewed, views
  <2>3. \/ fetch' = renewed
        \/ \E S : fetch' = Asked(renewed, S) /\ S \cap DOMAIN renewed = {}
    BY <2>1, <2>2
  <2>4. QED  BY <2>3 DEF renewed
<1>5. QED  BY <1>1, <1>2, <1>3, <1>4

LEMMA ThenIs ==
  ASSUME ClientTypes, NEW job \in jobs, NEW to \in job.press.to \ {"enter", "out"}
  PROVE  /\ Then(job, to) \in Seq(Opening) /\ Then(job, to) # <<>>
         /\ \A i \in 1 .. Len(Then(job, to)) :
              \/ Moves(to) /\ Then(job, to)[i] = Visit(to)
              \/ i \in 1 .. Len(stack) /\ Then(job, to)[i] = stack[i]
<1>1. stack \in Seq(Opening) /\ stack # <<>>
  BY DEF ClientTypes
<1>2. /\ job.at.screen \in DOMAIN Screen
      /\ job.press \in Screen[job.at.screen].presses
  BY DEF ClientTypes, JobOK, Job, Opening
<1>3. job.press.to \subseteq
        DOMAIN Screen \cup {"stay", "back", "close", "enter", "out"}
  BY <1>2, ClientAssumption DEF ScreensAssumption
<1>4. to \in DOMAIN Screen \cup {"stay", "close", "back"}
  BY <1>3
<1>5. CASE who = Nobody /\ ~Moves(to)
  BY <1>1, <1>5 DEF Then
<1>6. CASE ~(who = Nobody /\ ~Moves(to))
  <2>1. Then(job, to) = Goes(to, stack, job.at.screen)
    BY <1>6 DEF Then
  <2>2. to \in DOMAIN Screen => Moves(to)
    BY <1>6 DEF Moves
  <2>3. QED  BY <1>4, <2>1, <2>2, GoesIs
<1>7. QED  BY <1>5, <1>6

\* Writing an answer into the entries held.
LEMMA WrittenIs ==
  ASSUME ClientTypes, NEW held, Entries(held), NEW job \in jobs,
         job.tick # None, NEW p
  PROVE  /\ Entries(Written(held, p, job))
         /\ \A v \in DOMAIN Written(held, p, job) :
              \/ Written(held, p, job)[v].how = "press"
              \/ v \in DOMAIN held /\ Written(held, p, job)[v] = held[v]
<1> DEFINE entry == [seen |-> job.tick[1], by |-> job.by, old |-> FALSE,
                     how |-> "press"]
           new == [v \in (p.puts \cap DOMAIN held) \cup p.makes |-> entry]
<1>1. JobOK(job)
  BY DEF ClientTypes
<1>2. job.tick[1] \in Nat
  BY <1>1 DEF JobOK, Job, Ticks
<1>3. entry \in Entry /\ entry.how = "press"
  BY <1>1, <1>2 DEF Entry, JobOK, Job
<1>4. Written(held, p, job) = Over(new, held)
  BY DEF Written
<1> HIDE DEF entry
<1>5. \A v \in DOMAIN new : new[v] = entry
  OBVIOUS
<1> HIDE DEF new
<1>6. /\ DOMAIN Over(new, held) = DOMAIN new \cup DOMAIN held
      /\ \A v \in DOMAIN new : Over(new, held)[v] = new[v]
      /\ \A v \in DOMAIN held \ DOMAIN new : Over(new, held)[v] = held[v]
  BY OverIs
<1>7. QED  BY <1>3, <1>4, <1>5, <1>6 DEF Entries

LEMMA SucceedTypes ==
  ASSUME ClientTypes, NEW job, NEW to, NEW aged, Succeed(job, to, aged)
  PROVE  ClientTypes'
<1>1. /\ job \in jobs /\ job.tick # None
      /\ to \in job.press.to \ {"enter", "out"}
  BY SucceedIs
<1>2. stack' \in Seq(Opening) /\ stack' # <<>>
  BY <1>1, SucceedIs, ThenIs
<1>3. Entries(cache')
  <2>1. Entries(Aged(job.press.old))
    BY AgedIs
  <2>2. cache' = Written(Aged(job.press.old), job.press, job)
    BY SucceedIs
  <2>3. QED  BY <1>1, <2>1, <2>2, WrittenIs
<1>4. Readings(fetch')
  <2>1. Readings(Renewed(job.press.old))
    BY AskedIs DEF Renewed, ClientTypes
  <2>2. \/ fetch' = Renewed(job.press.old)
        \/ \E views : fetch' = Asked(Renewed(job.press.old), views)
    BY SucceedIs
  <2>3. QED  BY <2>1, <2>2, AskedIs
<1>5. budget' \in [Counters -> Nat]
  <2>1. Turns \in Counters
    BY DEF Turns, Counters
  <2>2. CASE Moves(to)
    <3>1. budget[Turns] > 0 /\ budget' = [budget EXCEPT ![Turns] = @ - 1]
      BY <2>2, SucceedIs
    <3>2. QED  BY <2>1, <3>1 DEF ClientTypes
  <2>3. CASE ~Moves(to)
    BY <2>3, SucceedIs DEF ClientTypes
  <2>4. QED  BY <2>2, <2>3
<1>6. \A j \in jobs' : JobOK(j)
  BY SucceedIs DEF ClientTypes
<1>7. QED  BY <1>2, <1>3, <1>4, <1>5, <1>6, SucceedIs DEF ClientTypes

-----------------------------------------------------------------------------
LEMMA NoneIs == DOMAIN None = {} /\ Entries(None) /\ Readings(None)
<1>1. DOMAIN None = {}
  BY DEF None
<1>2. QED  BY <1>1 DEF Entries, Readings

LEMMA Gates ==
  /\ {"welcome", "home", "onboarding/birthday"} \subseteq DOMAIN Screen
  /\ Links \subseteq DOMAIN Screen
BY ClientAssumption DEF ScreensAssumption, SignedOutScreens

LEMMA EnterTypes ==
  ASSUME ClientTypes, NEW job, NEW s \in {"home", "onboarding/birthday"},
         Enter(job, s)
  PROVE  ClientTypes'
<1> DEFINE new == [v \in OnMount(s, FALSE) |-> [by |-> job.by, got |-> None]]
<1>1. job \in jobs /\ job.by \in User
  BY DEF Enter, ClientTypes, JobOK, Job
<1>2. \A v \in DOMAIN new : new[v] \in Reading
  BY <1>1 DEF Reading, Ticks
<1>3. fetch' = Over(new, fetch)
  BY DEF Enter
<1> HIDE DEF new
<1>4. /\ DOMAIN Over(new, fetch) = DOMAIN new \cup DOMAIN fetch
      /\ \A v \in DOMAIN new : Over(new, fetch)[v] = new[v]
      /\ \A v \in DOMAIN fetch \ DOMAIN new : Over(new, fetch)[v] = fetch[v]
  BY OverIs
<1>5. Readings(fetch')
  BY <1>2, <1>3, <1>4 DEF ClientTypes, Readings
<1>6. stack' \in Seq(Opening) /\ stack' # <<>>
  BY AloneIs, Gates DEF Enter
<1>7. QED  BY <1>1, <1>5, <1>6 DEF Enter, ClientTypes

LEMMA LeaveTypes ==
  ASSUME ClientTypes, (\E j \in jobs : AskToLeave(j)) \/ SignOut \/ EndSession
  PROVE  ClientTypes'
<1>1. CASE \E j \in jobs : AskToLeave(j)
  BY <1>1 DEF AskToLeave, ClientTypes
<1>2. Alone("welcome") \in Seq(Opening) /\ Alone("welcome") # <<>>
  BY AloneIs, Gates
<1>3. CASE SignOut
  BY <1>2, <1>3, NoneIs DEF SignOut, ClientTypes
<1>4. CASE EndSession
  <2>1. budget' \in [Counters -> Nat]
    BY <1>4 DEF EndSession, ClientTypes, Counters
  <2>2. QED  BY <1>2, <1>4, <2>1 DEF EndSession, ClientTypes
<1>5. QED  BY <1>1, <1>3, <1>4

LEMMA DiskTypes == ASSUME ClientTypes, Persist \/ Restart  PROVE ClientTypes'
<1>1. CASE Persist
  <2>1. Entries(disk')
    BY <1>1 DEF Persist, Entries, Only, ClientTypes
  <2>2. QED  BY <1>1, <2>1 DEF Persist, ClientTypes
<1>2. CASE Restart
  <2>1. stack' \in Seq(Opening) /\ stack' # <<>>
    <3>1. PICK s \in {"welcome", "home"} : stack' = Alone(s)
      BY <1>2 DEF Restart
    <3>2. QED  BY <3>1, AloneIs, Gates
  <2>2. Readings(fetch')
    <3>1. CASE who = Nobody
      BY <1>2, <3>1, NoneIs DEF Restart
    <3>2. CASE who # Nobody
      <4>1. PICK S : fetch' = [v \in S |-> [by |-> who, got |-> None]]
        BY <1>2, <3>2 DEF Restart
      <4>2. [by |-> who, got |-> None] \in Reading
        BY <3>2 DEF ClientTypes, Reading, Ticks
      <4>3. QED  BY <4>1, <4>2 DEF Readings
    <3>3. QED  BY <3>1, <3>2
  <2>3. budget' \in [Counters -> Nat]
    BY <1>2 DEF Restart, ClientTypes, Counters
  <2>4. QED  BY <1>2, <2>1, <2>2, <2>3 DEF Restart, ClientTypes
<1>3. QED  BY <1>1, <1>2

LEMMA TypesStep == ClientTypes /\ [ClientNext]_clientVars => ClientTypes'
<1> SUFFICES ASSUME ClientTypes, [ClientNext]_clientVars  PROVE ClientTypes'
  OBVIOUS
<1>1. ASSUME NEW s \in Screen[Top.screen].opens, NEW aged \in BOOLEAN,
             Follow(s, aged)
      PROVE  ClientTypes'
  <2>1. s \in DOMAIN Screen
    BY TopIs, ClientAssumption DEF ScreensAssumption
  <2>2. Turns \in Counters /\ Open(s, aged, Turns)
    BY <1>1 DEF Follow, Turns, Counters
  <2>3. QED  BY <2>1, <2>2, OpenTypes
<1>2. ASSUME NEW s \in Links, NEW aged \in BOOLEAN, TapPush(s, aged)
      PROVE  ClientTypes'
  BY <1>2, OpenTypes, Gates DEF TapPush, Counters
<1>3. CASE GoBack
  BY <1>3, BackTypes
<1>4. ASSUME NEW v \in DOMAIN fetch, Answer(v) \/ Arrive(v) \/ Fail(v)
      PROVE  ClientTypes'
  BY <1>4, ReadTypes
<1>5. ASSUME NEW views, Hear(views)
      PROVE  ClientTypes'
  BY <1>5, HearTypes
<1>6. ASSUME NEW p, NEW u \in User, Press(p, u)
      PROVE  ClientTypes'
  BY <1>6, PressTypes
<1>7. ASSUME NEW j \in jobs, Serve(j) \/ LookUp(j) \/ Repeat(j)
      PROVE  ClientTypes'
  BY <1>7, CallTypes
<1>a. ASSUME NEW req \in atApi, Commit(req)
      PROVE  ClientTypes'
  BY <1>a, CommitTypes
<1>8. ASSUME NEW j \in jobs, GiveUp(j)
      PROVE  ClientTypes'
  BY <1>8, GiveUpTypes
<1>9. ASSUME NEW j \in jobs, NEW to, NEW aged, Succeed(j, to, aged)
      PROVE  ClientTypes'
  BY <1>9, SucceedTypes
<1>10. ASSUME NEW j \in jobs, NEW s \in {"home", "onboarding/birthday"},
              Enter(j, s)
       PROVE  ClientTypes'
  BY <1>10, EnterTypes
<1>11. CASE (\E j \in jobs : AskToLeave(j)) \/ SignOut \/ EndSession
  BY <1>11, LeaveTypes
<1>12. CASE Persist \/ Restart
  BY <1>12, DiskTypes
<1>13. CASE UNCHANGED clientVars
  BY <1>13 DEF clientVars, ClientTypes, Entries, Readings
<1>14. QED
  BY <1>1, <1>2, <1>3, <1>4, <1>5, <1>6, <1>7, <1>8, <1>9, <1>10, <1>11,
     <1>12, <1>13, <1>a DEF ClientNext

-----------------------------------------------------------------------------
(* One opening of a screen charges once.                                      *)
Sent(k) == k[2] = "wish with money" => Times(<<k[1], "wish send">>) >= 1

\* A key is taken once.  A request that found its key, and a call that has its
\* answer, left the key taken; and whatever has the key of a wish's money, or
\* asks for it, sent the wish before.
OneCharge ==
  /\ \A k \in DOMAIN done : done[k] \in Nat \ {0}
  /\ \A k \in DOMAIN done : (k[2] \in Charges => done[k] = 1) /\ Sent(k)
  /\ \A req \in atApi : (req.found => req.key \in DOMAIN done) /\ Sent(req.key)
  /\ \A j \in jobs : j.press.call \in Charges /\ j.tick # None =>
                      Pressing(j) \in DOMAIN done

\* A job that would charge carries the key of its screen, and money its wish.
LEMMA ChargesAreKeyed ==
  ASSUME ClientTypes, NEW job \in jobs
  PROVE  /\ job.press.call \in Charges => Keyed(job)
         /\ job.press.call = "wish with money" => "wish send" \in job.press.also
         /\ job.press.also \cap Charges = {}
<1>1. job.at.screen \in DOMAIN Screen /\ job.press \in Screen[job.at.screen].presses
  BY DEF ClientTypes, JobOK, Job, Opening
<1>2. QED  BY <1>1, ClientAssumption DEF ScreensAssumption, Keyed

LEMMA DoingIs ==
  ASSUME OneCharge, NEW S, done' = Doing(S)
  PROVE  /\ DOMAIN done' = S \cup DOMAIN done
         /\ \A k \in S : done'[k] = Times(k) + 1
         /\ \A k \in DOMAIN done \ S : done'[k] = done[k]
         /\ \A k : Times(k) \in Nat /\ Times(k)' \in {Times(k), Times(k) + 1}
         /\ \A k \in S : Times(k)' >= 1
<1> DEFINE new == [k \in S |-> Times(k) + 1]
<1>1. done' = Over(new, done)
  BY DEF Doing
<1>2. DOMAIN new = S /\ \A k \in S : new[k] = Times(k) + 1
  OBVIOUS
<1> HIDE DEF new
<1>3. /\ DOMAIN Over(new, done) = DOMAIN new \cup DOMAIN done
      /\ \A v \in DOMAIN new : Over(new, done)[v] = new[v]
      /\ \A v \in DOMAIN done \ DOMAIN new : Over(new, done)[v] = done[v]
  BY OverIs
<1>4. /\ DOMAIN done' = S \cup DOMAIN done
      /\ \A k \in S : done'[k] = Times(k) + 1
      /\ \A k \in DOMAIN done \ S : done'[k] = done[k]
  BY <1>1, <1>2, <1>3
<1>5. \A k : Times(k) \in Nat
  BY DEF OneCharge, Times
<1>6. \A k : Times(k)' \in {Times(k), Times(k) + 1}
  BY <1>4, <1>5 DEF Times
<1>7. \A k \in S : Times(k)' >= 1
  BY <1>4, <1>5 DEF Times
<1>8. QED  BY <1>4, <1>5, <1>6, <1>7

\* What was sent stays sent.
LEMMA SentKept ==
  ASSUME OneCharge, NEW S, done' = Doing(S), NEW k, Sent(k)
  PROVE  Sent(k)'
<1>1. PICK wish : wish = <<k[1], "wish send">>
  OBVIOUS
<1>2. Times(wish) \in Nat /\ Times(wish)' \in {Times(wish), Times(wish) + 1}
  BY DoingIs
<1>3. k[2] = "wish with money" => Times(wish) >= 1
  BY <1>1 DEF Sent
<1>4. Times(wish) >= 1 => Times(wish)' >= 1
  <2> DEFINE before == Times(wish)
             after == Times(wish)'
  <2>1. before \in Nat /\ (after = before \/ after = before + 1)
    BY <1>2
  <2> HIDE DEF before, after
  <2>2. before >= 1 => after >= 1
    BY <2>1
  <2>3. QED  BY <2>2 DEF before, after
<1>5. QED  BY <1>1, <1>3, <1>4 DEF Sent

\* What was done stays done.
LEMMA DoneKept ==
  ASSUME OneCharge, NEW S, done' = Doing(S),
         \A k \in S : k[2] \in Charges => k \notin DOMAIN done,
         \A k \in S : Sent(k)'
  PROVE  /\ \A k : Sent(k) => Sent(k)'
         /\ DOMAIN done \subseteq DOMAIN done'
         /\ \A k \in DOMAIN done' : done'[k] \in Nat \ {0}
         /\ \A k \in DOMAIN done' : (k[2] \in Charges => done'[k] = 1) /\ Sent(k)'
<1>1. \A k : Sent(k) => Sent(k)'
  BY SentKept
<1>2. DOMAIN done \subseteq DOMAIN done'
  BY DoingIs
<1>3. ASSUME NEW k \in DOMAIN done'
      PROVE  /\ done'[k] \in Nat \ {0}
             /\ k[2] \in Charges => done'[k] = 1
             /\ Sent(k)'
  <2>1. CASE k \in S
    <3>1. k[2] \in Charges => Times(k) = 0
      BY <2>1 DEF Times
    <3>2. Times(k) \in Nat /\ done'[k] = Times(k) + 1
      BY <2>1, DoingIs
    <3>3. Sent(k)'
      BY <2>1
    <3>4. QED  BY <3>1, <3>2, <3>3
  <2>2. CASE k \notin S
    <3>1. k \in DOMAIN done /\ done'[k] = done[k]
      BY <2>2, DoingIs
    <3>2. QED  BY <1>1, <3>1 DEF OneCharge
  <2>3. QED  BY <2>1, <2>2
<1>4. QED  BY <1>1, <1>2, <1>3

LEMMA ServeCharges ==
  ASSUME ClientTypes, OneCharge, NEW job \in jobs, Serve(job)
  PROVE  OneCharge'
<1>1. job.press.call \notin Charges
  BY ChargesAreKeyed DEF Serve
<1>2. Pressing(job)[2] = job.press.call /\ done' = Doing({Pressing(job)}) /\ atApi' = atApi
  BY DEF Pressing, Serve
<1>3. Sent(Pressing(job))'
  BY <1>1, <1>2 DEF Sent, Charges
<1>4. /\ \A k : Sent(k) => Sent(k)'
      /\ DOMAIN done \subseteq DOMAIN done'
      /\ \A k \in DOMAIN done' : done'[k] \in Nat \ {0}
      /\ \A k \in DOMAIN done' : (k[2] \in Charges => done'[k] = 1) /\ Sent(k)'
  <2> DEFINE S == {Pressing(job)}
  <2>1. \A k \in S : (k[2] \in Charges => k \notin DOMAIN done) /\ Sent(k)'
    BY <1>1, <1>2, <1>3
  <2>2. done' = Doing(S)
    BY <1>2
  <2> HIDE DEF S
  <2>3. QED  BY <2>1, <2>2, DoneKept
<1>5. PICK k : k.press = job.press /\ jobs' = (jobs \ {job}) \cup {k}
  BY ServeIs
<1>6. \A j \in jobs' : j.press.call \in Charges /\ j.tick # None =>
                        Pressing(j) \in DOMAIN done'
  BY <1>1, <1>4, <1>5 DEF OneCharge
<1>7. \A req \in atApi' : (req.found => req.key \in DOMAIN done') /\ Sent(req.key)'
  BY <1>2, <1>4 DEF OneCharge
<1>8. QED  BY <1>4, <1>6, <1>7 DEF OneCharge, Pressing

LEMMA LookUpCharges ==
  ASSUME ClientTypes, OneCharge, NEW job \in jobs, LookUp(job)
  PROVE  OneCharge'
<1> DEFINE S == {<<job.at.visit, c>> : c \in job.press.also}
           new == [id |-> job.id, left |-> job.left, key |-> Pressing(job),
                   found |-> Pressing(job) \in DOMAIN done]
<1>1. done' = Doing(S) /\ atApi' = atApi \cup {new}
  BY DEF LookUp
<1>2. new.key = Pressing(job) /\ new.found = (Pressing(job) \in DOMAIN done)
  OBVIOUS
<1>3. \A k \in S : k[2] \notin Charges
  <2>1. \A c \in job.press.also : c \notin Charges
    BY ChargesAreKeyed
  <2>2. \A k \in S : \E c \in job.press.also : k = <<job.at.visit, c>>
    OBVIOUS
  <2>3. QED  BY <2>1, <2>2
<1>4. job.press.call = "wish with money" => <<job.at.visit, "wish send">> \in S
  BY ChargesAreKeyed
<1> HIDE DEF S, new
<1>5. \A k \in S : Sent(k)'
  BY <1>3 DEF Sent, Charges
<1>6. /\ \A k : Sent(k) => Sent(k)'
      /\ DOMAIN done \subseteq DOMAIN done'
      /\ \A k \in DOMAIN done' : done'[k] \in Nat \ {0}
      /\ \A k \in DOMAIN done' : (k[2] \in Charges => done'[k] = 1) /\ Sent(k)'
  BY <1>1, <1>3, <1>5, DoneKept
<1>7. Sent(Pressing(job))'
  <2>1. Pressing(job) = <<job.at.visit, job.press.call>>
    BY DEF Pressing
  <2>2. \A k \in S : Times(k)' >= 1
    BY <1>1, DoingIs
  <2>3. job.press.call = "wish with money" =>
          Times(<<job.at.visit, "wish send">>)' >= 1
    BY <1>4, <2>2
  <2>4. /\ Pressing(job)[1] = job.at.visit
        /\ Pressing(job)[2] = job.press.call
    BY <2>1
  <2>5. Sent(Pressing(job))' <=>
          (Pressing(job)[2] = "wish with money" =>
             Times(<<Pressing(job)[1], "wish send">>)' >= 1)
    BY DEF Sent
  <2>6. QED  BY <2>3, <2>4, <2>5
<1>8. \A req \in atApi' : (req.found => req.key \in DOMAIN done') /\ Sent(req.key)'
  BY <1>1, <1>2, <1>6, <1>7 DEF OneCharge
<1>9. \A j \in jobs' : j.press.call \in Charges /\ j.tick # None =>
                        Pressing(j) \in DOMAIN done'
  <2> DEFINE k == [job EXCEPT !.out = TRUE]
  <2>1. jobs' = (jobs \ {job}) \cup {k}
    BY DEF LookUp
  <2>2. k.tick = None
    BY DEF LookUp, ClientTypes, JobOK, Job
  <2> HIDE DEF k
  <2>3. QED  BY <1>6, <2>1, <2>2 DEF OneCharge
<1>10. QED  BY <1>6, <1>8, <1>9 DEF OneCharge, Pressing

LEMMA CommitCharges ==
  ASSUME ClientTypes, OneCharge, NEW req \in atApi, Commit(req)
  PROVE  OneCharge'
<1>1. atApi' \subseteq atApi /\ Sent(req.key)
  BY DEF Commit, OneCharge
<1>2. done' = done \/ (NewKey(req) /\ done' = Doing({req.key}))
  BY DEF Commit
<1>3. /\ \A k : Sent(k) => Sent(k)'
      /\ DOMAIN done \subseteq DOMAIN done'
      /\ \A k \in DOMAIN done' : done'[k] \in Nat \ {0}
      /\ \A k \in DOMAIN done' : (k[2] \in Charges => done'[k] = 1) /\ Sent(k)'
  <2>1. CASE done' = done
    BY <2>1 DEF OneCharge, Sent, Times
  <2>2. CASE NewKey(req) /\ done' = Doing({req.key})
    <3> DEFINE S == {req.key}
    <3>1. Sent(req.key)'
      BY <1>1, <2>2, SentKept
    <3>2. done' = Doing(S) /\ \A k \in S : k \notin DOMAIN done /\ Sent(k)'
      BY <2>2, <3>1 DEF NewKey
    <3> HIDE DEF S
    <3>3. QED  BY <3>2, DoneKept
  <2>3. QED  BY <1>2, <2>1, <2>2
<1>4. req.found \/ NewKey(req) => req.key \in DOMAIN done'
  <2>1. CASE req.found
    BY <1>3, <2>1 DEF OneCharge
  <2>2. CASE ~req.found /\ NewKey(req)
    BY <2>2, DoingIs DEF Commit
  <2>3. QED  BY <2>1, <2>2
<1>5. \A j \in jobs' : j.press.call \in Charges /\ j.tick # None =>
                        Pressing(j) \in DOMAIN done'
  <2> SUFFICES ASSUME NEW j \in jobs', j.press.call \in Charges, j.tick # None
               PROVE  Pressing(j) \in DOMAIN done'
    OBVIOUS
  <2>1. CASE j \in jobs
    BY <1>3, <2>1 DEF OneCharge
  <2>2. CASE j \notin jobs
    <3>1. PICK i \in jobs : /\ j.press = i.press /\ j.at = i.at /\ Attempt(i, req)
                            /\ req.found \/ NewKey(req)
      BY <2>2, CommitIs
    <3>2. Pressing(j) = req.key
      BY <3>1 DEF Pressing, Attempt
    <3>3. QED  BY <1>4, <3>1, <3>2
  <2>3. QED  BY <2>1, <2>2
<1>6. QED  BY <1>1, <1>3, <1>5 DEF OneCharge, Pressing

LEMMA OneChargeStep ==
  ASSUME ClientTypes, OneCharge, [ClientNext]_clientVars
  PROVE  OneCharge'
<1>1. ASSUME UNCHANGED <<done, atApi>>,
             \A j \in jobs' : j \in jobs \/ j.tick = None
      PROVE  OneCharge'
  BY <1>1 DEF OneCharge, Sent, Times, Pressing
<1>2. CASE \E job \in jobs : Serve(job) \/ LookUp(job)
  BY <1>2, ServeCharges, LookUpCharges
<1>3. CASE \E req \in atApi : Commit(req)
  BY <1>3, CommitCharges
<1>4. ASSUME NEW p, NEW u, Press(p, u)  PROVE OneCharge'
  <2> DEFINE new == [id |-> budget.presses, press |-> p, at |-> Top, by |-> u,
                     left |-> IF p.retried THEN Retries ELSE 0, out |-> FALSE, tick |-> None]
  <2>1. jobs' = jobs \cup {new} /\ UNCHANGED <<done, atApi>>
    BY <1>4 DEF Press
  <2>2. new.tick = None
    OBVIOUS
  <2> HIDE DEF new
  <2>3. QED  BY <1>1, <2>1, <2>2
<1>5. ASSUME NEW job \in jobs, Repeat(job)  PROVE OneCharge'
  <2>1. \A j \in jobs' : j \in jobs \/ j.tick = None
    BY <1>5, RepeatIs
  <2>2. QED  BY <1>1, <1>5, <2>1 DEF Repeat
<1>6. CASE UNCHANGED <<done, atApi>> /\ jobs' \subseteq jobs
  BY <1>1, <1>6
<1>7. \/ \E job \in jobs : Serve(job) \/ LookUp(job) \/ Repeat(job)
      \/ \E req \in atApi : Commit(req)
      \/ \E p, u : Press(p, u)
      \/ UNCHANGED <<done, atApi>> /\ jobs' \subseteq jobs
  <2> DEFINE Rest == UNCHANGED <<done, atApi>> /\ jobs' \subseteq jobs
  <2>1. ASSUME NEW s, NEW aged, Follow(s, aged) \/ TapPush(s, aged)
        PROVE  Rest
    BY <2>1 DEF Follow, TapPush, Open
  <2>2. ASSUME NEW v, Answer(v) \/ Arrive(v) \/ Fail(v)  PROVE Rest
    BY <2>2 DEF Answer, Arrive, Fail
  <2>3. ASSUME NEW views, Hear(views)  PROVE Rest
    BY <2>3 DEF Hear
  <2>4. ASSUME NEW j, GiveUp(j) \/ AskToLeave(j)  PROVE Rest
    BY <2>4 DEF GiveUp, AskToLeave
  <2>5. ASSUME NEW j, NEW to, NEW aged, Succeed(j, to, aged)  PROVE Rest
    BY <2>5, SucceedIs
  <2>6. ASSUME NEW j, NEW s, Enter(j, s)  PROVE Rest
    BY <2>6 DEF Enter
  <2>7. ASSUME GoBack \/ SignOut \/ EndSession  PROVE Rest
    BY <2>7 DEF GoBack, SignOut, EndSession
  <2>8. ASSUME Persist \/ Restart  PROVE Rest
    BY <2>8 DEF Persist, Restart
  <2>9. ASSUME UNCHANGED clientVars  PROVE Rest
    BY <2>9 DEF clientVars
  <2> HIDE DEF Rest
  <2>10. \/ \E job \in jobs : Serve(job) \/ LookUp(job) \/ Repeat(job)
         \/ \E req \in atApi : Commit(req)
         \/ \E p, u : Press(p, u)
         \/ Rest
    BY <2>1, <2>2, <2>3, <2>4, <2>5, <2>6, <2>7, <2>8, <2>9 DEF ClientNext
  <2>11. QED  BY <2>10 DEF Rest
<1>8. QED  BY <1>2, <1>3, <1>4, <1>5, <1>6, <1>7

LEMMA OneChargeInit == ClientInit => OneCharge
BY NoneIs DEF ClientInit, OneCharge

\* Whatever is pressed, answered, lost or restarted, the app's state is
\* well-formed: the stack is never empty and holds only screens there are.
THEOREM ClientTypesHold == ClientSpec => []ClientTypes
<1>1. QED  BY TypesInit, TypesStep, PTL DEF ClientSpec

\* However often the button is pressed, however many answers are lost and
\* however requests overlap at the API, one opening of a screen that pays
\* charges once, has charged when it says so, and gives no money without a wish.
THEOREM OneVisitOneChargeHolds == ClientSpec => []OneVisitOneCharge
<1>1. OneCharge => OneVisitOneCharge
  <2> SUFFICES ASSUME OneCharge  PROVE OneVisitOneCharge
    OBVIOUS
  <2>1. \A k \in DOMAIN done : k[2] \in Charges => done[k] <= 1
    BY DEF OneCharge
  <2>2. ASSUME NEW j \in jobs, j.press.call \in Charges, j.tick # None
        PROVE  Times(Pressing(j)) = 1
    <3>1. Pressing(j)[2] \in Charges
      BY <2>2 DEF Pressing
    <3>2. QED  BY <2>2, <3>1 DEF OneCharge, Times
  <2>3. \A k \in DOMAIN done :
          k[2] = "wish with money" => Times(<<k[1], "wish send">>) >= 1
    BY DEF OneCharge, Sent
  <2>4. QED  BY <2>1, <2>2, <2>3 DEF OneVisitOneCharge
<1>2. QED
  BY <1>1, ClientTypesHold, OneChargeInit, OneChargeStep, PTL DEF ClientSpec

-----------------------------------------------------------------------------
(* Pages of one person.                                                       *)
Clean(f) ==
  \A v \in DOMAIN f : f[v].how = "press" \/ (who # Nobody /\ f[v].by = who)
Enters == {j \in jobs : "enter" \in j.press.to}
OwnPages ==
  /\ \A i, j \in Enters : i.by = j.by
  /\ who # Nobody => \A j \in Enters : j.by = who
  /\ ended \notin {"forced", "torn"} =>
       /\ Clean(cache)
       /\ \A v \in DOMAIN fetch : who # Nobody /\ fetch[v].by = who
  /\ ended = "no" => Clean(disk)

\* A step in which nobody comes or goes: the calls that sign in are some of
\* those there were, what is held is written by a press, was held, or was read;
\* and what is read was being read, or is asked for by the one signed in.
EntersOfBefore == \A j \in Enters' : \E i \in Enters : i.by = j.by
HeldOfBefore ==
  \A v \in DOMAIN cache' :
    \/ cache'[v].how = "press"
    \/ /\ v \in DOMAIN cache /\ cache'[v].how = cache[v].how
       /\ cache'[v].by = cache[v].by
    \/ v \in DOMAIN fetch /\ cache'[v].by = fetch[v].by
ReadsOfBefore ==
  \A v \in DOMAIN fetch' :
    \/ v \in DOMAIN fetch /\ fetch'[v].by = fetch[v].by
    \/ who # Nobody /\ fetch'[v].by = who

LEMMA OwnFrame ==
  ASSUME OwnPages, UNCHANGED <<who, ended, disk>>, EntersOfBefore,
         HeldOfBefore, ReadsOfBefore
  PROVE  OwnPages'
<1>1. /\ \A i, j \in Enters' : i.by = j.by
      /\ who' # Nobody => \A j \in Enters' : j.by = who'
  BY DEF OwnPages, EntersOfBefore
<1>2. ASSUME ended' \notin {"forced", "torn"}
      PROVE  /\ Clean(cache)'
             /\ \A v \in DOMAIN fetch' : who' # Nobody /\ fetch'[v].by = who'
  BY <1>2 DEF OwnPages, HeldOfBefore, ReadsOfBefore, Clean
<1>3. ended' = "no" => Clean(disk)'
  BY DEF OwnPages, Clean
<1>4. QED  BY <1>1, <1>2, <1>3 DEF OwnPages

LEMMA AskedReads ==
  ASSUME ClientTypes, NEW views, fetch' = Asked(fetch, views)
  PROVE  ReadsOfBefore
<1>1. Readings(fetch)
  BY DEF ClientTypes
<1>2. QED  BY <1>1, AskedIs DEF ReadsOfBefore

LEMMA AgedHeld ==
  ASSUME ClientTypes, NEW views, cache' = Aged(views)
  PROVE  HeldOfBefore
BY AgedIs DEF HeldOfBefore, Loaded

LEMMA OwnScreens ==
  ASSUME ClientTypes, OwnPages,
         \/ \E s, aged, turn : Open(s, aged, turn)
         \/ GoBack
         \/ \E views : Hear(views)
         \/ \E job : GiveUp(job)
  PROVE  OwnPages'
<1>1. \E views : fetch' = Asked(fetch, views)
  BY DEF Open, Mount, GoBack, Hear, GiveUp, Renewed
<1>2. cache' = cache \/ \E views : cache' = Aged(views)
  BY DEF Open, GoBack, Hear, GiveUp
<1>3. HeldOfBefore
  BY <1>2, AgedHeld DEF HeldOfBefore
<1>4. EntersOfBefore
  BY DEF EntersOfBefore, Enters, Open, GoBack, Hear, GiveUp
<1>5. UNCHANGED <<who, ended, disk>>
  BY DEF Open, GoBack, Hear, GiveUp
<1>6. QED  BY <1>1, <1>3, <1>4, <1>5, AskedReads, OwnFrame

LEMMA OwnReads ==
  ASSUME ClientTypes, OwnPages, NEW v \in DOMAIN fetch,
         Answer(v) \/ Arrive(v) \/ Fail(v)
  PROVE  OwnPages'
<1>1. UNCHANGED <<who, ended, disk, jobs>>
  BY DEF Answer, Arrive, Fail
<1>2. EntersOfBefore
  BY <1>1 DEF EntersOfBefore, Enters
<1>3. ReadsOfBefore
  <2>1. CASE Answer(v)
    <3>1. /\ DOMAIN fetch' = DOMAIN fetch
          /\ fetch'[v] = [fetch[v] EXCEPT !.got = <<clock>>]
          /\ \A w \in DOMAIN fetch \ {v} : fetch'[w] = fetch[w]
      BY <2>1 DEF Answer
    <3>2. fetch[v] \in Reading
      BY DEF ClientTypes, Readings
    <3>3. fetch'[v].by = fetch[v].by
      BY <3>1, <3>2 DEF Reading
    <3>4. QED  BY <3>1, <3>3 DEF ReadsOfBefore
  <2>2. CASE Arrive(v) \/ Fail(v)
    <3>1. fetch' = Only(fetch, DOMAIN fetch \ {v})
      BY <2>2 DEF Arrive, Fail
    <3>2. QED  BY <3>1 DEF Only, ReadsOfBefore
  <2>3. QED  BY <2>1, <2>2
<1>4. HeldOfBefore
  <2>1. CASE Arrive(v)
    <3> DEFINE entry == [seen |-> fetch[v].got[1], by |-> fetch[v].by,
                         old |-> FALSE, how |-> "read"]
    <3>1. cache' = Over([w \in {v} |-> entry], cache)
      BY <2>1 DEF Arrive
    <3>2. entry.by = fetch[v].by
      OBVIOUS
    <3> HIDE DEF entry
    <3>3. QED  BY <3>1, <3>2 DEF Over, HeldOfBefore
  <2>2. CASE Answer(v) \/ Fail(v)
    BY <2>2 DEF Answer, Fail, HeldOfBefore
  <2>3. QED  BY <2>1, <2>2
<1>5. QED  BY <1>1, <1>2, <1>3, <1>4, OwnFrame

LEMMA OwnCalls ==
  ASSUME ClientTypes, OwnPages,
         \/ \E job \in jobs : Serve(job) \/ LookUp(job) \/ Repeat(job) \/ AskToLeave(job)
         \/ \E req \in atApi : Commit(req)
  PROVE  OwnPages'
<1>2. UNCHANGED <<who, ended, disk, cache, fetch>>
  BY DEF Serve, LookUp, Repeat, AskToLeave, Commit
<1>3. HeldOfBefore /\ ReadsOfBefore
  BY <1>2 DEF HeldOfBefore, ReadsOfBefore
<1>4. EntersOfBefore
  <2>1. ASSUME NEW job \in jobs, AskToLeave(job)  PROVE EntersOfBefore
    BY <2>1 DEF AskToLeave, EntersOfBefore, Enters
  <2>2. ASSUME NEW job \in jobs, Serve(job) \/ LookUp(job) \/ Repeat(job)
        PROVE  EntersOfBefore
    <3>1. PICK k : /\ k.press = job.press /\ k.by = job.by
                   /\ jobs' = (jobs \ {job}) \cup {k}
      BY <2>2, ServeIs, RepeatIs
    <3>2. QED  BY <3>1 DEF EntersOfBefore, Enters
  <2>3. ASSUME NEW req, Commit(req)  PROVE EntersOfBefore
    <3>1. \A k \in jobs' : \E j \in jobs : k.press = j.press /\ k.by = j.by
      BY <2>3, CommitIs
    <3>2. QED  BY <3>1 DEF EntersOfBefore, Enters
  <2>4. QED  BY <2>1, <2>2, <2>3
<1>5. QED  BY <1>2, <1>3, <1>4, OwnFrame

LEMMA OwnSucceed ==
  ASSUME ClientTypes, OwnPages, NEW job, NEW to, NEW aged, Succeed(job, to, aged)
  PROVE  OwnPages'
<1>1. /\ job \in jobs /\ job.tick # None /\ jobs' = jobs \ {job}
      /\ UNCHANGED <<who, ended, disk>>
  BY SucceedIs
<1>2. EntersOfBefore
  BY <1>1 DEF EntersOfBefore, Enters
<1>3. HeldOfBefore
  <2> DEFINE aging == Aged(job.press.old)
  <2>1. /\ Entries(aging) /\ DOMAIN aging = Loaded
        /\ \A v \in Loaded : /\ aging[v].by = cache[v].by
                             /\ aging[v].how = cache[v].how
    BY AgedIs
  <2>2. cache' = Written(aging, job.press, job)
    BY SucceedIs
  <2> HIDE DEF aging
  <2>3. \A v \in DOMAIN cache' :
          \/ cache'[v].how = "press"
          \/ v \in DOMAIN aging /\ cache'[v] = aging[v]
    BY <1>1, <2>1, <2>2, WrittenIs
  <2>4. QED  BY <2>1, <2>3 DEF HeldOfBefore, Loaded
<1>4. ReadsOfBefore
  <2> DEFINE renewed == Renewed(job.press.old)
  <2>1. /\ Readings(renewed)
        /\ \A v \in DOMAIN renewed :
             \/ v \in DOMAIN fetch /\ renewed[v] = fetch[v]
             \/ who # Nobody /\ renewed[v].by = who
    BY AskedIs DEF Renewed, ClientTypes
  <2>2. fetch' = renewed \/ \E views : fetch' = Asked(renewed, views)
    BY SucceedIs
  <2> HIDE DEF renewed
  <2>3. \A v \in DOMAIN fetch' :
          \/ v \in DOMAIN renewed /\ fetch'[v] = renewed[v]
          \/ who # Nobody /\ fetch'[v].by = who
    BY <2>1, <2>2, AskedIs
  <2>4. QED  BY <2>1, <2>3 DEF ReadsOfBefore
<1>5. QED  BY <1>1, <1>2, <1>3, <1>4, OwnFrame

LEMMA OwnPress ==
  ASSUME ClientTypes, OwnPages, NEW p, NEW u \in User, Press(p, u)
  PROVE  OwnPages'
<1>1. PICK k : /\ k.press = p /\ k.by = u /\ jobs' = jobs \cup {k}
  <2> DEFINE new == [id |-> budget.presses, press |-> p, at |-> Top, by |-> u,
                     left |-> IF p.retried THEN Retries ELSE 0, out |-> FALSE, tick |-> None]
  <2>1. jobs' = jobs \cup {new}
    BY DEF Press
  <2>2. new.press = p /\ new.by = u
    OBVIOUS
  <2> HIDE DEF new
  <2>3. QED  BY <2>1, <2>2
<1>2. UNCHANGED <<who, ended, disk, cache, fetch>>
  BY DEF Press
<1>3. \A j \in Enters : j.by = u
  <2>1. CASE who = Nobody
    BY <2>1 DEF Press, Enters
  <2>2. CASE who # Nobody
    BY <2>2 DEF Press, OwnPages
  <2>3. QED  BY <2>1, <2>2
<1>4. \A j \in Enters' : j.by = u
  BY <1>1, <1>3 DEF Enters
<1>5. who # Nobody => u = who
  BY DEF Press
<1>6. Clean(cache) = Clean(cache)' /\ Clean(disk) = Clean(disk)'
  BY <1>2 DEF Clean
<1>7. QED  BY <1>2, <1>4, <1>5, <1>6 DEF OwnPages

LEMMA OwnEnter ==
  ASSUME ClientTypes, OwnPages, NEW job, NEW s, Enter(job, s)
  PROVE  OwnPages'
<1>1. /\ job \in Enters /\ who' = job.by /\ jobs' = jobs \ {job}
      /\ UNCHANGED <<ended, cache, disk>>
  BY DEF Enter, Enters
<1>2. job.by # Nobody
  BY <1>1, ClientAssumption DEF ClientTypes, Enters, JobOK, Job
<1>3. who # Nobody => who = job.by
  BY <1>1 DEF OwnPages
<1>4. \A j \in Enters' : j \in Enters
  BY <1>1 DEF Enters
<1>5. Clean(cache) => Clean(cache)'
  BY <1>1, <1>2, <1>3 DEF Clean
<1>6. Clean(disk) => Clean(disk)'
  BY <1>1, <1>2, <1>3 DEF Clean
<1>7. \A v \in DOMAIN fetch' :
        \/ v \in DOMAIN fetch /\ fetch'[v] = fetch[v]
        \/ fetch'[v].by = job.by
  <2> DEFINE new == [v \in OnMount(s, FALSE) |-> [by |-> job.by, got |-> None]]
  <2>1. fetch' = Over(new, fetch)
    BY DEF Enter
  <2>2. \A v \in DOMAIN new : new[v].by = job.by
    OBVIOUS
  <2> HIDE DEF new
  <2>3. /\ DOMAIN Over(new, fetch) = DOMAIN new \cup DOMAIN fetch
        /\ \A v \in DOMAIN new : Over(new, fetch)[v] = new[v]
        /\ \A v \in DOMAIN fetch \ DOMAIN new : Over(new, fetch)[v] = fetch[v]
    BY OverIs
  <2>4. QED  BY <2>1, <2>2, <2>3
<1>8. QED
  <2>1. \A i, j \in Enters' : i.by = j.by
    BY <1>4 DEF OwnPages
  <2>2. \A j \in Enters' : j.by = who'
    BY <1>1, <1>4 DEF OwnPages
  <2>3. ASSUME ended' \notin {"forced", "torn"}
        PROVE  /\ Clean(cache)'
               /\ \A v \in DOMAIN fetch' : who' # Nobody /\ fetch'[v].by = who'
    <3>1. Clean(cache) /\ \A v \in DOMAIN fetch : who # Nobody /\ fetch[v].by = who
      BY <1>1, <2>3 DEF OwnPages
    <3>2. QED  BY <1>1, <1>2, <1>3, <1>5, <1>7, <3>1
  <2>4. ended' = "no" => Clean(disk)'
    BY <1>1, <1>6 DEF OwnPages
  <2>5. QED  BY <2>1, <2>2, <2>3, <2>4 DEF OwnPages

LEMMA OwnSessions ==
  ASSUME ClientTypes, OwnPages, SignOut \/ EndSession \/ Persist \/ Restart
  PROVE  OwnPages'
<1>1. CASE SignOut
  <2>1. /\ jobs' = jobs /\ who' = Nobody /\ ended' = "clearing"
        /\ DOMAIN cache' = {} /\ DOMAIN fetch' = {}
    BY <1>1, NoneIs DEF SignOut
  <2>2. QED  BY <2>1 DEF OwnPages, Enters, Clean
<1>2. CASE EndSession
  BY <1>2 DEF EndSession, OwnPages, Enters
<1>3. CASE Persist
  <2>1. /\ UNCHANGED <<who, jobs, cache, fetch>>
        /\ disk' = Only(cache, Persisted)
        /\ ended' = IF ended = "clearing" THEN "no" ELSE ended
    BY <1>3 DEF Persist
  <2>2. ended' \notin {"forced", "torn"} => ended \notin {"forced", "torn"}
    BY <2>1
  <2>3. Clean(cache) => Clean(cache)' /\ Clean(disk)'
    BY <2>1 DEF Clean, Only
  <2>4. QED  BY <2>1, <2>2, <2>3 DEF OwnPages, Enters
<1>4. CASE Restart
  <2>1. /\ UNCHANGED <<who, disk>> /\ jobs' = {} /\ cache' = disk
        /\ ended' = IF ended = "clearing" THEN "torn" ELSE ended
    BY <1>4 DEF Restart
  <2>2. Enters' = {}
    BY <2>1 DEF Enters
  <2>3. ended \in {"no", "forced", "clearing", "torn"}
    BY DEF ClientTypes
  <2>4. ended' \notin {"forced", "torn"} => ended = "no"
    BY <2>1, <2>3
  <2>5. Clean(disk) => Clean(cache)' /\ Clean(disk)'
    BY <2>1 DEF Clean
  <2>6. \A v \in DOMAIN fetch' : who # Nobody /\ fetch'[v].by = who
    <3>1. CASE who = Nobody
      BY <1>4, <3>1, NoneIs DEF Restart
    <3>2. CASE who # Nobody
      <4>1. PICK S : fetch' = [v \in S |-> [by |-> who, got |-> None]]
        BY <1>4, <3>2 DEF Restart
      <4>2. QED  BY <3>2, <4>1
    <3>3. QED  BY <3>1, <3>2
  <2>7. QED  BY <2>1, <2>2, <2>4, <2>5, <2>6 DEF OwnPages
<1>5. QED  BY <1>1, <1>2, <1>3, <1>4

LEMMA OwnInit == ClientInit => OwnPages
BY NoneIs, ClientAssumption DEF ClientInit, OwnPages, Enters, Clean

LEMMA OwnStep ==
  ASSUME ClientTypes, OwnPages, [ClientNext]_clientVars
  PROVE  OwnPages'
<1>1. CASE \/ \E s, aged, turn : Open(s, aged, turn)
           \/ GoBack
           \/ \E views : Hear(views)
           \/ \E job : GiveUp(job)
  BY <1>1, OwnScreens
<1>2. ASSUME NEW v \in DOMAIN fetch, Answer(v) \/ Arrive(v) \/ Fail(v)
      PROVE  OwnPages'
  BY <1>2, OwnReads
<1>3. ASSUME NEW p, NEW u \in User, Press(p, u)
      PROVE  OwnPages'
  BY <1>3, OwnPress
<1>4. CASE \/ \E job \in jobs : Serve(job) \/ LookUp(job) \/ Repeat(job) \/ AskToLeave(job)
           \/ \E req \in atApi : Commit(req)
  BY <1>4, OwnCalls
<1>5. ASSUME NEW j, NEW to, NEW aged, Succeed(j, to, aged)
      PROVE  OwnPages'
  BY <1>5, OwnSucceed
<1>6. ASSUME NEW j, NEW s, Enter(j, s)
      PROVE  OwnPages'
  BY <1>6, OwnEnter
<1>7. CASE SignOut \/ EndSession \/ Persist \/ Restart
  BY <1>7, OwnSessions
<1>8. CASE UNCHANGED clientVars
  BY <1>8 DEF clientVars, OwnPages, Enters, Clean
<1>9. QED
  BY <1>1, <1>2, <1>3, <1>4, <1>5, <1>6, <1>7, <1>8
     DEF ClientNext, Follow, TapPush

\* Across signing out, signing in, late answers and restarts nobody sees what
\* was read for another person, but for the two ways of ending that
\* NobodyElsesPages names.
THEOREM NobodyElsesPagesHolds == ClientSpec => []NobodyElsesPages
<1>1. OwnPages => NobodyElsesPages
  BY DEF OwnPages, Clean, NobodyElsesPages, Loaded
<1>2. QED  BY <1>1, ClientTypesHold, OwnInit, OwnStep, PTL DEF ClientSpec

-----------------------------------------------------------------------------
(* Pages no older than what the app learnt.                                   *)
SignedOut ==
  who = Nobody =>
    \A i \in 1 .. Len(stack) : stack[i].screen \in SignedOutScreens
Ticked == \A j \in jobs : j.tick # None => j.tick[1] <= clock

\* A page is marked old, or newer than what was told of it; and so is the
\* answer of a read that is on its way.
ShownSince(v, tick) ==
  \/ cache[v].how = "press"
  \/ cache[v].old
  \/ cache[v].seen >= tick
ReadSince(v, tick) == fetch[v].got # None => fetch[v].got[1] >= tick
UpToDate ==
  \A v \in DOMAIN told :
    /\ told[v] \in Nat /\ told[v] <= clock
    /\ v \in DOMAIN cache => ShownSince(v, told[v])
    /\ v \in DOMAIN fetch => ReadSince(v, told[v])
Fresh == SignedOut /\ Ticked /\ UpToDate

\* What was told stays true while pages keep their entry, turn old or are
\* written by a press, and reads go on or begin anew.
ToldOfBefore == \A v \in DOMAIN told' : v \in DOMAIN told /\ told'[v] = told[v]
EntryKept(v) ==
  /\ v \in DOMAIN cache
  /\ cache'[v].how = cache[v].how /\ cache'[v].seen = cache[v].seen
  /\ cache[v].old => cache'[v].old
ShowsOfBefore ==
  \A v \in DOMAIN cache' : cache'[v].how = "press" \/ EntryKept(v)
GotOfBefore ==
  \A v \in DOMAIN fetch' :
    \/ v \in DOMAIN fetch /\ fetch'[v].got = fetch[v].got
    \/ fetch'[v].got = None

LEMMA FreshFrame ==
  ASSUME ClientTypes, UpToDate, ToldOfBefore, ShowsOfBefore, GotOfBefore,
         clock' \in Nat, clock' >= clock
  PROVE  UpToDate'
<1> SUFFICES ASSUME NEW v \in DOMAIN told'
             PROVE  /\ told'[v] \in Nat /\ told'[v] <= clock'
                    /\ v \in DOMAIN cache' => ShownSince(v, told[v])'
                    /\ v \in DOMAIN fetch' => ReadSince(v, told[v])'
  BY DEF UpToDate
<1>1. v \in DOMAIN told /\ told'[v] = told[v]
  BY DEF ToldOfBefore
<1>2. told[v] \in Nat /\ told[v] <= clock /\ clock \in Nat
  BY <1>1 DEF UpToDate, ClientTypes
<1>3. told'[v] \in Nat /\ told'[v] <= clock'
  BY <1>1, <1>2
<1>4. ASSUME v \in DOMAIN cache'
      PROVE  ShownSince(v, told[v])'
  <2>1. CASE cache'[v].how = "press"
    BY <2>1 DEF ShownSince
  <2>2. CASE EntryKept(v)
    BY <1>1, <2>2 DEF ShownSince, EntryKept, UpToDate
  <2>3. QED  BY <1>4, <2>1, <2>2 DEF ShowsOfBefore
<1>5. ASSUME v \in DOMAIN fetch'
      PROVE  ReadSince(v, told[v])'
  BY <1>1, <1>5 DEF GotOfBefore, ReadSince, UpToDate
<1>6. QED  BY <1>3, <1>4, <1>5

LEMMA OnlyTold ==
  ASSUME NEW S, told' = Only(told, S)
  PROVE  ToldOfBefore
BY DEF Only, ToldOfBefore

LEMMA AskedGot ==
  ASSUME ClientTypes, NEW views, fetch' = Asked(fetch, views)
  PROVE  GotOfBefore
<1>1. Readings(fetch)
  BY DEF ClientTypes
<1>2. QED  BY <1>1, AskedIs DEF GotOfBefore

LEMMA AgedShows ==
  ASSUME ClientTypes, cache' = cache \/ \E views : cache' = Aged(views)
  PROVE  ShowsOfBefore
<1>1. CASE cache' = cache
  BY <1>1 DEF ShowsOfBefore, EntryKept
<1>2. ASSUME NEW views, cache' = Aged(views)
      PROVE  ShowsOfBefore
  BY <1>2, AgedIs DEF ShowsOfBefore, EntryKept, Loaded
<1>3. QED  BY <1>1, <1>2

LEMMA FreshOpen ==
  ASSUME ClientTypes, Fresh, NEW s \in DOMAIN Screen, NEW aged, NEW turn,
         Open(s, aged, turn), who = Nobody => s \in SignedOutScreens
  PROVE  Fresh'
<1>1. \E views : fetch' = Asked(fetch, views)
  BY DEF Open, Mount
<1>2. UNCHANGED <<who, cache, jobs, clock>> /\ clock \in Nat
  BY DEF Open, ClientTypes
<1>3. \E S : told' = Only(told, S)
  BY DEF Open, Mount
<1>4. UpToDate'
  BY <1>1, <1>2, <1>3, OnlyTold, AskedGot, AgedShows, FreshFrame DEF Fresh
<1>5. Ticked'
  BY <1>2 DEF Fresh, Ticked
<1>6. SignedOut'
  <2>1. stack' = <<Visit(s)>> \/ stack' = Append(stack, Visit(s))
    BY DEF Open, Mount, Onto
  <2>2. stack \in Seq(Opening) /\ Visit(s) \in Opening /\ Visit(s).screen = s
    BY VisitIs DEF ClientTypes
  <2>3. \A i \in 1 .. Len(stack') :
          stack'[i] = Visit(s) \/ (i \in 1 .. Len(stack) /\ stack'[i] = stack[i])
    BY <2>1, <2>2, AppendIs
  <2>4. QED  BY <1>2, <2>2, <2>3 DEF Fresh, SignedOut
<1>7. QED  BY <1>4, <1>5, <1>6 DEF Fresh

LEMMA FreshBack == ASSUME ClientTypes, Fresh, GoBack  PROVE Fresh'
<1>1. /\ \E views : cache' = Aged(views)
      /\ \E views : fetch' = Asked(fetch, views)
      /\ \E S : told' = Only(told, S)
      /\ UNCHANGED <<who, jobs, clock>> /\ clock \in Nat
  BY DEF GoBack, ClientTypes
<1>2. UpToDate'
  BY <1>1, OnlyTold, AskedGot, AgedShows, FreshFrame DEF Fresh
<1>3. Ticked'
  BY <1>1 DEF Fresh, Ticked
<1>4. SignedOut'
  BY <1>1, ClosedIs DEF Fresh, SignedOut, GoBack, ClientTypes
<1>5. QED  BY <1>2, <1>3, <1>4 DEF Fresh

LEMMA FreshReads ==
  ASSUME ClientTypes, Fresh, NEW v \in DOMAIN fetch,
         Answer(v) \/ Arrive(v) \/ Fail(v)
  PROVE  Fresh'
<1>1. UNCHANGED <<who, stack, jobs, clock, told>>
  BY DEF Answer, Arrive, Fail
<1>2. SignedOut' /\ Ticked'
  BY <1>1 DEF Fresh, SignedOut, Ticked
<1>3. ToldOfBefore /\ clock \in Nat
  BY <1>1 DEF ToldOfBefore, ClientTypes
<1>4. CASE Fail(v)
  <2>1. GotOfBefore
    BY <1>4 DEF Fail, Only, GotOfBefore
  <2>2. ShowsOfBefore
    BY <1>4, AgedShows DEF Fail
  <2>3. QED  BY <1>1, <1>2, <1>3, <2>1, <2>2, FreshFrame DEF Fresh
<1>5. CASE Answer(v)
  <2>1. /\ cache' = cache /\ DOMAIN fetch' = DOMAIN fetch
        /\ fetch'[v] = [fetch[v] EXCEPT !.got = <<clock>>]
        /\ \A w \in DOMAIN fetch \ {v} : fetch'[w] = fetch[w]
    BY <1>5 DEF Answer
  <2>2. fetch'[v].got = <<clock>>
    BY <2>1 DEF ClientTypes, Readings, Reading
  <2>3. ASSUME NEW w \in DOMAIN told
        PROVE  w \in DOMAIN fetch' => ReadSince(w, told[w])'
    <3>1. told[w] \in Nat /\ told[w] <= clock
      BY DEF Fresh, UpToDate
    <3>2. CASE w = v
      BY <1>1, <1>3, <2>2, <3>1, <3>2 DEF ReadSince
    <3>3. CASE w # v
      BY <1>1, <2>1, <3>3 DEF ReadSince, Fresh, UpToDate
    <3>4. QED  BY <3>2, <3>3
  <2>4. UpToDate'
    BY <1>1, <2>1, <2>3 DEF Fresh, UpToDate, ShownSince
  <2>5. QED  BY <1>2, <2>4 DEF Fresh
<1>6. CASE Arrive(v)
  <2> DEFINE entry == [seen |-> fetch[v].got[1], by |-> fetch[v].by,
                       old |-> FALSE, how |-> "read"]
  <2>1. fetch[v].got # None /\ cache' = Over([w \in {v} |-> entry], cache)
    BY <1>6 DEF Arrive
  <2>2. entry.seen = fetch[v].got[1]
    OBVIOUS
  <2> HIDE DEF entry
  <2>3. cache' = [w \in {v} \cup DOMAIN cache |->
                    IF w = v THEN entry ELSE cache[w]]
    BY <2>1 DEF Over
  <2>4. fetch' = Only(fetch, DOMAIN fetch \ {v})
    BY <1>6 DEF Arrive
  <2>5. ASSUME NEW w \in DOMAIN told
        PROVE  /\ w \in DOMAIN cache' => ShownSince(w, told[w])'
               /\ w \in DOMAIN fetch' => ReadSince(w, told[w])'
    <3>1. CASE w = v
      <4>1. ReadSince(v, told[v])
        BY <3>1 DEF Fresh, UpToDate
      <4>2. cache'[v].seen >= told'[v]
        BY <1>1, <2>1, <2>2, <2>3, <4>1 DEF ReadSince
      <4>3. v \notin DOMAIN fetch'
        BY <2>4 DEF Only
      <4>4. QED  BY <3>1, <4>2, <4>3 DEF ShownSince
    <3>2. CASE w # v
      <4>1. /\ w \in DOMAIN cache' => w \in DOMAIN cache /\ cache'[w] = cache[w]
            /\ w \in DOMAIN fetch' => w \in DOMAIN fetch /\ fetch'[w] = fetch[w]
        BY <2>3, <2>4, <3>2 DEF Only
      <4>2. QED  BY <1>1, <4>1 DEF ShownSince, ReadSince, Fresh, UpToDate
    <3>3. QED  BY <3>1, <3>2
  <2>6. UpToDate'
    BY <1>1, <2>5 DEF Fresh, UpToDate
  <2>7. QED  BY <1>2, <2>6 DEF Fresh
<1>7. QED  BY <1>4, <1>5, <1>6

\* What is told anew is old or written, and not on its way.
LEMMA TellFrame ==
  ASSUME ClientTypes, UpToDate, ShowsOfBefore, GotOfBefore,
         clock' \in Nat, clock' >= clock, NEW tick \in Nat, tick <= clock',
         \A v \in DOMAIN told' :
           \/ v \in DOMAIN told /\ told'[v] = told[v]
           \/ /\ told'[v] = tick
              /\ v \in DOMAIN cache' => cache'[v].how = "press" \/ cache'[v].old
              /\ v \in DOMAIN fetch' => fetch'[v].got = None
  PROVE  UpToDate'
<1> SUFFICES ASSUME NEW v \in DOMAIN told'
             PROVE  /\ told'[v] \in Nat /\ told'[v] <= clock'
                    /\ v \in DOMAIN cache' => ShownSince(v, told[v])'
                    /\ v \in DOMAIN fetch' => ReadSince(v, told[v])'
  BY DEF UpToDate
<1>1. CASE /\ told'[v] = tick
           /\ v \in DOMAIN cache' => cache'[v].how = "press" \/ cache'[v].old
           /\ v \in DOMAIN fetch' => fetch'[v].got = None
  BY <1>1 DEF ShownSince, ReadSince
<1>2. CASE v \in DOMAIN told /\ told'[v] = told[v]
  <2>1. told[v] \in Nat /\ told[v] <= clock /\ clock \in Nat
    BY <1>2 DEF UpToDate, ClientTypes
  <2>2. told'[v] \in Nat /\ told'[v] <= clock'
    BY <1>2, <2>1
  <2>3. ASSUME v \in DOMAIN cache'
        PROVE  ShownSince(v, told[v])'
    <3>1. CASE cache'[v].how = "press"
      BY <3>1 DEF ShownSince
    <3>2. CASE EntryKept(v)
      BY <1>2, <3>2 DEF ShownSince, EntryKept, UpToDate
    <3>3. QED  BY <2>3, <3>1, <3>2 DEF ShowsOfBefore
  <2>4. ASSUME v \in DOMAIN fetch'
        PROVE  ReadSince(v, told[v])'
    BY <1>2, <2>4 DEF GotOfBefore, ReadSince, UpToDate
  <2>5. QED  BY <2>2, <2>3, <2>4
<1>3. QED  BY <1>1, <1>2

LEMMA TellIs ==
  ASSUME NEW views, NEW tick, NEW st, NEW v \in DOMAIN Tell(views, tick, st)
  PROVE  \/ /\ v \in views \cap Loaded \cap Mounted(stack)
            /\ Tell(views, tick, st)[v] = tick
         \/ v \in DOMAIN told /\ Tell(views, tick, st)[v] = told[v]
BY DEF Tell, Over, Only

LEMMA FreshHear ==
  ASSUME ClientTypes, Fresh, NEW views, Hear(views)
  PROVE  Fresh'
<1> DEFINE newly == views \cap Loaded \cap Mounted(stack)
<1>1. /\ UNCHANGED <<who, stack, jobs>> /\ who # Nobody
      /\ clock' = clock + 1 /\ clock \in Nat
      /\ cache' = Aged(views)
      /\ fetch' = Asked(fetch, views \cap Mounted(stack))
      /\ told' = Tell(views, clock', stack)
  BY DEF Hear, Renewed, ClientTypes
<1>2. ShowsOfBefore /\ GotOfBefore
  BY <1>1, AgedShows, AskedGot
<1>3. \A v \in newly :
        /\ v \in DOMAIN cache' => cache'[v].how = "press" \/ cache'[v].old
        /\ v \in DOMAIN fetch' => fetch'[v].got = None
  <2>1. \A v \in newly : cache'[v].old
    BY <1>1, AgedIs
  <2>2. \A v \in newly : fetch'[v] = [by |-> who, got |-> None]
    BY <1>1, AskedIs DEF ClientTypes
  <2>3. QED  BY <2>1, <2>2
<1>4. \A v \in DOMAIN told' : \/ v \in newly /\ told'[v] = clock'
                              \/ v \in DOMAIN told /\ told'[v] = told[v]
  BY <1>1, TellIs
<1> HIDE DEF newly
<1>5. clock' \in Nat /\ clock' >= clock /\ clock' <= clock'
  BY <1>1
<1>6. UpToDate'
  <2>1. \A v \in DOMAIN told' :
          \/ v \in DOMAIN told /\ told'[v] = told[v]
          \/ /\ told'[v] = clock'
             /\ v \in DOMAIN cache' => cache'[v].how = "press" \/ cache'[v].old
             /\ v \in DOMAIN fetch' => fetch'[v].got = None
    BY <1>3, <1>4
  <2>2. UpToDate
    BY DEF Fresh
  <2>3. QED  BY <1>2, <1>5, <2>1, <2>2, TellFrame
<1>7. Ticked'
  <2> SUFFICES ASSUME NEW j \in jobs, j.tick # None
               PROVE  j.tick[1] <= clock'
    BY <1>1 DEF Ticked
  <2>1. j.tick[1] <= clock
    BY DEF Fresh, Ticked
  <2>2. j.tick[1] \in Nat
    BY DEF ClientTypes, JobOK, Job, Ticks
  <2>3. QED  BY <1>1, <2>1, <2>2
<1>8. SignedOut'
  BY <1>1 DEF SignedOut
<1>9. QED  BY <1>6, <1>7, <1>8 DEF Fresh

LEMMA FreshCalls ==
  ASSUME ClientTypes, Fresh,
         \/ \E p, u : Press(p, u)
         \/ \E job \in jobs : Serve(job) \/ LookUp(job) \/ Repeat(job) \/ AskToLeave(job)
         \/ \E req \in atApi : Commit(req)
  PROVE  Fresh'
<1>1. UNCHANGED <<who, stack, cache, fetch, told>>
  BY DEF Press, Serve, LookUp, Repeat, AskToLeave, Commit
<1>2. clock' \in Nat /\ clock' >= clock
  <2>1. clock' = clock \/ clock' = clock + 1
    BY ServeIs, CommitIs DEF Press, Repeat, AskToLeave
  <2>2. QED  BY <2>1 DEF ClientTypes
<1>3. ToldOfBefore /\ ShowsOfBefore /\ GotOfBefore
  BY <1>1, AgedShows DEF ToldOfBefore, GotOfBefore
<1>4. UpToDate'
  BY <1>2, <1>3, FreshFrame DEF Fresh
<1>5. \A j \in jobs' : j \in jobs \/ j.tick = None \/ j.tick = <<clock'>>
  <2>1. ASSUME NEW p, NEW u, Press(p, u)
        PROVE  \A j \in jobs' : j \in jobs \/ j.tick = None
    <3> DEFINE new == [id |-> budget.presses, press |-> p, at |-> Top, by |-> u,
                       left |-> IF p.retried THEN Retries ELSE 0, out |-> FALSE, tick |-> None]
    <3>1. jobs' = jobs \cup {new}
      BY <2>1 DEF Press
    <3>2. new.tick = None
      OBVIOUS
    <3> HIDE DEF new
    <3>3. QED  BY <3>1, <3>2
  <2>2. ASSUME NEW job \in jobs, Serve(job) \/ LookUp(job)
        PROVE  \A j \in jobs' : j \in jobs \/ j.tick = None \/ j.tick = <<clock'>>
    BY <2>2, ServeIs
  <2>a. ASSUME NEW req, Commit(req)
        PROVE  \A j \in jobs' : j \in jobs \/ j.tick = <<clock'>>
    BY <2>a, CommitIs
  <2>3. ASSUME NEW job \in jobs, Repeat(job)
        PROVE  \A j \in jobs' : j \in jobs \/ j.tick = None
    BY <2>3, RepeatIs
  <2>4. ASSUME NEW job \in jobs, AskToLeave(job)
        PROVE  \A j \in jobs' : j \in jobs
    BY <2>4 DEF AskToLeave
  <2>5. QED  BY <2>1, <2>2, <2>3, <2>4, <2>a
<1>6. Ticked'
  <2> SUFFICES ASSUME NEW j \in jobs', j.tick # None
               PROVE  j.tick[1] <= clock'
    BY DEF Ticked
  <2>1. CASE j \in jobs
    <3>1. j.tick[1] <= clock
      BY <2>1 DEF Fresh, Ticked
    <3>2. j.tick[1] \in Nat
      BY <2>1 DEF ClientTypes, JobOK, Job, Ticks
    <3>3. clock \in Nat
      BY DEF ClientTypes
    <3>4. QED  BY <1>2, <3>1, <3>2, <3>3
  <2>2. CASE j.tick = <<clock'>>
    BY <1>2, <2>2
  <2>3. QED  BY <1>5, <2>1, <2>2
<1>7. SignedOut'
  BY <1>1 DEF Fresh, SignedOut
<1>8. QED  BY <1>4, <1>6, <1>7 DEF Fresh

LEMMA FreshGiveUp ==
  ASSUME ClientTypes, Fresh, NEW job, GiveUp(job)
  PROVE  Fresh'
<1>1. /\ UNCHANGED <<who, stack, clock, told>> /\ clock \in Nat
      /\ \E views : cache' = Aged(views)
      /\ \E views : fetch' = Asked(fetch, views)
      /\ jobs' \subseteq jobs
  BY DEF GiveUp, Renewed, ClientTypes
<1>2. ToldOfBefore
  BY <1>1 DEF ToldOfBefore
<1>3. UpToDate'
  BY <1>1, <1>2, AgedShows, AskedGot, FreshFrame DEF Fresh
<1>4. Ticked' /\ SignedOut'
  BY <1>1 DEF Fresh, Ticked, SignedOut
<1>5. QED  BY <1>3, <1>4 DEF Fresh

\* What a call owes, it marks old; and nobody who is signed out looks at it.
LEMMA OwedIs ==
  ASSUME ClientTypes, SignedOut, NEW job \in jobs
  PROVE  /\ OwedBy(job) \subseteq job.press.old
         /\ who = Nobody => OwedBy(job) \cap Mounted(stack) = {}
<1>1. job.at.screen \in DOMAIN Screen /\ job.press \in Screen[job.at.screen].presses
  BY DEF ClientTypes, JobOK, Job, Opening
<1>2. OwedBy(job) \subseteq job.press.old
  <2>1. \A o \in Owed : o[1] = job.at.screen /\ o[2] = job.press.call
                         => o[3] \in job.press.old
    BY <1>1, ClientAssumption DEF ScreensAssumption
  <2>2. \A v \in OwedBy(job) :
          \E o \in Owed : /\ o[1] = job.at.screen /\ o[2] = job.press.call
                          /\ v = o[3]
    BY DEF OwedBy
  <2>3. QED  BY <2>1, <2>2
<1>3. ASSUME who = Nobody, NEW v \in OwedBy(job), v \in Mounted(stack)
      PROVE  FALSE
  <2>1. PICK o \in Owed : v = o[3]
    BY DEF OwedBy
  <2>2. PICK n \in 1 .. Len(stack) : v \in Screen[stack[n].screen].reads
    BY <1>3 DEF Mounted
  <2>3. stack[n].screen \in SignedOutScreens
    BY <1>3 DEF SignedOut
  <2>4. QED  BY <2>1, <2>2, <2>3, ClientAssumption DEF ScreensAssumption
<1>4. QED  BY <1>2, <1>3

LEMMA FreshSucceed ==
  ASSUME ClientTypes, Fresh, NEW job, NEW to, NEW aged, Succeed(job, to, aged)
  PROVE  Fresh'
<1> DEFINE aging == Aged(job.press.old)
           renewed == Renewed(job.press.old)
           newly == OwedBy(job) \cap Loaded \cap Mounted(stack)
<1>1. /\ job \in jobs /\ job.tick # None /\ jobs' = jobs \ {job}
      /\ to \in job.press.to \ {"enter", "out"}
      /\ UNCHANGED <<who, clock>> /\ clock \in Nat
      /\ stack' = Then(job, to)
      /\ told' = Tell(OwedBy(job), job.tick[1], Then(job, to))
  BY SucceedIs DEF ClientTypes
<1>2. job.tick[1] \in Nat /\ job.tick[1] <= clock'
  BY <1>1 DEF ClientTypes, JobOK, Job, Ticks, Fresh, Ticked
<1>3. \A v \in DOMAIN told' : \/ v \in newly /\ told'[v] = job.tick[1]
                              \/ v \in DOMAIN told /\ told'[v] = told[v]
  BY <1>1, TellIs
<1>4. /\ DOMAIN aging = Loaded /\ Entries(aging)
      /\ \A v \in Loaded : /\ aging[v].how = cache[v].how
                           /\ aging[v].seen = cache[v].seen
                           /\ aging[v].old = (cache[v].old \/ v \in job.press.old)
  BY AgedIs
<1>5. /\ Readings(renewed)
      /\ \A v \in DOMAIN renewed :
           \/ v \in DOMAIN fetch /\ renewed[v] = fetch[v]
           \/ renewed[v] = [by |-> who, got |-> None]
      /\ \A v \in job.press.old \cap Mounted(stack) :
           who # Nobody /\ v \in Loaded =>
             v \in DOMAIN renewed /\ renewed[v] = [by |-> who, got |-> None]
  BY AskedIs DEF Renewed, ClientTypes
<1>6. cache' = Written(aging, job.press, job)
  BY SucceedIs
<1>7. \/ fetch' = renewed
      \/ \E views : /\ fetch' = Asked(renewed, views)
                    /\ views \cap DOMAIN renewed = {}
  BY SucceedIs
<1> HIDE DEF aging, renewed
<1>8. \A v \in DOMAIN cache' :
        \/ cache'[v].how = "press"
        \/ v \in DOMAIN aging /\ cache'[v] = aging[v]
  BY <1>1, <1>4, <1>6, WrittenIs
<1>9. \A v \in DOMAIN fetch' :
        \/ v \in DOMAIN renewed /\ fetch'[v] = renewed[v]
        \/ v \notin DOMAIN renewed /\ fetch'[v] = [by |-> who, got |-> None]
  <2>1. CASE fetch' = renewed
    BY <2>1
  <2>2. ASSUME NEW views, fetch' = Asked(renewed, views),
               views \cap DOMAIN renewed = {}
        PROVE  \A v \in DOMAIN fetch' :
                 \/ v \in DOMAIN renewed /\ fetch'[v] = renewed[v]
                 \/ /\ v \notin DOMAIN renewed
                    /\ fetch'[v] = [by |-> who, got |-> None]
    <3>1. \A v \in DOMAIN fetch' :
            \/ v \in DOMAIN renewed /\ fetch'[v] = renewed[v]
            \/ fetch'[v] = [by |-> who, got |-> None]
      BY <1>5, <2>2, AskedIs
    <3>2. \A v \in DOMAIN renewed \ views : fetch'[v] = renewed[v]
      BY <1>5, <2>2, AskedIs
    <3>3. QED  BY <2>2, <3>1, <3>2
  <2>3. QED  BY <1>7, <2>1, <2>2
<1>10. ShowsOfBefore
  BY <1>4, <1>8 DEF ShowsOfBefore, EntryKept, Loaded
<1>11. GotOfBefore
  BY <1>5, <1>9 DEF GotOfBefore
<1>12. \A v \in newly :
         /\ v \in DOMAIN cache' => cache'[v].how = "press" \/ cache'[v].old
         /\ v \in DOMAIN fetch' => fetch'[v].got = None
  <2>1. CASE who = Nobody
    <3>1. newly = {}
      BY <1>1, <2>1, OwedIs DEF Fresh
    <3>2. QED  BY <3>1
  <2>2. CASE who # Nobody
    <3>1. newly \subseteq job.press.old
      BY <1>1, OwedIs DEF Fresh
    <3>2. ASSUME NEW v \in newly
          PROVE  /\ v \in DOMAIN cache' =>
                     cache'[v].how = "press" \/ cache'[v].old
                 /\ v \in DOMAIN fetch' => fetch'[v].got = None
      <4>1. aging[v].old
        BY <1>4, <3>1
      <4>2. v \in DOMAIN renewed /\ renewed[v].got = None
        BY <1>5, <2>2, <3>1
      <4>3. QED  BY <1>8, <1>9, <4>1, <4>2
    <3>3. QED  BY <3>2
  <2>3. QED  BY <2>1, <2>2
<1> HIDE DEF newly
<1>13. UpToDate'
  <2>1. clock' \in Nat /\ clock' >= clock
    BY <1>1
  <2>2. \A v \in DOMAIN told' :
          \/ v \in DOMAIN told /\ told'[v] = told[v]
          \/ /\ told'[v] = job.tick[1]
             /\ v \in DOMAIN cache' => cache'[v].how = "press" \/ cache'[v].old
             /\ v \in DOMAIN fetch' => fetch'[v].got = None
    BY <1>3, <1>12
  <2>3. UpToDate
    BY DEF Fresh
  <2>4. QED  BY <1>2, <1>10, <1>11, <2>1, <2>2, <2>3, TellFrame
<1>14. Ticked'
  BY <1>1 DEF Fresh, Ticked
<1>15. SignedOut'
  <2> SUFFICES ASSUME who = Nobody, NEW n \in 1 .. Len(stack')
               PROVE  stack'[n].screen \in SignedOutScreens
    BY <1>1 DEF SignedOut
  <2>1. CASE Moves(to) /\ stack'[n] = Visit(to)
    BY <2>1 DEF Moves, Visit
  <2>2. CASE n \in 1 .. Len(stack) /\ stack'[n] = stack[n]
    BY <2>2 DEF Fresh, SignedOut
  <2>3. QED  BY <1>1, <2>1, <2>2, ThenIs
<1>16. QED  BY <1>13, <1>14, <1>15 DEF Fresh

LEMMA FreshSessions ==
  ASSUME ClientTypes, Fresh,
         \/ \E job, s : Enter(job, s)
         \/ SignOut \/ EndSession \/ Persist \/ Restart
  PROVE  Fresh'
<1>1. ASSUME told' = None
      PROVE  UpToDate'
  BY <1>1, NoneIs DEF UpToDate
<1>2. CASE \E job, s : Enter(job, s)
  <2>1. PICK job, s : Enter(job, s)
    BY <1>2
  <2>2. who' # Nobody
    BY <2>1, ClientAssumption DEF Enter, ClientTypes, JobOK, Job
  <2>3. Ticked'
    BY <2>1 DEF Enter, Fresh, Ticked
  <2>4. QED  BY <1>1, <2>1, <2>2, <2>3 DEF Enter, Fresh, SignedOut
<1>3. CASE SignOut \/ EndSession
  <2>1. /\ told' = None /\ stack' = Alone("welcome")
        /\ UNCHANGED <<jobs, clock>>
    BY <1>3 DEF SignOut, EndSession
  <2>2. SignedOut'
    BY <2>1, AloneIs, VisitIs, Gates DEF SignedOut, SignedOutScreens
  <2>3. QED  BY <1>1, <2>1, <2>2 DEF Fresh, Ticked
<1>4. CASE Persist
  BY <1>4 DEF Persist, Fresh, SignedOut, Ticked, UpToDate, ShownSince, ReadSince
<1>5. CASE Restart
  <2>1. /\ told' = None /\ jobs' = {} /\ who' = who
        /\ who = Nobody => stack' = Alone("welcome")
    BY <1>5 DEF Restart
  <2>2. SignedOut'
    BY <2>1, AloneIs, VisitIs, Gates DEF SignedOut, SignedOutScreens
  <2>3. QED  BY <1>1, <2>1, <2>2 DEF Fresh, Ticked
<1>6. QED  BY <1>2, <1>3, <1>4, <1>5

LEMMA FreshInit == ClientInit => Fresh
BY NoneIs, ClientAssumption
   DEF ClientInit, Fresh, SignedOut, Ticked, UpToDate

LEMMA FreshStep ==
  ASSUME ClientTypes, Fresh, [ClientNext]_clientVars
  PROVE  Fresh'
<1>1. ASSUME NEW s \in Screen[Top.screen].opens, NEW aged, Follow(s, aged)
      PROVE  Fresh'
  <2>1. s \in DOMAIN Screen
    BY TopIs, ClientAssumption DEF ScreensAssumption
  <2>2. QED  BY <1>1, <2>1, FreshOpen DEF Follow
<1>2. ASSUME NEW s \in Links, NEW aged, TapPush(s, aged)
      PROVE  Fresh'
  BY <1>2, FreshOpen, Gates DEF TapPush
<1>3. CASE GoBack
  BY <1>3, FreshBack
<1>4. ASSUME NEW v \in DOMAIN fetch, Answer(v) \/ Arrive(v) \/ Fail(v)
      PROVE  Fresh'
  BY <1>4, FreshReads
<1>5. ASSUME NEW views, Hear(views)
      PROVE  Fresh'
  BY <1>5, FreshHear
<1>6. CASE \/ \E p, u : Press(p, u)
           \/ \E job \in jobs : Serve(job) \/ LookUp(job) \/ Repeat(job) \/ AskToLeave(job)
           \/ \E req \in atApi : Commit(req)
  BY <1>6, FreshCalls
<1>7. ASSUME NEW j, GiveUp(j)
      PROVE  Fresh'
  BY <1>7, FreshGiveUp
<1>8. ASSUME NEW j, NEW to, NEW aged, Succeed(j, to, aged)
      PROVE  Fresh'
  BY <1>8, FreshSucceed
<1>9. CASE \/ \E job, s : Enter(job, s)
           \/ SignOut \/ EndSession \/ Persist \/ Restart
  BY <1>9, FreshSessions
<1>10. CASE UNCHANGED clientVars
  BY <1>10 DEF clientVars, Fresh, SignedOut, Ticked, UpToDate, ShownSince,
     ReadSince
<1>11. QED
  BY <1>1, <1>2, <1>3, <1>4, <1>5, <1>6, <1>7, <1>8, <1>9, <1>10
     DEF ClientNext

\* An open page that is not marked old is as new as every change the app learnt
\* of, whatever reads were on their way when it did.
THEOREM NotBehindHolds == ClientSpec => []NotBehind
<1>1. Fresh => NotBehind
  BY DEF Fresh, UpToDate, ShownSince, NotBehind, Loaded
<1>2. QED  BY <1>1, ClientTypesHold, FreshInit, FreshStep, PTL DEF ClientSpec
=============================================================================
