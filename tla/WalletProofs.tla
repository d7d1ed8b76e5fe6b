---------------------------- MODULE WalletProofs ----------------------------
(***************************************************************************)
(* Proofs about Wallet, for any movements, amounts, requests and faults.   *)
(***************************************************************************)
EXTENDS Wallet, TLAPS

\* The action of a committed posting, by the request that holds the lock.
Commits(h) ==
  /\ proc[h].pc = "post"
  /\ Covers(h) /\ ~Duplicate(KeyOf(h))
  /\ balance' = proc[h].seen + Delta(KeyOf(h))
  /\ ledger' = Append(ledger, [key |-> KeyOf(h), delta |-> Delta(KeyOf(h)),
                               after |-> proc[h].seen + Delta(KeyOf(h))])
  /\ status' = StatusAfter(h)

LEMMA DeltaType ==
  ASSUME NEW key \in Key
  PROVE  Delta(key) \in Int /\ key[2] \in Movement
<1>1. key[2] \in Movement
  BY DEF Key, Movement
<1>2. QED  BY <1>1, WalletAssumption DEF Delta

LEMMA PostStep ==
  ASSUME TypeOK, NEW h \in Handler, PostEntry(h)
  PROVE  \/ Commits(h)
         \/ UNCHANGED <<balance, ledger, status>> /\ proc' = [proc EXCEPT ![h] = Idle]
BY DEF PostEntry, Commits, Return

\* A commit appends one well-typed row.
LEMMA CommitAppends ==
  ASSUME TypeOK, NEW h \in Handler, Commits(h)
  PROVE  /\ KeyOf(h) \in Key
         /\ balance' \in Nat
         /\ ledger' \in Seq(Row)
         /\ Len(ledger) \in Nat
         /\ Len(ledger') = Len(ledger) + 1
         /\ DOMAIN ledger = 1 .. Len(ledger)
         /\ DOMAIN ledger' = 1 .. (Len(ledger) + 1)
         /\ \A i \in DOMAIN ledger : ledger'[i] = ledger[i]
         /\ ledger'[Len(ledger')] = [key |-> KeyOf(h),
                                     delta |-> Delta(KeyOf(h)),
                                     after |-> balance']
<1> DEFINE r == [key |-> KeyOf(h), delta |-> Delta(KeyOf(h)),
                 after |-> proc[h].seen + Delta(KeyOf(h))]
<1>1. KeyOf(h) \in Key /\ proc[h].seen \in Nat
  BY DEF Commits, TypeOK, KeyOf, Local
<1>2. Delta(KeyOf(h)) \in Int
  BY <1>1, DeltaType
<1>3. proc[h].seen + Delta(KeyOf(h)) \in Nat
  BY <1>1, <1>2 DEF Commits, Covers
<1>4. r \in Row
  BY <1>1, <1>2, <1>3 DEF Row
<1>5. ledger \in Seq(Row) /\ ledger' = Append(ledger, r)
  BY DEF Commits, TypeOK
<1>6. balance' = proc[h].seen + Delta(KeyOf(h))
  BY DEF Commits
<1> HIDE DEF r
<1>7. /\ ledger' \in Seq(Row)
      /\ Len(ledger) \in Nat
      /\ Len(ledger') = Len(ledger) + 1
      /\ DOMAIN ledger = 1 .. Len(ledger)
      /\ DOMAIN ledger' = 1 .. (Len(ledger) + 1)
      /\ \A i \in DOMAIN ledger : ledger'[i] = ledger[i]
      /\ ledger'[Len(ledger')] = r
  BY <1>4, <1>5
<1>8. QED  BY <1>1, <1>3, <1>6, <1>7 DEF r

\* Which keys are posted after a commit.
LEMMA PostedAfter ==
  ASSUME TypeOK, NEW h \in Handler, Commits(h), NEW key
  PROVE  Posted(key)' <=> (Posted(key) \/ key = KeyOf(h))
<1>1. /\ Len(ledger) \in Nat
      /\ Len(ledger') = Len(ledger) + 1
      /\ DOMAIN ledger = 1 .. Len(ledger)
      /\ DOMAIN ledger' = 1 .. (Len(ledger) + 1)
      /\ \A i \in DOMAIN ledger : ledger'[i] = ledger[i]
      /\ ledger'[Len(ledger')] = [key |-> KeyOf(h), delta |-> Delta(KeyOf(h)),
                                  after |-> balance']
  BY CommitAppends
<1>2. ledger'[Len(ledger')].key = KeyOf(h)
  BY <1>1
<1>3. DOMAIN ledger' = (DOMAIN ledger) \union {Len(ledger')}
  BY <1>1
<1>4. QED  BY <1>1, <1>2, <1>3 DEF Posted

-----------------------------------------------------------------------------
LEMMA WalletTypeInit == Init => TypeOK
BY WalletAssumption DEF Init, TypeOK, Idle, Local, Pc, Op, Status, Row, Movement

LEMMA BeginType ==
  ASSUME TypeOK, NEW h \in Handler, NEW pc \in Pc, NEW op \in Op, NEW on,
         <<op, on>> \in Key, Begin(h, pc, op, on)
  PROVE  /\ proc' \in [Handler -> Local]
         /\ \A g \in Handler :
              proc'[g].pc # "idle" => <<proc'[g].op, proc'[g].on>> \in Key
<1>1. on \in Movement
  BY DEF Key, Movement
<1>2. [pc |-> pc, op |-> op, on |-> on, seen |-> 0] \in Local
  BY <1>1 DEF Local
<1>3. QED  BY <1>2 DEF Begin, TypeOK

\* Changing the program counter, the operation between withdraw and return,
\* or the balance seen, keeps a request well-typed.
LEMMA StepType ==
  ASSUME TypeOK, NEW h \in Handler, NEW l \in Local,
         proc' = [proc EXCEPT ![h] = l],
         l.pc # "idle" => <<l.op, l.on>> \in Key
  PROVE  /\ proc' \in [Handler -> Local]
         /\ \A g \in Handler :
              proc'[g].pc # "idle" => <<proc'[g].op, proc'[g].on>> \in Key
BY DEF TypeOK

LEMMA GotoType ==
  ASSUME TypeOK, NEW h \in Handler, NEW pc \in Pc, Goto(h, pc),
         proc[h].pc # "idle"
  PROVE  /\ proc' \in [Handler -> Local]
         /\ \A g \in Handler :
              proc'[g].pc # "idle" => <<proc'[g].op, proc'[g].on>> \in Key
<1>1. proc[h] \in Local
  BY DEF TypeOK
<1>2. [proc[h] EXCEPT !.pc = pc] \in Local
  BY <1>1 DEF Local
<1>3. /\ [proc[h] EXCEPT !.pc = pc].op = proc[h].op
      /\ [proc[h] EXCEPT !.pc = pc].on = proc[h].on
  BY <1>1 DEF Local
<1>4. proc' = [proc EXCEPT ![h] = [proc[h] EXCEPT !.pc = pc]]
  BY DEF Goto, TypeOK
<1>5. <<proc[h].op, proc[h].on>> \in Key
  BY DEF TypeOK
<1>6. QED  BY <1>2, <1>3, <1>4, <1>5, StepType

LEMMA ReturnType ==
  ASSUME TypeOK, NEW h \in Handler, Return(h)
  PROVE  /\ proc' \in [Handler -> Local]
         /\ \A g \in Handler :
              proc'[g].pc # "idle" => <<proc'[g].op, proc'[g].on>> \in Key
<1>1. Idle \in Local /\ Idle.pc = "idle"
  BY WalletAssumption DEF Idle, Local, Pc, Op
<1>2. QED  BY <1>1, StepType DEF Return

\* The whole next-state relation, one action of one request at a time.
LEMMA NextCases ==
  ASSUME Next
  PROVE  \E h \in Handler :
           \/ \E t \in TopUp : StartTopUp(h, t)
           \/ \E g \in Spend : StartSpend(h, g)
           \/ \E g \in Gift : StartGift(h, g)
           \/ \E p \in Payout :
                RequestPayout(h, p) \/ FailPayout(h, p) \/ CompletePayout(h, p)
           \/ LookUpKey(h) \/ LockWallet(h) \/ PostEntry(h) \/ LoadPayout(h)
           \/ SendPayout(h) \/ RecordSent(h) \/ ReadForFail(h) \/ Confirm(h)
           \/ RecordThrows(h) \/ Crash(h)
BY DEF Next, Start, Continue

LEMMA WalletTypeNext == TypeOK /\ WorksOnPayout /\ [Next]_vars => TypeOK'
<1> SUFFICES ASSUME TypeOK, WorksOnPayout, [Next]_vars PROVE TypeOK'
  OBVIOUS
<1> DEFINE ProcOK == /\ proc' \in [Handler -> Local]
                     /\ \A g \in Handler : proc'[g].pc # "idle" =>
                                           <<proc'[g].op, proc'[g].on>> \in Key
<1>1. CASE UNCHANGED vars
  BY <1>1 DEF vars, TypeOK
<1>2. CASE Next
  <2>1. PICK h \in Handler :
           \/ \E t \in TopUp : StartTopUp(h, t)
           \/ \E g \in Spend : StartSpend(h, g)
           \/ \E g \in Gift : StartGift(h, g)
           \/ \E p \in Payout :
                RequestPayout(h, p) \/ FailPayout(h, p) \/ CompletePayout(h, p)
           \/ LookUpKey(h) \/ LockWallet(h) \/ PostEntry(h) \/ LoadPayout(h)
           \/ SendPayout(h) \/ RecordSent(h) \/ ReadForFail(h) \/ Confirm(h)
           \/ RecordThrows(h) \/ Crash(h)
    BY <1>2, NextCases
  <2> /\ "lookup" \in Pc /\ "lock" \in Pc /\ "post" \in Pc /\ "load" \in Pc
      /\ "send" \in Pc /\ "settled" \in Pc /\ "queued" \in Pc /\ "fail" \in Pc
      /\ "confirm" \in Pc
      /\ "withdraw" \in Op /\ "topup" \in Op /\ "spend" \in Op /\ "gift" \in Op
      /\ "return" \in Op
    BY DEF Pc, Op
  <2>2. ASSUME NEW t \in TopUp, StartTopUp(h, t) PROVE TypeOK'
    <3>1. <<"topup", t>> \in Key
      BY DEF Key
    <3>2. ProcOK
      BY <2>2, <3>1, BeginType DEF StartTopUp
    <3>3. QED  BY <2>2, <3>2 DEF StartTopUp, TypeOK
  <2>3. ASSUME NEW s \in Spend, StartSpend(h, s) PROVE TypeOK'
    <3>1. <<"spend", s>> \in Key
      BY DEF Key
    <3>2. ProcOK
      BY <2>3, <3>1, BeginType DEF StartSpend
    <3>3. QED  BY <2>3, <3>2 DEF StartSpend, TypeOK
  <2>4. ASSUME NEW g \in Gift, StartGift(h, g) PROVE TypeOK'
    <3>1. <<"gift", g>> \in Key
      BY DEF Key
    <3>2. ProcOK
      BY <2>4, <3>1, BeginType DEF StartGift
    <3>3. QED  BY <2>4, <3>2 DEF StartGift, TypeOK
  <2>5. ASSUME NEW p \in Payout,
               RequestPayout(h, p) \/ FailPayout(h, p) \/ CompletePayout(h, p)
        PROVE  TypeOK'
    <3>1. <<"withdraw", p>> \in Key
      BY DEF Key
    <3>2. ProcOK
      BY <2>5, <3>1, BeginType DEF RequestPayout, FailPayout, CompletePayout
    <3>3. UNCHANGED <<balance, ledger, status, lock, faults>>
      BY <2>5 DEF RequestPayout, FailPayout, CompletePayout
    <3>4. sent' \subseteq Payout
      BY <2>5 DEF RequestPayout, FailPayout, CompletePayout, TypeOK
    <3>5. QED  BY <3>2, <3>3, <3>4 DEF TypeOK
  <2>6. CASE LookUpKey(h)
    <3>1. proc[h].pc # "idle"
      BY <2>6 DEF LookUpKey
    <3>2. ProcOK
      BY <2>6, <3>1, GotoType, ReturnType DEF LookUpKey
    <3>3. QED  BY <2>6, <3>2 DEF LookUpKey, TypeOK
  <2>7. CASE LockWallet(h)
    <3>1. /\ proc[h] \in Local /\ balance \in Nat
          /\ <<proc[h].op, proc[h].on>> \in Key
      BY <2>7 DEF LockWallet, TypeOK
    <3> DEFINE l == [proc[h] EXCEPT !.pc = "post", !.seen = balance]
    <3>2. l \in Local /\ l.op = proc[h].op /\ l.on = proc[h].on
      BY <3>1 DEF Local
    <3>3. proc' = [proc EXCEPT ![h] = l]
      BY <2>7 DEF LockWallet, TypeOK
    <3> HIDE DEF l
    <3>4. ProcOK
      BY <3>1, <3>2, <3>3, StepType
    <3>5. QED  BY <2>7, <3>4 DEF LockWallet, TypeOK
  <2>8. CASE PostEntry(h)
    <3>1. proc[h].pc # "idle"
      BY <2>8 DEF PostEntry
    <3>2. ProcOK
      BY <2>8, <3>1, GotoType, ReturnType DEF PostEntry
    <3>3. balance' \in Nat /\ ledger' \in Seq(Row) /\ status' \in [Payout -> Status]
      <4>1. CASE Commits(h)
        <5>1. status' \in [Payout -> Status]
          BY <4>1 DEF Commits, StatusAfter, TypeOK, Status
        <5>2. QED  BY <4>1, <5>1, CommitAppends
      <4>2. CASE UNCHANGED <<balance, ledger, status>>
        BY <4>2 DEF TypeOK
      <4>3. QED  BY <2>8, <4>1, <4>2, PostStep
    <3>4. QED  BY <2>8, <3>2, <3>3 DEF PostEntry, TypeOK
  <2>9. CASE LoadPayout(h)
    <3>1. proc[h].pc # "idle"
      BY <2>9 DEF LoadPayout
    <3>2. ProcOK
      BY <2>9, <3>1, GotoType, ReturnType DEF LoadPayout
    <3>3. QED  BY <2>9, <3>2 DEF LoadPayout, TypeOK
  <2>10. CASE SendPayout(h)
    <3>1. proc[h].pc # "idle"
      BY <2>10 DEF SendPayout
    <3>2. ProcOK
      BY <2>10, <3>1, GotoType DEF SendPayout
    <3>3. proc[h].on \in Payout
      BY <2>10 DEF SendPayout, WorksOnPayout, PastDebit
    <3>4. QED  BY <2>10, <3>2, <3>3 DEF SendPayout, TypeOK
  <2>11. CASE RecordSent(h) \/ Confirm(h)
    <3>1. ProcOK
      BY <2>11, ReturnType DEF RecordSent, Confirm
    <3>2. proc[h].on \in Payout
      BY <2>11 DEF RecordSent, Confirm, WorksOnPayout, PastDebit
    <3>3. status' \in [Payout -> Status]
      BY <2>11 DEF RecordSent, Confirm, TypeOK, Status
    <3>4. QED  BY <2>11, <3>1, <3>2, <3>3 DEF RecordSent, Confirm, TypeOK
  <2>12. CASE ReadForFail(h)
    <3>1. CASE Return(h)
      BY <2>12, <3>1, ReturnType DEF ReadForFail, TypeOK
    <3>2. CASE proc' = [proc EXCEPT ![h].pc = "lock", ![h].op = "return"]
      <4>1. proc[h] \in Local /\ proc[h].on \in Payout
        BY <2>12 DEF ReadForFail, TypeOK, WorksOnPayout, PastDebit
      <4> DEFINE l == [proc[h] EXCEPT !.pc = "lock", !.op = "return"]
      <4>2. l \in Local /\ l.op = "return" /\ l.on = proc[h].on
        BY <4>1 DEF Local
      <4>3. <<"return", proc[h].on>> \in Key
        BY <4>1 DEF Key
      <4>4. proc' = [proc EXCEPT ![h] = l]
        BY <3>2 DEF TypeOK
      <4> HIDE DEF l
      <4>5. ProcOK
        BY <4>2, <4>3, <4>4, StepType
      <4>6. QED  BY <2>12, <4>5 DEF ReadForFail, TypeOK
    <3>3. QED  BY <2>12, <3>1, <3>2 DEF ReadForFail
  <2>13. CASE RecordThrows(h)
    <3>1. proc[h].pc # "idle"
      BY <2>13 DEF RecordThrows
    <3>2. ProcOK
      BY <2>13, <3>1, GotoType DEF RecordThrows
    <3>3. faults' \in 0 .. MaxFaults
      BY <2>13, WalletAssumption DEF RecordThrows, Fault, TypeOK
    <3>4. QED  BY <2>13, <3>2, <3>3 DEF RecordThrows, TypeOK
  <2>14. CASE Crash(h)
    <3>1. ProcOK
      BY <2>14, ReturnType DEF Crash
    <3>2. faults' \in 0 .. MaxFaults
      BY <2>14, WalletAssumption DEF Crash, Fault, TypeOK
    <3>3. lock' \in Handler \union {Nobody}
      BY <2>14 DEF Crash, TypeOK
    <3>4. QED  BY <2>14, <3>1, <3>2, <3>3 DEF Crash, TypeOK
  <2>15. QED
    BY <2>1, <2>2, <2>3, <2>4, <2>5, <2>6, <2>7, <2>8, <2>9, <2>10, <2>11,
       <2>12, <2>13, <2>14
<1>3. QED  BY <1>1, <1>2

-----------------------------------------------------------------------------
\* How one request's locals can change, and what the others keep.
LEMMA OthersKeep ==
  ASSUME TypeOK, NEW h \in Handler, NEW g \in Handler, g # h,
         \/ \E l : proc' = [proc EXCEPT ![h] = l]
         \/ Return(h)
         \/ \E pc : Goto(h, pc)
         \/ \E pc, op, on : Begin(h, pc, op, on)
  PROVE  proc'[g] = proc[g]
BY DEF TypeOK, Return, Goto, Begin

LEMMA OwnReturn ==
  ASSUME TypeOK, NEW h \in Handler, Return(h)
  PROVE  proc'[h] = Idle
BY DEF TypeOK, Return

LEMMA OwnGoto ==
  ASSUME TypeOK, NEW h \in Handler, NEW pc, Goto(h, pc)
  PROVE  proc'[h].pc = pc /\ proc'[h].op = proc[h].op /\ proc'[h].on = proc[h].on
BY DEF TypeOK, Goto, Local

LEMMA OwnBegin ==
  ASSUME TypeOK, NEW h \in Handler, NEW pc, NEW op, NEW on, Begin(h, pc, op, on)
  PROVE  proc'[h].pc = pc /\ proc'[h].op = op /\ proc'[h].on = on
BY DEF TypeOK, Begin

\* Outside LockWallet no request starts to post.
LEMMA PostersNext ==
  TypeOK /\ PosterHoldsLock /\ [Next]_vars => PosterHoldsLock'
<1> SUFFICES ASSUME TypeOK, PosterHoldsLock, [Next]_vars PROVE PosterHoldsLock'
  OBVIOUS
<1>1. CASE UNCHANGED vars
  BY <1>1 DEF vars, PosterHoldsLock
<1>2. CASE Next
  <2>1. PICK h \in Handler :
           \/ \E t \in TopUp : StartTopUp(h, t)
           \/ \E g \in Spend : StartSpend(h, g)
           \/ \E g \in Gift : StartGift(h, g)
           \/ \E p \in Payout :
                RequestPayout(h, p) \/ FailPayout(h, p) \/ CompletePayout(h, p)
           \/ LookUpKey(h) \/ LockWallet(h) \/ PostEntry(h) \/ LoadPayout(h)
           \/ SendPayout(h) \/ RecordSent(h) \/ ReadForFail(h) \/ Confirm(h)
           \/ RecordThrows(h) \/ Crash(h)
    BY <1>2, NextCases
  <2>2. ASSUME NEW pc, NEW op, NEW on, Begin(h, pc, op, on), pc # "post",
               UNCHANGED <<balance, lock>>
        PROVE  PosterHoldsLock'
    <3>1. proc'[h].pc # "post"
      BY <2>2, OwnBegin
    <3>2. \A g \in Handler : g # h => proc'[g] = proc[g]
      BY <2>2, OthersKeep
    <3>3. QED  BY <2>2, <3>1, <3>2 DEF PosterHoldsLock
  <2>3. ASSUME NEW pc, Goto(h, pc), pc # "post", UNCHANGED <<balance, lock>>
        PROVE  PosterHoldsLock'
    <3>1. proc'[h].pc # "post"
      BY <2>3, OwnGoto
    <3>2. \A g \in Handler : g # h => proc'[g] = proc[g]
      BY <2>3, OthersKeep
    <3>3. QED  BY <2>3, <3>1, <3>2 DEF PosterHoldsLock
  <2>4. ASSUME Return(h), UNCHANGED <<balance, lock>>
        PROVE  PosterHoldsLock'
    <3>1. proc'[h].pc # "post"
      BY <2>4, OwnReturn DEF Idle
    <3>2. \A g \in Handler : g # h => proc'[g] = proc[g]
      BY <2>4, OthersKeep
    <3>3. QED  BY <2>4, <3>1, <3>2 DEF PosterHoldsLock
  <2>5. CASE \/ \E t \in TopUp : StartTopUp(h, t)
             \/ \E g \in Spend : StartSpend(h, g)
             \/ \E g \in Gift : StartGift(h, g)
             \/ \E p \in Payout :
                  RequestPayout(h, p) \/ FailPayout(h, p) \/ CompletePayout(h, p)
    BY <2>2, <2>5 DEF StartTopUp, StartSpend, StartGift, RequestPayout,
                      FailPayout, CompletePayout
  <2>6. CASE \/ LookUpKey(h) \/ LoadPayout(h) \/ SendPayout(h)
             \/ RecordThrows(h) \/ RecordSent(h) \/ Confirm(h)
    BY <2>3, <2>4, <2>6 DEF LookUpKey, LoadPayout, SendPayout, RecordThrows,
                            RecordSent, Confirm
  <2>7. CASE ReadForFail(h)
    <3>1. UNCHANGED <<balance, lock>>
      BY <2>7 DEF ReadForFail
    <3>2. CASE Return(h)
      BY <2>4, <3>1, <3>2
    <3>3. CASE proc' = [proc EXCEPT ![h].pc = "lock", ![h].op = "return"]
      <4>1. \A g \in Handler : g # h => proc'[g] = proc[g]
        BY <3>3 DEF TypeOK
      <4>2. proc'[h].pc # "post"
        BY <3>3 DEF TypeOK, Local
      <4>3. QED  BY <3>1, <4>1, <4>2 DEF PosterHoldsLock
    <3>4. QED  BY <2>7, <3>2, <3>3 DEF ReadForFail
  <2>8. CASE LockWallet(h)
    <3>1. lock = Nobody /\ lock' = h /\ balance' = balance
      BY <2>8 DEF LockWallet, LockFree
    <3>2. \A g \in Handler : proc[g].pc # "post"
      BY <3>1, WalletAssumption DEF PosterHoldsLock
    <3>3. proc' = [proc EXCEPT ![h].pc = "post", ![h].seen = balance]
      BY <2>8 DEF LockWallet
    <3>4. \A g \in Handler : g # h => proc'[g] = proc[g]
      BY <3>3 DEF TypeOK
    <3>5. proc'[h].seen = balance
      BY <3>3 DEF TypeOK, Local
    <3>6. QED  BY <3>1, <3>2, <3>4, <3>5 DEF PosterHoldsLock
  <2>9. CASE PostEntry(h)
    <3>1. proc'[h].pc # "post"
      BY <2>9, OwnGoto, OwnReturn DEF PostEntry, Idle
    <3>2. \A g \in Handler : g # h => proc'[g] = proc[g]
      BY <2>9, OthersKeep DEF PostEntry
    <3>3. lock = h
      BY <2>9 DEF PostEntry, PosterHoldsLock
    <3>4. \A g \in Handler : proc'[g].pc # "post"
      BY <3>1, <3>2, <3>3 DEF PosterHoldsLock
    <3>5. QED  BY <3>4 DEF PosterHoldsLock
  <2>10. CASE Crash(h)
    <3>1. proc'[h].pc # "post"
      BY <2>10, OwnReturn DEF Crash, Idle
    <3>2. \A g \in Handler : g # h => proc'[g] = proc[g]
      BY <2>10, OthersKeep DEF Crash
    <3>3. balance' = balance /\ (lock' = lock \/ lock = h)
      BY <2>10 DEF Crash
    <3>4. QED  BY <3>1, <3>2, <3>3 DEF PosterHoldsLock
  <2>11. QED  BY <2>1, <2>5, <2>6, <2>7, <2>8, <2>9, <2>10
<1>3. QED  BY <1>1, <1>2

-----------------------------------------------------------------------------
\* Only a commit writes the ledger or the balance.
LEMMA LedgerStep ==
  ASSUME TypeOK, [Next]_vars
  PROVE  \/ UNCHANGED <<balance, ledger>>
         \/ \E h \in Handler : Commits(h)
<1>1. CASE UNCHANGED vars
  BY <1>1 DEF vars
<1>2. CASE Next
  <2>1. PICK h \in Handler :
           \/ \E t \in TopUp : StartTopUp(h, t)
           \/ \E g \in Spend : StartSpend(h, g)
           \/ \E g \in Gift : StartGift(h, g)
           \/ \E p \in Payout :
                RequestPayout(h, p) \/ FailPayout(h, p) \/ CompletePayout(h, p)
           \/ LookUpKey(h) \/ LockWallet(h) \/ PostEntry(h) \/ LoadPayout(h)
           \/ SendPayout(h) \/ RecordSent(h) \/ ReadForFail(h) \/ Confirm(h)
           \/ RecordThrows(h) \/ Crash(h)
    BY <1>2, NextCases
  <2>2. CASE PostEntry(h)
    BY <2>2, PostStep
  <2>3. CASE \/ \E t \in TopUp : StartTopUp(h, t)
             \/ \E g \in Spend : StartSpend(h, g)
             \/ \E g \in Gift : StartGift(h, g)
             \/ \E p \in Payout :
                  RequestPayout(h, p) \/ FailPayout(h, p) \/ CompletePayout(h, p)
    BY <2>3 DEF StartTopUp, StartSpend, StartGift, RequestPayout, FailPayout,
                CompletePayout
  <2>4. CASE \/ LookUpKey(h) \/ LockWallet(h) \/ LoadPayout(h) \/ SendPayout(h)
             \/ RecordSent(h) \/ ReadForFail(h) \/ Confirm(h)
             \/ RecordThrows(h) \/ Crash(h)
    BY <2>4 DEF LookUpKey, LockWallet, LoadPayout, SendPayout, RecordSent,
                ReadForFail, Confirm, RecordThrows, Crash
  <2>5. QED  BY <2>1, <2>2, <2>3, <2>4
<1>3. QED  BY <1>1, <1>2

LEMMA AddsUpNext ==
  ASSUME TypeOK, PosterHoldsLock, StatementAddsUp, [Next]_vars
  PROVE  StatementAddsUp'
<1>1. CASE UNCHANGED <<balance, ledger>>
  BY <1>1 DEF StatementAddsUp
<1>2. ASSUME NEW h \in Handler, Commits(h) PROVE StatementAddsUp'
  <2> DEFINE n == Len(ledger)
             row == [key |-> KeyOf(h), delta |-> Delta(KeyOf(h)),
                     after |-> balance']
  <2>1. /\ n \in Nat /\ Len(ledger') = n + 1
        /\ DOMAIN ledger = 1 .. n /\ DOMAIN ledger' = 1 .. (n + 1)
        /\ \A i \in DOMAIN ledger : ledger'[i] = ledger[i]
        /\ ledger'[n + 1] = row
        /\ KeyOf(h) \in Key
    BY <1>2, CommitAppends
  <2>2. balance \in Nat /\ balance' = balance + Delta(KeyOf(h))
    BY <1>2 DEF Commits, PosterHoldsLock, TypeOK
  <2>3. Delta(KeyOf(h)) \in Int
    BY <2>1, DeltaType
  <2>4. ledger'[n + 1].after = balance' /\ ledger'[n + 1].delta = Delta(KeyOf(h))
    BY <2>1
  <2>5. ledger = <<>> <=> n = 0
    BY DEF TypeOK
  <2>6. ledger' # <<>>
    BY <2>1
  <2>7. balance = IF n = 0 THEN 0 ELSE ledger[n].after
    BY <2>5 DEF StatementAddsUp
  <2>8. ASSUME NEW i \in DOMAIN ledger'
        PROVE  ledger'[i].after = ledger'[i].delta +
                                    (IF i = 1 THEN 0 ELSE ledger'[i - 1].after)
    <3>1. CASE i = n + 1
      <4>1. n # 0 => ledger'[n] = ledger[n]
        BY <2>1
      <4>2. (IF i = 1 THEN 0 ELSE ledger'[i - 1].after) = balance
        BY <2>1, <2>7, <3>1, <4>1
      <4>3. QED  BY <2>2, <2>3, <2>4, <3>1, <4>2
    <3>2. CASE i # n + 1
      <4>1. i \in DOMAIN ledger /\ (i # 1 => i - 1 \in DOMAIN ledger)
        BY <2>1, <2>8, <3>2
      <4>2. ledger'[i] = ledger[i] /\ (i # 1 => ledger'[i - 1] = ledger[i - 1])
        BY <2>1, <4>1
      <4>3. QED  BY <4>1, <4>2 DEF StatementAddsUp
    <3>3. QED  BY <3>1, <3>2
  <2>9. QED  BY <2>1, <2>4, <2>6, <2>8 DEF StatementAddsUp
<1>3. QED  BY <1>1, <1>2, LedgerStep

LEMMA PostedOnceNext ==
  ASSUME TypeOK, PostedOnce, [Next]_vars
  PROVE  PostedOnce'
<1>1. CASE UNCHANGED <<balance, ledger>>
  BY <1>1 DEF PostedOnce
<1>2. ASSUME NEW h \in Handler, Commits(h) PROVE PostedOnce'
  <2> DEFINE n == Len(ledger)
  <2>1. /\ n \in Nat
        /\ DOMAIN ledger = 1 .. n /\ DOMAIN ledger' = 1 .. (n + 1)
        /\ \A i \in DOMAIN ledger : ledger'[i] = ledger[i]
        /\ ledger'[n + 1] = [key |-> KeyOf(h), delta |-> Delta(KeyOf(h)),
                             after |-> balance']
    BY <1>2, CommitAppends
  <2>2. ledger'[n + 1].key = KeyOf(h)
    BY <2>1
  <2>3. \A i \in DOMAIN ledger : ledger[i].key # KeyOf(h)
    BY <1>2 DEF Commits, Duplicate, Posted
  <2>4. \A i \in DOMAIN ledger' : i \in DOMAIN ledger \/ i = n + 1
    BY <2>1
  <2> HIDE DEF n
  <2>5. QED  BY <2>1, <2>2, <2>3, <2>4 DEF PostedOnce
<1>3. QED  BY <1>1, <1>2, LedgerStep

-----------------------------------------------------------------------------
\* What a step does to a payout's status: a commit, or the provider's answer
\* or the administrator's confirmation for a payout whose row exists.
Marks ==
  /\ UNCHANGED ledger
  /\ \E p \in Payout : /\ status[p] # "NONE"
                       /\ \/ status' = [status EXCEPT ![p] = "PAID"]
                          \/ status' = [status EXCEPT ![p] = "PROCESSING"]

LEMMA StatusStep ==
  ASSUME TypeOK, WorksOnPayout, [Next]_vars
  PROVE  \/ UNCHANGED <<ledger, status>>
         \/ \E h \in Handler : Commits(h)
         \/ Marks
<1>1. CASE UNCHANGED vars
  BY <1>1 DEF vars
<1>2. CASE Next
  <2>1. PICK h \in Handler :
           \/ \E t \in TopUp : StartTopUp(h, t)
           \/ \E g \in Spend : StartSpend(h, g)
           \/ \E g \in Gift : StartGift(h, g)
           \/ \E p \in Payout :
                RequestPayout(h, p) \/ FailPayout(h, p) \/ CompletePayout(h, p)
           \/ LookUpKey(h) \/ LockWallet(h) \/ PostEntry(h) \/ LoadPayout(h)
           \/ SendPayout(h) \/ RecordSent(h) \/ ReadForFail(h) \/ Confirm(h)
           \/ RecordThrows(h) \/ Crash(h)
    BY <1>2, NextCases
  <2>2. CASE PostEntry(h)
    BY <2>2, PostStep
  <2>3. CASE RecordSent(h) \/ Confirm(h)
    <3>1. proc[h].on \in Payout /\ status[proc[h].on] # "NONE"
      BY <2>3 DEF RecordSent, Confirm, WorksOnPayout, PastDebit
    <3>2. QED  BY <2>3, <3>1 DEF RecordSent, Confirm, Marks
  <2>4. CASE \/ \E t \in TopUp : StartTopUp(h, t)
             \/ \E g \in Spend : StartSpend(h, g)
             \/ \E g \in Gift : StartGift(h, g)
             \/ \E p \in Payout :
                  RequestPayout(h, p) \/ FailPayout(h, p) \/ CompletePayout(h, p)
    BY <2>4 DEF StartTopUp, StartSpend, StartGift, RequestPayout, FailPayout,
                CompletePayout
  <2>5. CASE \/ LookUpKey(h) \/ LockWallet(h) \/ LoadPayout(h) \/ SendPayout(h)
             \/ ReadForFail(h) \/ RecordThrows(h) \/ Crash(h)
    BY <2>5 DEF LookUpKey, LockWallet, LoadPayout, SendPayout, ReadForFail,
                RecordThrows, Crash
  <2>6. QED  BY <2>1, <2>2, <2>3, <2>4, <2>5
<1>3. QED  BY <1>1, <1>2

\* What a commit does to the payout it is for.
LEMMA CommitStatus ==
  ASSUME TypeOK, WorksOnPayout, NEW h \in Handler, Commits(h)
  PROVE  \/ /\ proc[h].op = "withdraw" /\ proc[h].on \in Payout
            /\ status' = [status EXCEPT ![proc[h].on] = "REQUESTED"]
         \/ /\ proc[h].op = "return" /\ proc[h].on \in Payout
            /\ status[proc[h].on] # "NONE"
            /\ status' = [status EXCEPT ![proc[h].on] = "FAILED"]
         \/ /\ proc[h].op \notin {"withdraw", "return"}
            /\ status' = status
<1>1. proc[h].pc # "idle"
  BY DEF Commits
<1>2. <<proc[h].op, proc[h].on>> \in Key
  BY <1>1 DEF TypeOK
<1>3. status' = StatusAfter(h)
  BY DEF Commits
<1>4. CASE proc[h].op = "withdraw"
  BY <1>2, <1>3, <1>4 DEF StatusAfter, Key
<1>5. CASE proc[h].op = "return"
  <2>1. proc[h].on \in Payout /\ status[proc[h].on] # "NONE"
    BY <1>1, <1>5 DEF WorksOnPayout
  <2>2. QED  BY <1>3, <1>5, <2>1 DEF StatusAfter
<1>6. CASE proc[h].op \notin {"withdraw", "return"}
  BY <1>3, <1>6 DEF StatusAfter
<1>7. QED  BY <1>4, <1>5, <1>6

LEMMA RowsStay ==
  ASSUME TypeOK, WorksOnPayout, [Next]_vars
  PROVE  \A p \in Payout : status[p] # "NONE" => status'[p] # "NONE"
<1>1. CASE UNCHANGED <<ledger, status>>
  BY <1>1
<1>2. CASE \E h \in Handler : Commits(h)
  BY <1>2, CommitStatus DEF TypeOK
<1>3. CASE Marks
  BY <1>3 DEF Marks, TypeOK
<1>4. QED  BY <1>1, <1>2, <1>3, StatusStep

LEMMA AccountedNext ==
  ASSUME TypeOK, WorksOnPayout, WithdrawalsAccounted, [Next]_vars
  PROVE  WithdrawalsAccounted'
<1>1. CASE UNCHANGED <<ledger, status>>
  BY <1>1 DEF WithdrawalsAccounted, Posted
<1>2. CASE Marks
  <2>1. UNCHANGED ledger
    BY <1>2 DEF Marks
  <2>2. \A key : Posted(key)' <=> Posted(key)
    BY <2>1 DEF Posted
  <2>3. PICK p \in Payout : /\ status[p] # "NONE"
                           /\ \/ status' = [status EXCEPT ![p] = "PAID"]
                              \/ status' = [status EXCEPT ![p] = "PROCESSING"]
    BY <1>2 DEF Marks
  <2>4. \A q \in Payout : /\ status'[q] = "NONE" <=> status[q] = "NONE"
                          /\ status'[q] = "FAILED" => status[q] = "FAILED"
    BY <2>3 DEF TypeOK
  <2>5. QED  BY <2>2, <2>4 DEF WithdrawalsAccounted
<1>3. ASSUME NEW h \in Handler, Commits(h) PROVE WithdrawalsAccounted'
  <2>1. \A key : Posted(key)' <=> (Posted(key) \/ key = KeyOf(h))
    BY <1>3, PostedAfter
  <2>2. SUFFICES ASSUME NEW p \in Payout
                 PROVE  /\ Posted(<<"withdraw", p>>)' <=> status'[p] # "NONE"
                        /\ status'[p] = "FAILED" => Posted(<<"return", p>>)'
    BY DEF WithdrawalsAccounted
  <2>3. /\ Posted(<<"withdraw", p>>) <=> status[p] # "NONE"
        /\ status[p] = "FAILED" => Posted(<<"return", p>>)
    BY DEF WithdrawalsAccounted
  <2>4. /\ Posted(<<"withdraw", p>>)' <=>
             (Posted(<<"withdraw", p>>) \/ <<"withdraw", p>> = KeyOf(h))
        /\ Posted(<<"return", p>>)' <=>
             (Posted(<<"return", p>>) \/ <<"return", p>> = KeyOf(h))
    BY <2>1
  <2>5. CASE /\ proc[h].op = "withdraw" /\ proc[h].on \in Payout
             /\ status' = [status EXCEPT ![proc[h].on] = "REQUESTED"]
    BY <2>3, <2>4, <2>5 DEF KeyOf, TypeOK
  <2>6. CASE /\ proc[h].op = "return" /\ proc[h].on \in Payout
             /\ status[proc[h].on] # "NONE"
             /\ status' = [status EXCEPT ![proc[h].on] = "FAILED"]
    BY <2>3, <2>4, <2>6 DEF KeyOf, TypeOK
  <2>7. CASE proc[h].op \notin {"withdraw", "return"} /\ status' = status
    BY <2>3, <2>4, <2>7 DEF KeyOf
  <2>8. QED  BY <1>3, <2>5, <2>6, <2>7, CommitStatus
<1>4. QED  BY <1>1, <1>2, <1>3, StatusStep

-----------------------------------------------------------------------------
LEMMA WorksNext ==
  ASSUME TypeOK, WorksOnPayout, WithdrawalsAccounted, [Next]_vars
  PROVE  WorksOnPayout'
<1> DEFINE Works(l, st) == /\ l.pc \in PastDebit => l.op = "withdraw"
                           /\ l.pc \in PastDebit \/ (l.pc # "idle" /\ l.op = "return")
                                => l.on \in Payout /\ st[l.on] # "NONE"
<1>1. CASE UNCHANGED vars
  BY <1>1 DEF vars, WorksOnPayout
<1>2. CASE Next
  <2>1. PICK h \in Handler :
           \/ \E t \in TopUp : StartTopUp(h, t)
           \/ \E g \in Spend : StartSpend(h, g)
           \/ \E g \in Gift : StartGift(h, g)
           \/ \E p \in Payout :
                RequestPayout(h, p) \/ FailPayout(h, p) \/ CompletePayout(h, p)
           \/ LookUpKey(h) \/ LockWallet(h) \/ PostEntry(h) \/ LoadPayout(h)
           \/ SendPayout(h) \/ RecordSent(h) \/ ReadForFail(h) \/ Confirm(h)
           \/ RecordThrows(h) \/ Crash(h)
    BY <1>2, NextCases
  <2>2. \A p \in Payout : status[p] # "NONE" => status'[p] # "NONE"
    BY RowsStay
  <2>3. \A g \in Handler : Works(proc[g], status)
    BY DEF WorksOnPayout
  <2>4. SUFFICES Works(proc'[h], status') /\ \A g \in Handler : g # h => proc'[g] = proc[g]
    <3>1. \A g \in Handler : Works(proc'[g], status')
      BY <2>2, <2>3, <2>4
    <3>2. QED  BY <3>1 DEF WorksOnPayout
  <2>5. ASSUME NEW pc, NEW op, NEW on, Begin(h, pc, op, on),
               pc \in PastDebit => op = "withdraw" /\ on \in Payout /\ status[on] # "NONE",
               op # "return"
        PROVE  Works(proc'[h], status') /\ \A g \in Handler : g # h => proc'[g] = proc[g]
    BY <2>2, <2>5, OwnBegin, OthersKeep
  <2>6. ASSUME NEW pc, Goto(h, pc), proc[h].pc # "idle",
               proc[h].pc \in PastDebit \/ pc \notin PastDebit
        PROVE  Works(proc'[h], status') /\ \A g \in Handler : g # h => proc'[g] = proc[g]
    BY <2>2, <2>3, <2>6, OwnGoto, OthersKeep
  <2>7. ASSUME Return(h)
        PROVE  Works(proc'[h], status') /\ \A g \in Handler : g # h => proc'[g] = proc[g]
    BY <2>7, OwnReturn, OthersKeep DEF Idle, PastDebit
  <2>8. CASE \/ \E t \in TopUp : StartTopUp(h, t)
             \/ \E g \in Spend : StartSpend(h, g)
             \/ \E g \in Gift : StartGift(h, g)
             \/ \E p \in Payout :
                  RequestPayout(h, p) \/ FailPayout(h, p) \/ CompletePayout(h, p)
    BY <2>5, <2>8 DEF StartTopUp, StartSpend, StartGift, RequestPayout,
                      FailPayout, CompletePayout, PastDebit
  <2>9. CASE LookUpKey(h)
    <3>1. CASE Posted(KeyOf(h)) /\ proc[h].op = "withdraw"
      <4>1. Goto(h, "load") /\ proc[h].pc # "idle"
        BY <2>9, <3>1 DEF LookUpKey
      <4>2. proc[h].on \in Payout
        BY <3>1, <4>1 DEF TypeOK, Key
      <4>3. status[proc[h].on] # "NONE"
        BY <3>1, <4>2 DEF WithdrawalsAccounted, KeyOf
      <4>4. QED  BY <2>2, <3>1, <4>1, <4>2, <4>3, OwnGoto, OthersKeep
    <3>2. CASE Return(h)
      BY <2>7, <3>2
    <3>3. CASE Goto(h, "lock") /\ proc[h].pc # "idle"
      BY <2>6, <3>3 DEF PastDebit
    <3>4. QED  BY <2>9, <3>1, <3>2, <3>3 DEF LookUpKey
  <2>10. CASE LockWallet(h)
    <3>1. proc' = [proc EXCEPT ![h].pc = "post", ![h].seen = balance]
      BY <2>10 DEF LockWallet
    <3>2. /\ proc'[h].pc = "post" /\ proc'[h].op = proc[h].op
          /\ proc'[h].on = proc[h].on /\ proc[h].pc # "idle"
      BY <2>10, <3>1 DEF LockWallet, TypeOK, Local
    <3>3. \A g \in Handler : g # h => proc'[g] = proc[g]
      BY <3>1 DEF TypeOK
    <3>4. QED  BY <2>2, <2>3, <3>2, <3>3 DEF PastDebit
  <2>11. CASE PostEntry(h)
    <3>1. CASE Return(h)
      BY <2>7, <3>1
    <3>2. CASE Commits(h) /\ proc[h].op = "withdraw" /\ Goto(h, "load")
      <4>1. proc[h].on \in Payout /\ status'[proc[h].on] # "NONE"
        BY <3>2, CommitStatus DEF TypeOK
      <4>2. QED  BY <3>2, <4>1, OwnGoto, OthersKeep
    <3>3. QED  BY <2>11, <3>1, <3>2 DEF PostEntry, Commits
  <2>12. CASE \/ LoadPayout(h) \/ SendPayout(h) \/ RecordThrows(h)
    BY <2>6, <2>7, <2>12 DEF LoadPayout, SendPayout, RecordThrows, PastDebit
  <2>13. CASE RecordSent(h) \/ Confirm(h) \/ Crash(h)
    BY <2>7, <2>13 DEF RecordSent, Confirm, Crash
  <2>14. CASE ReadForFail(h)
    <3>1. CASE Return(h)
      BY <2>7, <3>1
    <3>2. CASE proc' = [proc EXCEPT ![h].pc = "lock", ![h].op = "return"]
      <4>1. proc[h].pc \in PastDebit
        BY <2>14 DEF ReadForFail, PastDebit
      <4>2. /\ proc'[h].pc = "lock" /\ proc'[h].op = "return"
            /\ proc'[h].on = proc[h].on
        BY <3>2 DEF TypeOK, Local
      <4>3. \A g \in Handler : g # h => proc'[g] = proc[g]
        BY <3>2 DEF TypeOK
      <4>4. QED  BY <2>2, <2>3, <4>1, <4>2, <4>3 DEF PastDebit
    <3>3. QED  BY <2>14, <3>1, <3>2 DEF ReadForFail
  <2>15. QED
    BY <2>1, <2>8, <2>9, <2>10, <2>11, <2>12, <2>13, <2>14
<1>3. QED  BY <1>1, <1>2

-----------------------------------------------------------------------------
LEMMA InvInit == Init => WalletInv
<1> SUFFICES ASSUME Init PROVE WalletInv
  OBVIOUS
<1>1. TypeOK
  BY WalletTypeInit
<1>2. PosterHoldsLock /\ WorksOnPayout
  BY DEF Init, PosterHoldsLock, WorksOnPayout, Idle, PastDebit
<1>3. ledger = <<>> /\ DOMAIN ledger = {} /\ balance = 0
  BY DEF Init
<1>4. StatementAddsUp /\ PostedOnce
  BY <1>3 DEF StatementAddsUp, PostedOnce
<1>5. WithdrawalsAccounted
  BY <1>3 DEF Init, WithdrawalsAccounted, Posted
<1>6. QED  BY <1>1, <1>2, <1>4, <1>5 DEF WalletInv

LEMMA InvNext == WalletInv /\ [Next]_vars => WalletInv'
<1> SUFFICES ASSUME WalletInv, [Next]_vars PROVE WalletInv'
  OBVIOUS
<1>1. TypeOK /\ PosterHoldsLock /\ StatementAddsUp /\ PostedOnce /\ WorksOnPayout
      /\ WithdrawalsAccounted
  BY DEF WalletInv
<1>2. TypeOK' /\ PosterHoldsLock'
  BY <1>1, WalletTypeNext, PostersNext
<1>3. StatementAddsUp'
  BY <1>1, AddsUpNext
<1>4. PostedOnce'
  BY <1>1, PostedOnceNext
<1>5. WorksOnPayout'
  BY <1>1, WorksNext
<1>6. WithdrawalsAccounted'
  BY <1>1, AccountedNext
<1>7. QED  BY <1>2, <1>3, <1>4, <1>5, <1>6 DEF WalletInv

\* The invariant of the wallet: it holds in every reachable state, for any
\* withdrawals, amounts, concurrent requests, crashes and failed statements.
THEOREM WalletSafety == Spec => []WalletInv
<1>1. WalletInv /\ UNCHANGED vars => WalletInv'
  BY InvNext
<1>2. QED  BY InvInit, InvNext, PTL DEF Spec

\* Each row of the statement follows from the one before, whatever overlaps.
THEOREM StatementAddsUpHolds == Spec => []StatementAddsUp
<1>1. WalletInv => StatementAddsUp
  BY DEF WalletInv
<1>2. QED  BY <1>1, WalletSafety, PTL

\* No key is ever posted twice.
THEOREM PostedOnceHolds == Spec => []PostedOnce
<1>1. WalletInv => PostedOnce
  BY DEF WalletInv
<1>2. QED  BY <1>1, WalletSafety, PTL

\* Debits and payout rows come together, and a failed payout was returned,
\* wherever requests die.
THEOREM WithdrawalsAccountedHolds == Spec => []WithdrawalsAccounted
<1>1. WalletInv => WithdrawalsAccounted
  BY DEF WalletInv
<1>2. QED  BY <1>1, WalletSafety, PTL

-----------------------------------------------------------------------------
\* Every step of the wallet posts one new key that the balance covers, or
\* changes neither the balance nor the keys.
LEMMA LedgerRefined ==
  ASSUME WalletInv, [Next]_vars
  PROVE  [WalletLedger!Next]_(WalletLedger!vars)
<1> DEFINE keys == {ledger[i].key : i \in DOMAIN ledger}
<1> TypeOK /\ PosterHoldsLock
  BY DEF WalletInv
<1>1. CASE UNCHANGED <<balance, ledger>>
  BY <1>1 DEF WalletLedger!vars
<1>2. ASSUME NEW h \in Handler, Commits(h)
      PROVE  WalletLedger!Next
  <2>1. KeyOf(h) \in Key /\ balance' \in Nat
    BY <1>2, CommitAppends
  <2>2. balance \in Nat /\ balance' = balance + Delta(KeyOf(h))
    BY <1>2 DEF Commits, PosterHoldsLock, TypeOK
  <2>3. balance + Delta(KeyOf(h)) >= 0
    BY <2>1, <2>2
  <2>4. KeyOf(h) \notin keys
    BY <1>2 DEF Commits, Duplicate, Posted
  <2>5. \A key : key \in keys' <=> (key \in keys \/ key = KeyOf(h))
    <3>1. \A key : key \in keys <=> Posted(key)
      BY DEF Posted
    <3>2. \A key : key \in keys' <=> Posted(key)'
      BY DEF Posted
    <3>3. \A key : Posted(key)' <=> (Posted(key) \/ key = KeyOf(h))
      BY <1>2, PostedAfter
    <3>4. QED  BY <3>1, <3>2, <3>3
  <2>6. keys' = keys \union {KeyOf(h)}
    BY <2>5
  <2>7. PICK key \in Key : key = KeyOf(h)
    BY <2>1
  <2>8. WalletLedger!Post(key)
    BY <2>2, <2>3, <2>4, <2>6, <2>7 DEF WalletLedger!Post
  <2>9. QED  BY <2>8 DEF WalletLedger!Next
<1>3. QED  BY <1>1, <1>2, LedgerStep

\* The wallet implements the ledger: concurrent requests are as if posted one
\* after the other, each key once, and the balance never goes below zero.
THEOREM WalletImplementsLedger == Spec => ImplementsLedger
<1>1. Init => WalletLedger!Init
  BY DEF Init, WalletLedger!Init
<1>2. WalletInv /\ [Next]_vars => [WalletLedger!Next]_(WalletLedger!vars)
  BY LedgerRefined
<1>3. QED
  BY <1>1, <1>2, WalletSafety, PTL DEF Spec, ImplementsLedger, WalletLedger!Spec

-----------------------------------------------------------------------------
(***************************************************************************)
(* Withdrawals that nothing disturbed.                                     *)
(***************************************************************************)
\* What a request in state l may take for granted of its payout.
Decides(l, st) ==
  /\ l.pc \in {"send", "settled", "queued"} => st[l.on] = "REQUESTED"
  /\ l.pc = "confirm" => st[l.on] \in Undecided
  /\ l.pc # "idle" /\ l.op = "return" => st[l.on] \in Undecided

\* What a request in state l takes for granted, if it had its payout to itself.
Grounded(l, st, shared) == l.on \notin shared => Decides(l, st)

\* A request that writes only the status of its own payout disturbs no other.
LEMMA OthersUndisturbed ==
  ASSUME OutcomeInv, Notes, NEW h \in Handler,
         \A g \in Handler : g # h => proc'[g] = proc[g],
         \A p \in Payout : p # proc[h].on => status'[p] = status[p],
         Grounded(proc'[h], status', disturbed)
  PROVE  DecidesOnce'
<1>0. disturbed \subseteq disturbed'
  BY DEF Notes
<1>1. SUFFICES ASSUME NEW g \in Handler, g # h, proc[g].on \notin disturbed
               PROVE  Decides(proc[g], status')
  <2>1. \A g \in Handler : Grounded(proc'[g], status', disturbed)
    BY <1>1 DEF Grounded
  <2>2. QED  BY <1>0, <2>1 DEF DecidesOnce, Decides, Grounded
<1>2. Decides(proc[g], status)
  BY <1>1 DEF OutcomeInv, DecidesOnce, Decides
<1>3. CASE proc[g].on \in Payout
  <2>1. proc[g].on # proc[h].on
    BY <1>1, <1>3 DEF OutcomeInv, Overlapping
  <2>2. status'[proc[g].on] = status[proc[g].on]
    BY <1>3, <2>1
  <2>3. QED  BY <1>2, <2>2 DEF Decides
<1>4. CASE proc[g].on \notin Payout
  <2>1. /\ proc[g].pc \notin PastDebit
        /\ ~(proc[g].pc # "idle" /\ proc[g].op = "return")
    BY <1>4 DEF OutcomeInv, WalletInv, WorksOnPayout
  <2>2. QED  BY <2>1 DEF Decides, PastDebit
<1>5. QED  BY <1>3, <1>4

\* A transfer that went out is PAID, on its way to PAID, or disturbed: a step
\* has to keep PAID, start every new transfer at a request and return nothing
\* that is not FAILED.
LEMMA OutcomeStays ==
  ASSUME OutcomeInv, Notes,
         \A p \in Payout \ disturbed : status[p] = "PAID" => status'[p] = "PAID",
         \A p \in Payout \ disturbed :
           p \in sent' => p \in sent \/ \E h \in Handler : Sending(h, p)',
         \A p \in Payout \ disturbed :
           Posted(<<"return", p>>)' => status'[p] = "FAILED"
  PROVE  OutcomeInStatus'
<1>1. SUFFICES ASSUME NEW p \in Payout, p \notin disturbed', p \in sent'
               PROVE  status'[p] = "PAID" \/ \E h \in Handler : Sending(h, p)'
  BY DEF OutcomeInStatus, Notes
<1>2. p \notin disturbed /\ p \notin Unrecorded
  BY <1>1 DEF Notes
<1>3. CASE p \in sent
  <2>1. CASE status[p] = "PAID"
    BY <1>2, <2>1
  <2>2. CASE \E h \in Handler : Sending(h, p)
    BY <1>1, <1>2, <2>2 DEF Unrecorded
  <2>3. QED  BY <1>2, <1>3, <2>1, <2>2 DEF OutcomeInv, OutcomeInStatus
<1>4. CASE p \notin sent
  BY <1>1, <1>2, <1>4
<1>5. QED  BY <1>3, <1>4

\* A step that writes no ledger row and no status.
LEMMA OutcomeUntouched ==
  ASSUME OutcomeInv, Notes, UNCHANGED <<ledger, status>>,
         \A p \in Payout \ disturbed :
           p \in sent' => p \in sent \/ \E h \in Handler : Sending(h, p)'
  PROVE  OutcomeInStatus'
<1>1. \A p \in Payout \ disturbed : Posted(<<"return", p>>)' => status'[p] = "FAILED"
  BY DEF OutcomeInv, OutcomeInStatus, Posted
<1>2. QED  BY <1>1, OutcomeStays

\* A committed row: a debit's payout had no outcome, a return's none yet.
LEMMA OutcomeCommitted ==
  ASSUME OutcomeInv, Notes, NEW h \in Handler, Commits(h), UNCHANGED sent
  PROVE  OutcomeInStatus'
<1> USE DEF OutcomeInv, WalletInv
<1>1. \A key : Posted(key)' <=> (Posted(key) \/ key = KeyOf(h))
  BY PostedAfter
<1>2. SUFFICES ASSUME NEW p \in Payout \ disturbed
               PROVE  /\ status[p] = "PAID" => status'[p] = "PAID"
                      /\ Posted(<<"return", p>>)' => status'[p] = "FAILED"
  BY <1>2, OutcomeStays
<1>3. Posted(<<"return", p>>) => status[p] = "FAILED"
  BY DEF OutcomeInStatus
<1>4. Posted(<<"return", p>>)' <=>
        (Posted(<<"return", p>>) \/ <<"return", p>> = KeyOf(h))
  BY <1>1
<1>5. CASE /\ proc[h].op = "withdraw" /\ proc[h].on \in Payout
           /\ status' = [status EXCEPT ![proc[h].on] = "REQUESTED"]
  <2>1. status[proc[h].on] = "NONE"
    BY <1>5 DEF Commits, Duplicate, KeyOf, WithdrawalsAccounted
  <2>2. <<"return", p>> # KeyOf(h)
    BY <1>5 DEF KeyOf
  <2>3. QED  BY <1>3, <1>4, <1>5, <2>1, <2>2 DEF TypeOK
<1>6. CASE /\ proc[h].op = "return" /\ proc[h].on \in Payout
           /\ status[proc[h].on] # "NONE"
           /\ status' = [status EXCEPT ![proc[h].on] = "FAILED"]
  <2>1. p = proc[h].on => status[proc[h].on] \in Undecided
    BY <1>6 DEF Commits, DecidesOnce
  <2>2. <<"return", p>> = KeyOf(h) => p = proc[h].on
    BY DEF KeyOf
  <2>3. QED  BY <1>3, <1>4, <1>6, <2>1, <2>2 DEF TypeOK, Undecided
<1>7. CASE proc[h].op \notin {"withdraw", "return"} /\ status' = status
  <2>1. <<"return", p>> # KeyOf(h)
    BY <1>7 DEF KeyOf
  <2>2. QED  BY <1>3, <1>4, <1>7, <2>1
<1>8. QED  BY <1>5, <1>6, <1>7, CommitStatus

\* A recorded answer: its payout was neither paid nor returned.
LEMMA OutcomeRecorded ==
  ASSUME OutcomeInv, Notes, NEW h \in Handler, RecordSent(h) \/ Confirm(h)
  PROVE  OutcomeInStatus'
<1> DEFINE p == proc[h].on
<1>1. p \in Payout /\ (p \notin disturbed => status[p] \in Undecided)
  BY DEF OutcomeInv, WalletInv, WorksOnPayout, PastDebit, DecidesOnce, RecordSent,
         Confirm, Undecided
<1>2. UNCHANGED <<ledger, sent>>
  BY DEF RecordSent, Confirm
<1>3. \A key : Posted(key)' <=> Posted(key)
  BY <1>2 DEF Posted
<1>4. status \in [Payout -> Status]
  BY DEF OutcomeInv, WalletInv, TypeOK
<1>5. \/ status' = [status EXCEPT ![p] = "PAID"]
      \/ status' = [status EXCEPT ![p] = "PROCESSING"]
  BY DEF RecordSent, Confirm
<1>6. SUFFICES ASSUME NEW q \in Payout \ disturbed
               PROVE  /\ status[q] = "PAID" => status'[q] = "PAID"
                      /\ Posted(<<"return", q>>) => status'[q] = "FAILED"
  BY <1>2, <1>3, <1>6, OutcomeStays
<1>7. Posted(<<"return", q>>) => status[q] = "FAILED"
  BY DEF OutcomeInv, OutcomeInStatus
<1>8. CASE q = p
  BY <1>1, <1>7, <1>8 DEF Undecided
<1>9. CASE q # p
  <2>1. status'[q] = status[q]
    BY <1>1, <1>4, <1>5, <1>9
  <2>2. QED  BY <1>7, <2>1
<1>10. QED  BY <1>8, <1>9

LEMMA OutcomeNext ==
  ASSUME OutcomeInv, Notes, Next
  PROVE  OutcomeInStatus'
<1>1. PICK h \in Handler :
         \/ \E t \in TopUp : StartTopUp(h, t)
         \/ \E g \in Spend : StartSpend(h, g)
         \/ \E g \in Gift : StartGift(h, g)
         \/ \E p \in Payout :
              RequestPayout(h, p) \/ FailPayout(h, p) \/ CompletePayout(h, p)
         \/ LookUpKey(h) \/ LockWallet(h) \/ PostEntry(h) \/ LoadPayout(h)
         \/ SendPayout(h) \/ RecordSent(h) \/ ReadForFail(h) \/ Confirm(h)
         \/ RecordThrows(h) \/ Crash(h)
  BY NextCases
<1>2. TypeOK
  BY DEF OutcomeInv, WalletInv
<1>3. CASE RecordSent(h) \/ Confirm(h)
  BY <1>3, OutcomeRecorded
<1>4. CASE PostEntry(h)
  <2>1. UNCHANGED sent
    BY <1>4 DEF PostEntry
  <2>2. QED  BY <1>2, <1>4, <2>1, PostStep, OutcomeCommitted, OutcomeUntouched
<1>5. CASE \E p \in Payout : CompletePayout(h, p)
  <2>1. PICK p \in Payout : CompletePayout(h, p)
    BY <1>5
  <2>2. UNCHANGED <<ledger, status>> /\ sent' = sent \union {p}
    BY <2>1 DEF CompletePayout
  <2>3. proc'[h].pc = "confirm" /\ proc'[h].on = p
    BY <1>2, <2>1, OwnBegin DEF CompletePayout
  <2>4. Sending(h, p)'
    BY <2>3 DEF Sending
  <2>5. QED  BY <2>2, <2>4, OutcomeUntouched
<1>6. CASE SendPayout(h)
  <2>1. PICK pc \in {"settled", "queued", "fail"} :
          /\ Goto(h, pc)
          /\ sent' = IF pc = "settled" THEN sent \union {proc[h].on} ELSE sent
    BY <1>6 DEF SendPayout
  <2>2. UNCHANGED <<ledger, status>>
    BY <1>6 DEF SendPayout
  <2>3. proc'[h].pc = pc /\ proc'[h].on = proc[h].on
    BY <1>2, <2>1, OwnGoto
  <2>4. \A p \in Payout : pc = "settled" /\ p = proc[h].on => Sending(h, p)'
    BY <2>3 DEF Sending
  <2>5. QED  BY <2>1, <2>2, <2>4, OutcomeUntouched
<1>7. CASE \/ \E t \in TopUp : StartTopUp(h, t)
           \/ \E g \in Spend : StartSpend(h, g)
           \/ \E g \in Gift : StartGift(h, g)
           \/ \E p \in Payout : RequestPayout(h, p) \/ FailPayout(h, p)
  <2>1. UNCHANGED <<ledger, status, sent>>
    BY <1>7 DEF StartTopUp, StartSpend, StartGift, RequestPayout, FailPayout
  <2>2. QED  BY <2>1, OutcomeUntouched
<1>8. CASE \/ LookUpKey(h) \/ LockWallet(h) \/ LoadPayout(h)
           \/ ReadForFail(h) \/ RecordThrows(h) \/ Crash(h)
  <2>1. UNCHANGED <<ledger, status, sent>>
    BY <1>8 DEF LookUpKey, LockWallet, LoadPayout, ReadForFail, RecordThrows, Crash
  <2>2. QED  BY <2>1, OutcomeUntouched
<1>9. QED  BY <1>1, <1>3, <1>4, <1>5, <1>6, <1>7, <1>8

LEMMA DecidesNext ==
  ASSUME OutcomeInv, Notes, Next
  PROVE  DecidesOnce'
<1>1. PICK h \in Handler :
         \/ \E t \in TopUp : StartTopUp(h, t)
         \/ \E g \in Spend : StartSpend(h, g)
         \/ \E g \in Gift : StartGift(h, g)
         \/ \E p \in Payout :
              RequestPayout(h, p) \/ FailPayout(h, p) \/ CompletePayout(h, p)
         \/ LookUpKey(h) \/ LockWallet(h) \/ PostEntry(h) \/ LoadPayout(h)
         \/ SendPayout(h) \/ RecordSent(h) \/ ReadForFail(h) \/ Confirm(h)
         \/ RecordThrows(h) \/ Crash(h)
  BY NextCases
<1>2. TypeOK /\ Grounded(proc[h], status, disturbed)
  BY DEF OutcomeInv, WalletInv, DecidesOnce, Decides, Grounded
<1> DEFINE Alone == /\ \A g \in Handler : g # h => proc'[g] = proc[g]
                    /\ \A p \in Payout : p # proc[h].on => status'[p] = status[p]
<1>3. SUFFICES Alone /\ Grounded(proc'[h], status', disturbed)
  BY <1>3, OthersUndisturbed
<1>4. ASSUME NEW pc, NEW op, NEW on, Begin(h, pc, op, on), status' = status,
             op # "return", pc \notin {"send", "settled", "queued"},
             pc = "confirm" => status[on] \in Undecided
      PROVE  Alone /\ Grounded(proc'[h], status', disturbed)
  BY <1>2, <1>4, OwnBegin, OthersKeep DEF Decides, Grounded
<1>5. ASSUME NEW pc, Goto(h, pc), status' = status, proc[h].pc # "idle",
             pc \in {"send", "settled", "queued"} =>
               proc[h].on \in disturbed \/ status[proc[h].on] = "REQUESTED",
             pc # "confirm"
      PROVE  Alone /\ Grounded(proc'[h], status', disturbed)
  BY <1>2, <1>5, OwnGoto, OthersKeep DEF Decides, Grounded
<1>6. ASSUME Return(h), \A p \in Payout : p # proc[h].on => status'[p] = status[p]
      PROVE  Alone /\ Grounded(proc'[h], status', disturbed)
  BY <1>2, <1>6, OwnReturn, OthersKeep DEF Decides, Grounded, Idle
<1>7. CASE \/ \E t \in TopUp : StartTopUp(h, t)
           \/ \E g \in Spend : StartSpend(h, g)
           \/ \E g \in Gift : StartGift(h, g)
           \/ \E p \in Payout :
                RequestPayout(h, p) \/ FailPayout(h, p) \/ CompletePayout(h, p)
  BY <1>4, <1>7 DEF StartTopUp, StartSpend, StartGift, RequestPayout,
                    FailPayout, CompletePayout, Undecided
<1>8. CASE LookUpKey(h)
  BY <1>5, <1>6, <1>8 DEF LookUpKey
<1>9. CASE LoadPayout(h)
  BY <1>5, <1>6, <1>9 DEF LoadPayout
<1>10. CASE SendPayout(h)
  <2>1. proc[h].on \in disturbed \/ status[proc[h].on] = "REQUESTED"
    BY <1>2, <1>10 DEF SendPayout, Decides, Grounded
  <2>2. QED  BY <1>5, <1>10, <2>1 DEF SendPayout
<1>11. CASE RecordThrows(h)
  BY <1>5, <1>11 DEF RecordThrows
<1>12. CASE LockWallet(h)
  <2>1. proc' = [proc EXCEPT ![h].pc = "post", ![h].seen = balance]
    BY <1>12 DEF LockWallet
  <2>2. /\ proc'[h].pc = "post" /\ proc'[h].op = proc[h].op
        /\ proc'[h].on = proc[h].on /\ proc[h].pc # "idle" /\ status' = status
    BY <1>2, <1>12, <2>1 DEF LockWallet, TypeOK, Local
  <2>3. \A g \in Handler : g # h => proc'[g] = proc[g]
    BY <1>2, <2>1 DEF TypeOK
  <2>4. QED  BY <1>2, <2>2, <2>3 DEF Decides, Grounded
<1>13. CASE PostEntry(h)
  <2>1. \A p \in Payout : p # proc[h].on => status'[p] = status[p]
    BY <1>2, <1>13 DEF PostEntry, StatusAfter, TypeOK
  <2>2. CASE Return(h)
    BY <1>6, <2>1, <2>2
  <2>3. CASE Goto(h, "load") /\ proc[h].op = "withdraw"
    BY <1>2, <2>1, <2>3, OwnGoto, OthersKeep DEF Decides, Grounded
  <2>4. QED  BY <1>13, <2>2, <2>3 DEF PostEntry
<1>14. CASE RecordSent(h) \/ Confirm(h) \/ Crash(h)
  <2>1. \A p \in Payout : p # proc[h].on => status'[p] = status[p]
    BY <1>2, <1>14 DEF RecordSent, Confirm, Crash, TypeOK
  <2>2. QED  BY <1>6, <1>14, <2>1 DEF RecordSent, Confirm, Crash
<1>15. CASE ReadForFail(h)
  <2>1. CASE Return(h)
    BY <1>6, <1>15, <2>1 DEF ReadForFail
  <2>2. CASE /\ status[proc[h].on] \notin {"FAILED", "PAID"}
             /\ proc' = [proc EXCEPT ![h].pc = "lock", ![h].op = "return"]
    <3>1. proc[h].on \in Payout /\ status[proc[h].on] # "NONE"
      BY <1>15 DEF ReadForFail, OutcomeInv, WalletInv, WorksOnPayout, PastDebit
    <3>2. status[proc[h].on] \in Undecided
      BY <1>2, <2>2, <3>1 DEF TypeOK, Status, Undecided
    <3>3. /\ proc'[h].pc = "lock" /\ proc'[h].op = "return"
          /\ proc'[h].on = proc[h].on /\ status' = status
      BY <1>2, <1>15, <2>2 DEF ReadForFail, TypeOK, Local
    <3>4. \A g \in Handler : g # h => proc'[g] = proc[g]
      BY <1>2, <2>2 DEF TypeOK
    <3>5. QED  BY <3>2, <3>3, <3>4 DEF Decides, Grounded
  <2>3. QED  BY <1>15, <2>1, <2>2 DEF ReadForFail
<1>16. QED
  BY <1>1, <1>7, <1>8, <1>9, <1>10, <1>11, <1>12, <1>13, <1>14, <1>15

LEMMA OutcomeStarts == Init /\ disturbed = {} => OutcomeInv
<1> SUFFICES ASSUME Init, disturbed = {} PROVE OutcomeInv
  OBVIOUS
<1>1. WalletInv
  BY InvInit
<1>2. \A h \in Handler : proc[h].pc = "idle" /\ proc[h].on = Nothing
  BY DEF Init, Idle
<1>3. Nothing \notin Payout
  BY WalletAssumption DEF Movement
<1>4. Overlapping \subseteq disturbed /\ DecidesOnce
  BY <1>2, <1>3 DEF Overlapping, DecidesOnce
<1>5. OutcomeInStatus
  BY DEF Init, OutcomeInStatus, Posted
<1>6. QED  BY <1>1, <1>4, <1>5 DEF OutcomeInv

LEMMA OutcomeKept ==
  OutcomeInv /\ [Next /\ Notes]_<<vars, disturbed>> => OutcomeInv'
<1> SUFFICES ASSUME OutcomeInv, [Next /\ Notes]_<<vars, disturbed>>
             PROVE  OutcomeInv'
  OBVIOUS
<1>1. WalletInv'
  BY InvNext DEF OutcomeInv
<1>2. CASE Next /\ Notes
  <2>1. (Overlapping \subseteq disturbed)'
    BY <1>2 DEF Notes
  <2>2. QED  BY <1>1, <1>2, <2>1, OutcomeNext, DecidesNext DEF OutcomeInv
<1>3. CASE UNCHANGED <<vars, disturbed>>
  <2>1. (Overlapping \subseteq disturbed)' /\ DecidesOnce'
    BY <1>3 DEF OutcomeInv, Overlapping, DecidesOnce, vars
  <2>2. OutcomeInStatus'
    BY <1>3 DEF OutcomeInv, OutcomeInStatus, Sending, Posted, vars
  <2>3. QED  BY <1>1, <2>1, <2>2 DEF OutcomeInv
<1>4. QED  BY <1>2, <1>3

\* Remembering takes nothing away: a behaviour with the history is one of the
\* wallet.
LEMMA NotedIsSpec == NotedSpec => Spec
<1>1. [Next /\ Notes]_<<vars, disturbed>> => [Next]_vars
  OBVIOUS
<1>2. QED  BY <1>1, PTL DEF NotedSpec, NotedInit, Spec

\* A withdrawal that was sent is never returned as well, whatever else the
\* wallet does at the same time and wherever requests die, unless two requests
\* worked on it at once or the PAID of a transfer that went out could not be
\* written (payout.service.ts).
THEOREM NeverSentAndReturnedHolds == NotedSpec => []NeverSentAndReturned
<1>1. OutcomeInv => NeverSentAndReturned
  <2>1. SUFFICES ASSUME OutcomeInv, NEW p \in sent \ disturbed, Posted(<<"return", p>>)
                 PROVE  FALSE
    BY DEF NeverSentAndReturned
  <2>2. p \in Payout \ disturbed
    BY <2>1 DEF OutcomeInv, WalletInv, TypeOK
  <2>3. status[p] = "FAILED"
    BY <2>1, <2>2 DEF OutcomeInv, OutcomeInStatus
  <2>4. PICK h \in Handler : Sending(h, p)
    BY <2>1, <2>2, <2>3 DEF OutcomeInv, OutcomeInStatus
  <2>5. status[p] \in Undecided
    BY <2>1, <2>4 DEF OutcomeInv, DecidesOnce, Sending, Undecided
  <2>6. QED  BY <2>3, <2>5 DEF Undecided
<1>2. QED
  BY <1>1, OutcomeStarts, OutcomeKept, PTL DEF NotedSpec, NotedInit
=============================================================================
