-------------------------- MODULE GroupGiftsProofs --------------------------
(***************************************************************************)
(* Proofs about GroupGifts, for any people, keys, amounts, goals, requests *)
(* and number of contributions.                                            *)
(***************************************************************************)
EXTENDS GroupGifts, SumProofs

Paying == {"pay", "provider"}

\* A request pays for a share that exists.
SharesKnown == \A h \in Handler : proc[h].pc \in Paying => proc[h].share \in DOMAIN shares

\* Somebody makes a contribution.
CallersKnown ==
  \A h \in Handler : proc[h].pc = "commit" => proc[h].by \in Person /\ proc[h].key \in Key

\* The goal a contribution was read with is one that the gift has had.
GoalsKnown == \A h \in Handler : proc[h].pc = "commit" => proc[h].goal <= highest

\* A payment that is still open has an open row; the converse fails, because a
\* provider call that throws closes the payment alone.
OpenRows == \A i \in DOMAIN shares : shares[i].payment = "PENDING" => shares[i].row = "PENDING"

\* Only shares have rows in a history.
HistoryOfShares == \A i \in 1 .. MaxShares : history[i] > 0 => i \in DOMAIN shares

IInv ==
  /\ TypeOK
  /\ SharesKnown
  /\ CallersKnown
  /\ GoalsKnown
  /\ OpenRows
  /\ RaisedIsSettled
  /\ NeverOverTheGoals
  /\ HistoryOfShares
  /\ HistoryTellsTheTruth

-----------------------------------------------------------------------------
(***************************************************************************)
(* What steps do to the shares.                                            *)
(***************************************************************************)
LEMMA IdleType == Idle \in Local
BY GroupGiftsAssumption DEF Idle, Local

LEMMA SharesFinite ==
  ASSUME TypeOK
  PROVE  /\ Len(shares) \in Nat
         /\ DOMAIN shares = 1 .. Len(shares)
         /\ IsFiniteSet(DOMAIN shares)
         /\ \A i \in DOMAIN shares : shares[i] \in Share
         /\ \A i \in DOMAIN shares : shares[i].amount \in Nat
<1>1. /\ Len(shares) \in Nat
      /\ DOMAIN shares = 1 .. Len(shares)
      /\ \A i \in DOMAIN shares : shares[i] \in Share
  BY DEF TypeOK
<1>2. IsFiniteSet(DOMAIN shares)
  BY <1>1, FS_Interval
<1>3. QED  BY <1>1, <1>2, GroupGiftsAssumption DEF Share

LEMMA WorthType ==
  ASSUME TypeOK, NEW rows \in SUBSET (DOMAIN shares)
  PROVE  /\ IsFiniteSet(rows)
         /\ \A i \in rows : AmountOf[i] \in Nat
         /\ Worth(rows) \in Nat
<1>1. IsFiniteSet(rows)
  BY SharesFinite, FS_Subset
<1>2. \A i \in rows : AmountOf[i] \in Nat
  BY SharesFinite DEF AmountOf
<1>3. SumFunctionOnSet(AmountOf, rows) \in Nat
  BY <1>1, <1>2, SumNat
<1>4. QED  BY <1>1, <1>2, <1>3 DEF Worth

\* The same of the rows a step leaves behind.
LEMMA WorthLater ==
  ASSUME TypeOK', NEW rows \in SUBSET (DOMAIN shares')
  PROVE  SumFunctionOnSet(AmountOf', rows) \in Nat
<1>1. /\ DOMAIN shares' = 1 .. Len(shares') /\ Len(shares') \in Nat
      /\ \A i \in DOMAIN shares' : shares'[i] \in Share
  BY DEF TypeOK
<1>2. IsFiniteSet(rows)
  <2>1. IsFiniteSet(DOMAIN shares')
    BY <1>1, FS_Interval
  <2>2. QED  BY <2>1, FS_Subset
<1>3. \A i \in rows : AmountOf'[i] \in Nat
  BY <1>1, GroupGiftsAssumption DEF AmountOf, Share
<1>4. QED  BY <1>2, <1>3, SumNat

\* No step rewrites an amount.
AmountsKept ==
  /\ DOMAIN shares \subseteq DOMAIN shares'
  /\ \A i \in DOMAIN shares : shares'[i].amount = shares[i].amount

LEMMA WorthKept ==
  ASSUME TypeOK, AmountsKept, NEW rows \in SUBSET (DOMAIN shares)
  PROVE  SumFunctionOnSet(AmountOf', rows) = Worth(rows)
<1>1. \A i \in rows : AmountOf'[i] = AmountOf[i]
  BY DEF AmountOf, AmountsKept
<1>2. IsFiniteSet(rows)
  BY WorthType
<1>3. QED  BY <1>1, <1>2, SumSame DEF Worth

\* The sums of the invariant, over the rows as they were.
LEMMA SumsKept ==
  ASSUME TypeOK, AmountsKept,
         NEW st \in SUBSET PaymentStatus,
         Rows(st)' = Rows(st)
  PROVE  Worth(Rows(st))' = Worth(Rows(st))
<1>1. Rows(st) \in SUBSET (DOMAIN shares)
  BY DEF Rows
<1>2. QED  BY <1>1, WorthKept DEF Worth

\* An update of one row leaves the others, and their number, alone.
LEMMA RowEdited ==
  ASSUME TypeOK, NEW i \in DOMAIN shares, NEW r \in Share,
         shares' = [shares EXCEPT ![i] = r]
  PROVE  /\ shares' \in Seq(Share) /\ Len(shares') = Len(shares)
         /\ DOMAIN shares' = DOMAIN shares
         /\ shares'[i] = r
         /\ \A j \in DOMAIN shares : j # i => shares'[j] = shares[j]
BY DEF TypeOK

LEMMA RowAdded ==
  ASSUME TypeOK, NEW r \in Share, shares' = Append(shares, r)
  PROVE  /\ shares' \in Seq(Share) /\ Len(shares') = Len(shares) + 1
         /\ DOMAIN shares = 1 .. Len(shares)
         /\ DOMAIN shares' = 1 .. Len(shares) + 1
         /\ shares'[Len(shares) + 1] = r
         /\ \A j \in DOMAIN shares : shares'[j] = shares[j]
BY DEF TypeOK

\* The rows that each action leaves behind.
Pending(h) == [by |-> proc[h].by, key |-> proc[h].key, amount |-> proc[h].amount,
               row |-> "PENDING", payment |-> "PENDING", asked |-> FALSE]
Fresh(h) == shares' = Append(shares, Pending(h))

LEMMA CommitStep ==
  ASSUME TypeOK, NEW h \in Handler, CommitShare(h)
  PROVE  /\ proc[h].pc = "commit"
         /\ UNCHANGED <<gift, members, history, received, highest>>
         /\ \/ /\ UNCHANGED shares
               /\ \E i \in DOMAIN shares :
                    proc' = [proc EXCEPT ![h] = [proc[h] EXCEPT !.pc = "pay", !.share = i]]
            \/ /\ Fresh(h)
               /\ Committed + proc[h].amount <= proc[h].goal
               /\ Len(shares) < MaxShares
               /\ proc' = [proc EXCEPT ![h] =
                             [proc[h] EXCEPT !.pc = "pay", !.share = Len(shares) + 1]]
            \/ UNCHANGED shares /\ proc' = [proc EXCEPT ![h] = Idle]
BY DEF CommitShare, At, Goto, Return, Fresh, Pending

LEMMA TypeInit == Init => TypeOK
<1> SUFFICES ASSUME Init PROVE TypeOK
  OBVIOUS
<1>1. gift \in Gift
  <2>1. PICK g \in Goal : gift = [status |-> "OPEN", target |-> g, raised |-> 0,
                                  revealed |-> FALSE, late |-> FALSE]
    BY DEF Init
  <2>2. QED  BY <2>1 DEF Gift, GiftStatus
<1>2. shares \in Seq(Share) /\ Len(shares) <= MaxShares
  BY GroupGiftsAssumption DEF Init
<1>3. proc \in [Handler -> Local]
  BY IdleType DEF Init
<1>4. highest \in Goal /\ gift.target <= highest
  BY <1>1, GroupGiftsAssumption DEF Init, Gift
<1>5. QED  BY <1>1, <1>2, <1>3, <1>4 DEF Init, TypeOK

LEMMA TypeStep == TypeOK /\ SharesKnown /\ CallersKnown /\ [Next]_vars => TypeOK'
<1> SUFFICES ASSUME TypeOK, SharesKnown, CallersKnown, [Next]_vars PROVE TypeOK'
  OBVIOUS
<1> USE DEF Goto, Return
<1>1. ASSUME NEW h \in Handler, NEW p \in Person, NEW k \in Key, NEW a \in Amount,
             ReadForContribute(h, p, k, a)
      PROVE  TypeOK'
  <2>1. [Idle EXCEPT !.pc = "commit", !.by = p, !.key = k, !.amount = a,
                     !.goal = gift.target] \in Local
    BY IdleType DEF TypeOK, Local, Gift
  <2>2. QED  BY <1>1, <2>1 DEF ReadForContribute, TypeOK
<1>2. ASSUME NEW h \in Handler, CommitShare(h)
      PROVE  TypeOK'
  <2>0. proc[h] \in Local /\ proc[h].pc = "commit"
    BY <1>2 DEF TypeOK, CommitShare, At
  <2>1. CASE UNCHANGED shares
    <3>1. CASE \E i \in DOMAIN shares :
                 proc' = [proc EXCEPT ![h] = [proc[h] EXCEPT !.pc = "pay", !.share = i]]
      <4>1. PICK i \in DOMAIN shares :
              proc' = [proc EXCEPT ![h] = [proc[h] EXCEPT !.pc = "pay", !.share = i]]
        BY <3>1
      <4>2. i \in 0 .. MaxShares
        BY SharesFinite, GroupGiftsAssumption DEF TypeOK
      <4>3. [proc[h] EXCEPT !.pc = "pay", !.share = i] \in Local
        BY <2>0, <4>2 DEF Local
      <4>4. QED  BY <1>2, <2>1, <4>1, <4>3 DEF CommitShare, TypeOK
    <3>2. CASE proc' = [proc EXCEPT ![h] = Idle]
      BY <1>2, <2>1, <3>2, IdleType DEF CommitShare, TypeOK
    <3>3. CASE Fresh(h)
      BY <2>1, <3>3, SharesFinite DEF Fresh, TypeOK
    <3>4. QED  BY <1>2, <3>1, <3>2, <3>3, CommitStep
  <2>2. CASE Fresh(h) /\ Len(shares) < MaxShares
             /\ proc' = [proc EXCEPT ![h] =
                           [proc[h] EXCEPT !.pc = "pay", !.share = Len(shares) + 1]]
    <3>1. Pending(h) \in Share
      <4>1. proc[h].by \in Person /\ proc[h].key \in Key
        BY <1>2, <2>0 DEF CallersKnown
      <4>2. QED  BY <2>0, <4>1 DEF Pending, Share, Local, PaymentStatus
    <3>2. shares' \in Seq(Share) /\ Len(shares') <= MaxShares
      BY <2>2, <3>1, RowAdded, SharesFinite, GroupGiftsAssumption DEF Fresh
    <3>3. Len(shares) + 1 \in 0 .. MaxShares
      BY <2>2, SharesFinite, GroupGiftsAssumption
    <3>4. [proc[h] EXCEPT !.pc = "pay", !.share = Len(shares) + 1] \in Local
      BY <2>0, <3>3 DEF Local
    <3>5. QED  BY <1>2, <2>2, <3>2, <3>4 DEF CommitShare, TypeOK
  <2>3. QED  BY <1>2, <2>1, <2>2, CommitStep
<1>3. ASSUME NEW h \in Handler, ReadPayment(h)
      PROVE  TypeOK'
  <2>1. [proc[h] EXCEPT !.pc = "provider"] \in Local
    BY DEF TypeOK, Local
  <2>2. QED  BY <1>3, <2>1, IdleType DEF ReadPayment, TypeOK
<1>4. ASSUME NEW h \in Handler, ProviderAccepts(h) \/ ProviderFails(h)
      PROVE  TypeOK'
  <2> DEFINE i == proc[h].share
  <2>1. i \in DOMAIN shares
    BY <1>4 DEF ProviderAccepts, ProviderFails, At, SharesKnown, Paying
  <2>2. /\ [shares[i] EXCEPT !.asked = TRUE] \in Share
        /\ [shares[i] EXCEPT !.payment = "FAILED"] \in Share
    BY <2>1, SharesFinite DEF Share, PaymentStatus
  <2>3. PICK r \in Share : shares' = [shares EXCEPT ![i] = r]
    BY <1>4, <2>2 DEF ProviderAccepts, ProviderFails
  <2>4. shares' \in Seq(Share) /\ Len(shares') = Len(shares)
    BY <2>1, <2>3, RowEdited
  <2>5. QED  BY <1>4, <2>4, IdleType DEF ProviderAccepts, ProviderFails, TypeOK
<1>5. ASSUME NEW i \in DOMAIN shares, SettleContribution(i) \/ PaymentFails(i)
      PROVE  TypeOK'
  <2>1. /\ [shares[i] EXCEPT !.payment = "SUCCESSFUL", !.row = "SUCCESSFUL"] \in Share
        /\ [shares[i] EXCEPT !.payment = "FAILED", !.row = "FAILED"] \in Share
    BY SharesFinite DEF Share, PaymentStatus
  <2>2. PICK r \in Share : shares' = [shares EXCEPT ![i] = r]
    BY <1>5, <2>1 DEF SettleContribution, PaymentFails
  <2>3. shares' \in Seq(Share) /\ Len(shares') = Len(shares)
    BY <2>2, RowEdited
  <2>4. gift' \in Gift /\ gift'.target = gift.target
    <3>1. CASE PaymentFails(i)
      BY <3>1 DEF PaymentFails, TypeOK
    <3>2. CASE SettleContribution(i)
      <4>1. gift.raised + shares[i].amount \in Nat
        BY SharesFinite DEF TypeOK, Gift
      <4>2. StatusAt(gift.raised + shares[i].amount) \in GiftStatus
        BY DEF StatusAt, TypeOK, Gift, GiftStatus
      <4>3. QED  BY <3>2, <4>1, <4>2 DEF SettleContribution, TypeOK, Gift
    <3>3. QED  BY <1>5, <3>1, <3>2
  <2>5. shares[i].by \in Person
    BY SharesFinite DEF Share
  <2>6. QED
    BY <1>5, <2>3, <2>4, <2>5 DEF SettleContribution, PaymentFails, TypeOK
<1>6. ASSUME NEW h \in Handler, NEW g \in Goal, ReadForUpdate(h, g)
      PROVE  TypeOK'
  <2>1. [Idle EXCEPT !.pc = "update", !.goal = g] \in Local
    BY IdleType DEF Local
  <2>2. QED  BY <1>6, <2>1 DEF ReadForUpdate, TypeOK
<1>7. ASSUME NEW h \in Handler, UpdateGroupGift(h)
      PROVE  TypeOK'
  <2>1. proc[h].goal \in Goal
    BY DEF TypeOK, Local
  <2>2. gift' \in Gift /\ gift'.target = proc[h].goal
    BY <1>7, <2>1 DEF UpdateGroupGift, TypeOK, Gift
  <2>3. highest' \in Goal /\ gift'.target <= highest'
    BY <1>7, <2>1, <2>2, GroupGiftsAssumption DEF UpdateGroupGift, TypeOK
  <2>4. QED  BY <1>7, <2>2, <2>3, IdleType DEF UpdateGroupGift, TypeOK
<1>8. ASSUME DeadlinePasses
      PROVE  TypeOK'
  BY <1>8 DEF DeadlinePasses, TypeOK, Gift
<1>9. ASSUME NEW h \in Handler, NEW pc \in {"cancel", "purchase", "reveal"},
             ReadForClose(h, pc)
      PROVE  TypeOK'
  <2>1. [Idle EXCEPT !.pc = pc] \in Local
    BY IdleType DEF Local
  <2>2. QED  BY <1>9, <2>1 DEF ReadForClose, TypeOK
<1>10. ASSUME NEW h \in Handler, CancelGroupGift(h) \/ MarkGroupGiftPurchased(h)
       PROVE  TypeOK'
  <2>1. gift' \in Gift /\ gift'.target = gift.target
    BY <1>10 DEF CancelGroupGift, MarkGroupGiftPurchased, TypeOK, Gift, GiftStatus
  <2>2. QED
    BY <1>10, <2>1, IdleType DEF CancelGroupGift, MarkGroupGiftPurchased, TypeOK
<1>11. ASSUME NEW h \in Handler, RevealGroupGift(h)
       PROVE  TypeOK'
  <2>1. gift' \in Gift /\ gift'.target = gift.target
    BY <1>11 DEF RevealGroupGift, TypeOK, Gift, GiftStatus
  <2>2. history' \in [1 .. MaxShares -> Nat]
    BY <1>11 DEF RevealGroupGift, TypeOK
  <2>3. received' \in Nat
    BY <1>11 DEF RevealGroupGift, TypeOK, Gift
  <2>4. QED  BY <1>11, <2>1, <2>2, <2>3, IdleType DEF RevealGroupGift, TypeOK
<1>12. ASSUME NEW h \in Handler, NEW p \in Person,
              InviteToGroupGift(h, p) \/ ReadForLeave(h, p)
       PROVE  TypeOK'
  <2>1. [Idle EXCEPT !.pc = "leave", !.by = p] \in Local
    BY IdleType DEF Local
  <2>2. QED  BY <1>12, <2>1 DEF InviteToGroupGift, ReadForLeave, TypeOK
<1>13. ASSUME NEW h \in Handler, LeaveGroupGift(h) \/ Crash(h)
       PROVE  TypeOK'
  BY <1>13, IdleType DEF LeaveGroupGift, Crash, TypeOK
<1>14. CASE UNCHANGED vars
  BY <1>14 DEF vars, TypeOK
<1>15. QED
  BY <1>1, <1>2, <1>3, <1>4, <1>5, <1>6, <1>7, <1>8, <1>9, <1>10, <1>11, <1>12,
     <1>13, <1>14 DEF Next, Request, Continue

-----------------------------------------------------------------------------
(***************************************************************************)
(* Which steps touch the money, and how.                                   *)
(***************************************************************************)
\* What a reveal writes: rows that the unique index lets in.
WritesHistory ==
  /\ gift'.revealed /\ UNCHANGED shares
  /\ \E new \in SUBSET DOMAIN shares :
       /\ RowsThatGetIn(new)
       /\ history' = [i \in 1 .. MaxShares |-> IF i \in new THEN history[i] + 1
                                                          ELSE history[i]]
  /\ received' = IF gift.revealed THEN received ELSE gift.raised

\* Every step but five leaves the shares, the total and the history alone, or
\* writes the history from the rows.
Aside ==
  /\ UNCHANGED shares
  /\ gift'.raised = gift.raised
  /\ gift.revealed => gift'.revealed
  /\ highest <= highest'
  /\ UNCHANGED <<history, received>> \/ WritesHistory

LEMMA AsideStep ==
  ASSUME TypeOK, [Next]_vars
  PROVE  \/ Aside
         \/ \E h \in Handler : CommitShare(h) \/ ProviderAccepts(h) \/ ProviderFails(h)
         \/ \E i \in DOMAIN shares : SettleContribution(i) \/ PaymentFails(i)
<1> USE DEF Aside, TypeOK, Gift
<1>1. highest \in Int
  BY GroupGiftsAssumption
<1>2. ASSUME NEW h \in Handler, Request(h)  PROVE Aside
  <2>1. UNCHANGED <<gift, shares, history, received, highest>>
    BY <1>2 DEF Request, ReadForContribute, InviteToGroupGift, ReadForLeave,
                ReadForUpdate, ReadForClose
  <2>2. QED  BY <1>1, <2>1
<1>3. ASSUME NEW h \in Handler, UpdateGroupGift(h)  PROVE Aside
  <2>1. proc[h].goal \in Goal
    BY DEF Local
  <2>2. highest <= highest'
    BY <1>1, <1>3, <2>1, GroupGiftsAssumption DEF UpdateGroupGift
  <2>3. gift'.raised = gift.raised /\ gift'.revealed = gift.revealed
    BY <1>3 DEF UpdateGroupGift
  <2>4. QED  BY <1>3, <2>2, <2>3 DEF UpdateGroupGift
<1>4. ASSUME NEW h \in Handler, RevealGroupGift(h)  PROVE Aside
  <2>1. gift'.raised = gift.raised /\ gift'.revealed
    BY <1>4 DEF RevealGroupGift
  <2>2. WritesHistory
    BY <1>4, <2>1 DEF RevealGroupGift, WritesHistory
  <2>3. QED  BY <1>1, <1>4, <2>1, <2>2 DEF RevealGroupGift
<1>5. ASSUME NEW h \in Handler, ReadPayment(h) \/ CancelGroupGift(h)
                                  \/ MarkGroupGiftPurchased(h) \/ LeaveGroupGift(h)
      PROVE  Aside
  BY <1>1, <1>5 DEF ReadPayment, CancelGroupGift, MarkGroupGiftPurchased, LeaveGroupGift
<1>6. ASSUME NEW h \in Handler, Crash(h)  PROVE Aside
  BY <1>1, <1>6 DEF Crash
<1>7. CASE DeadlinePasses
  BY <1>1, <1>7 DEF DeadlinePasses
<1>8. CASE UNCHANGED vars
  BY <1>1, <1>8 DEF vars
<1>9. QED
  BY <1>2, <1>3, <1>4, <1>5, <1>6, <1>7, <1>8 DEF Next, Continue

\* A provider's answer touches neither a row's status nor an open payment,
\* unless it closes it.
LEMMA ProviderStep ==
  ASSUME TypeOK, SharesKnown, NEW h \in Handler, ProviderAccepts(h) \/ ProviderFails(h)
  PROVE  /\ AmountsKept /\ DOMAIN shares' = DOMAIN shares
         /\ UNCHANGED <<gift, history, received, highest>>
         /\ \A j \in DOMAIN shares :
              /\ shares'[j].row = shares[j].row /\ shares'[j].by = shares[j].by
              /\ shares'[j].payment \in {shares[j].payment, "FAILED"}
<1> DEFINE i == proc[h].share
<1>1. i \in DOMAIN shares
  BY DEF ProviderAccepts, ProviderFails, At, SharesKnown, Paying
<1>2. /\ [shares[i] EXCEPT !.asked = TRUE] \in Share
      /\ [shares[i] EXCEPT !.payment = "FAILED"] \in Share
  BY <1>1, SharesFinite DEF Share, PaymentStatus
<1> HIDE DEF i
<1>3. PICK r \in {[shares[i] EXCEPT !.asked = TRUE], [shares[i] EXCEPT !.payment = "FAILED"]} :
        shares' = [shares EXCEPT ![i] = r]
  BY DEF ProviderAccepts, ProviderFails, i
<1>4. /\ DOMAIN shares' = DOMAIN shares /\ shares'[i] = r
      /\ \A j \in DOMAIN shares : j # i => shares'[j] = shares[j]
  BY <1>1, <1>2, <1>3, RowEdited
<1>5. /\ r.amount = shares[i].amount /\ r.row = shares[i].row /\ r.by = shares[i].by
      /\ r.payment \in {shares[i].payment, "FAILED"}
  BY <1>1, <1>2, <1>3, SharesFinite DEF Share
<1>6. UNCHANGED <<gift, history, received, highest>>
  BY DEF ProviderAccepts, ProviderFails
<1>7. QED  BY <1>4, <1>5, <1>6 DEF AmountsKept

LEMMA CloseStep ==
  ASSUME TypeOK, NEW i \in DOMAIN shares, NEW st \in {"SUCCESSFUL", "FAILED"},
         shares' = [shares EXCEPT ![i].payment = st, ![i].row = st]
  PROVE  /\ AmountsKept /\ DOMAIN shares' = DOMAIN shares
         /\ shares'[i] = [shares[i] EXCEPT !.payment = st, !.row = st]
         /\ shares'[i].row = st /\ shares'[i].payment = st
         /\ shares'[i].by = shares[i].by
         /\ \A j \in DOMAIN shares : j # i => shares'[j] = shares[j]
<1> DEFINE r == [shares[i] EXCEPT !.payment = st, !.row = st]
<1>1. r \in Share /\ shares' = [shares EXCEPT ![i] = r]
  BY SharesFinite DEF Share, PaymentStatus
<1>2. /\ r.amount = shares[i].amount /\ r.by = shares[i].by
      /\ r.row = st /\ r.payment = st
  BY SharesFinite DEF Share
<1> HIDE DEF r
<1>3. /\ DOMAIN shares' = DOMAIN shares /\ shares'[i] = r
      /\ \A j \in DOMAIN shares : j # i => shares'[j] = shares[j]
  BY <1>1, RowEdited
<1>4. AmountsKept
  BY <1>2, <1>3 DEF AmountsKept
<1>5. QED  BY <1>2, <1>3, <1>4 DEF r

LEMMA FreshStep ==
  ASSUME TypeOK, NEW h \in Handler, Fresh(h),
         proc[h].by \in Person /\ proc[h].key \in Key
  PROVE  /\ AmountsKept
         /\ Len(shares) + 1 \notin DOMAIN shares
         /\ DOMAIN shares' = DOMAIN shares \union {Len(shares) + 1}
         /\ shares'[Len(shares) + 1] = Pending(h)
         /\ Pending(h) \in Share
         /\ \A j \in DOMAIN shares : shares'[j] = shares[j]
<1>1. Pending(h) \in Share
  BY DEF TypeOK, Local, Share, Pending, PaymentStatus
<1>2. /\ DOMAIN shares = 1 .. Len(shares) /\ Len(shares) \in Nat
      /\ DOMAIN shares' = 1 .. Len(shares) + 1
      /\ shares'[Len(shares) + 1] = Pending(h)
      /\ \A j \in DOMAIN shares : shares'[j] = shares[j]
  BY <1>1, RowAdded, SharesFinite DEF Fresh
<1>3. QED  BY <1>1, <1>2 DEF AmountsKept

-----------------------------------------------------------------------------
(***************************************************************************)
(* The bookkeeping of requests.                                            *)
(***************************************************************************)
\* A request goes on with what it knew, or with something it has just read.
Knows(h) ==
  \/ proc'[h] = proc[h]
  \/ proc'[h].pc \notin {"commit", "pay", "provider"}
  \/ /\ proc'[h].pc = "commit" /\ proc'[h].by \in Person /\ proc'[h].key \in Key
     /\ proc'[h].goal = gift.target
  \/ proc'[h].pc = "pay" /\ proc'[h].share \in DOMAIN shares'
  \/ /\ proc'[h].pc = "provider" /\ proc[h].pc = "pay"
     /\ proc'[h].share = proc[h].share

LEMMA KnowledgeStep ==
  ASSUME TypeOK, CallersKnown, [Next]_vars, NEW h \in Handler
  PROVE  Knows(h)
<1> USE DEF Knows, Goto, Return
<1>1. Idle \in Local /\ Idle.pc = "idle"
  BY IdleType DEF Idle
<1>2. ASSUME NEW k \in Handler, Request(k)  PROVE Knows(h)
  <2>1. CASE k # h \/ UNCHANGED proc
    BY <1>2, <2>1 DEF TypeOK, Request, ReadForContribute, InviteToGroupGift, ReadForLeave,
                      ReadForUpdate, ReadForClose
  <2>2. ASSUME NEW p \in Person, NEW i \in Key, NEW a \in Amount,
               ReadForContribute(h, p, i, a)
        PROVE  Knows(h)
    <3> DEFINE l == [Idle EXCEPT !.pc = "commit", !.by = p, !.key = i, !.amount = a,
                                 !.goal = gift.target]
    <3>1. l.pc = "commit" /\ l.by \in Person /\ l.key \in Key /\ l.goal = gift.target
      BY <1>1 DEF Local
    <3>2. proc'[h] = l
      BY <2>2 DEF ReadForContribute, TypeOK
    <3> HIDE DEF l
    <3>3. QED  BY <3>1, <3>2
  <2>3. ASSUME NEW p \in Person, ReadForLeave(h, p)  PROVE Knows(h)
    <3>1. [Idle EXCEPT !.pc = "leave", !.by = p].pc = "leave"
      BY <1>1 DEF Local
    <3>2. QED  BY <2>3, <3>1 DEF ReadForLeave, TypeOK
  <2>4. ASSUME NEW g \in Goal, ReadForUpdate(h, g)  PROVE Knows(h)
    <3>1. [Idle EXCEPT !.pc = "update", !.goal = g].pc = "update"
      BY <1>1 DEF Local
    <3>2. QED  BY <2>4, <3>1 DEF ReadForUpdate, TypeOK
  <2>5. ASSUME NEW pc \in {"cancel", "purchase", "reveal"}, ReadForClose(h, pc)
        PROVE  Knows(h)
    <3>1. [Idle EXCEPT !.pc = pc].pc = pc
      BY <1>1 DEF Local
    <3>2. QED  BY <2>5, <3>1 DEF ReadForClose, TypeOK
  <2>6. ASSUME NEW p \in Person, InviteToGroupGift(k, p)  PROVE Knows(h)
    BY <2>6 DEF InviteToGroupGift
  <2>7. QED  BY <1>2, <2>1, <2>2, <2>3, <2>4, <2>5, <2>6 DEF Request
<1>3. ASSUME NEW k \in Handler, CommitShare(k)  PROVE Knows(h)
  <2>1. CASE k # h
    BY <1>3, <2>1 DEF CommitShare, TypeOK
  <2>2. CASE k = h
    <3>0. proc[h] \in Local /\ proc[h].by \in Person /\ proc[h].key \in Key
      BY <1>3, <2>2 DEF TypeOK, CommitShare, At, CallersKnown
    <3>1. ASSUME NEW i, proc' = [proc EXCEPT ![h] = [proc[h] EXCEPT !.pc = "pay", !.share = i]]
          PROVE  proc'[h].pc = "pay" /\ proc'[h].share = i
      BY <3>0, <3>1 DEF TypeOK, Local
    <3>2. CASE Fresh(h) /\ proc' = [proc EXCEPT ![h] =
                             [proc[h] EXCEPT !.pc = "pay", !.share = Len(shares) + 1]]
      BY <3>0, <3>1, <3>2, FreshStep
    <3>3. CASE UNCHANGED shares /\ proc' = [proc EXCEPT ![h] = Idle]
      BY <1>1, <3>3 DEF TypeOK
    <3>4. CASE UNCHANGED shares /\ \E i \in DOMAIN shares :
                 proc' = [proc EXCEPT ![h] = [proc[h] EXCEPT !.pc = "pay", !.share = i]]
      BY <3>1, <3>4
    <3>5. QED  BY <1>3, <2>2, <3>2, <3>3, <3>4, CommitStep
  <2>3. QED  BY <2>1, <2>2
<1>4. ASSUME NEW k \in Handler, ReadPayment(k)  PROVE Knows(h)
  <2>1. [proc[k] EXCEPT !.pc = "provider"].pc = "provider"
        /\ [proc[k] EXCEPT !.pc = "provider"].share = proc[k].share
    BY DEF TypeOK, Local
  <2>2. QED  BY <1>1, <1>4, <2>1 DEF ReadPayment, At, TypeOK
<1>5. ASSUME NEW k \in Handler, proc' = [proc EXCEPT ![k] = Idle]  PROVE Knows(h)
  BY <1>1, <1>5 DEF TypeOK
<1>6. CASE UNCHANGED proc
  BY <1>6
<1>7. ASSUME NEW k \in Handler, Continue(k) \/ Crash(k)  PROVE Knows(h)
  BY <1>3, <1>4, <1>5, <1>7
     DEF Continue, ProviderAccepts, ProviderFails, UpdateGroupGift, CancelGroupGift,
         MarkGroupGiftPurchased, RevealGroupGift, LeaveGroupGift, Crash
<1>8. QED
  BY <1>2, <1>6, <1>7 DEF Next, vars, SettleContribution, PaymentFails, DeadlinePasses

LEMMA BookkeepingStep ==
  ASSUME TypeOK, SharesKnown, CallersKnown, GoalsKnown, OpenRows, [Next]_vars
  PROVE  SharesKnown' /\ CallersKnown' /\ GoalsKnown' /\ OpenRows'
<1>1. DOMAIN shares \subseteq DOMAIN shares' /\ OpenRows'
  <2>1. CASE Aside
    BY <2>1 DEF Aside, OpenRows
  <2>2. ASSUME NEW h \in Handler, CommitShare(h)
        PROVE  DOMAIN shares \subseteq DOMAIN shares' /\ OpenRows'
    <3>1. CASE UNCHANGED shares
      BY <3>1 DEF OpenRows
    <3>2. CASE Fresh(h)
      <4>1. proc[h].by \in Person /\ proc[h].key \in Key
        BY <2>2 DEF CommitShare, At, CallersKnown
      <4>2. Pending(h).row = "PENDING"
        BY DEF Pending
      <4>3. QED  BY <3>2, <4>1, <4>2, FreshStep DEF OpenRows
    <3>3. QED  BY <2>2, <3>1, <3>2, CommitStep
  <2>3. ASSUME NEW h \in Handler, ProviderAccepts(h) \/ ProviderFails(h)
        PROVE  DOMAIN shares \subseteq DOMAIN shares' /\ OpenRows'
    BY <2>3, ProviderStep DEF OpenRows
  <2>4. ASSUME NEW i \in DOMAIN shares, SettleContribution(i) \/ PaymentFails(i)
        PROVE  DOMAIN shares \subseteq DOMAIN shares' /\ OpenRows'
    <3>1. PICK st \in {"SUCCESSFUL", "FAILED"} :
            shares' = [shares EXCEPT ![i].payment = st, ![i].row = st]
      BY <2>4 DEF SettleContribution, PaymentFails
    <3>2. shares'[i].payment # "PENDING"
      BY <3>1, CloseStep
    <3>3. QED  BY <3>1, <3>2, CloseStep DEF OpenRows
  <2>5. QED  BY <2>1, <2>2, <2>3, <2>4, AsideStep
<1>2. gift.target <= highest /\ highest <= highest'
  <2>1. highest \in Int
    BY GroupGiftsAssumption DEF TypeOK
  <2>2. QED
    <3>1. Aside \/ UNCHANGED highest
      BY AsideStep DEF CommitShare, ProviderAccepts, ProviderFails,
                       SettleContribution, PaymentFails
    <3>2. QED  BY <2>1, <3>1 DEF Aside, TypeOK
<1>3. ASSUME NEW h \in Handler
      PROVE  /\ proc'[h].pc \in Paying => proc'[h].share \in DOMAIN shares'
             /\ proc'[h].pc = "commit" =>
                  proc'[h].by \in Person /\ proc'[h].key \in Key /\ proc'[h].goal <= highest'
  <2>1. /\ proc[h].pc \in Paying => proc[h].share \in DOMAIN shares'
        /\ proc[h].pc = "commit" =>
             proc[h].by \in Person /\ proc[h].key \in Key /\ proc[h].goal <= highest'
    <3>1. proc[h].goal \in Nat /\ highest \in Nat /\ highest' \in Nat
      BY TypeStep, GroupGiftsAssumption DEF TypeOK, Local
    <3>2. QED  BY <1>1, <1>2, <3>1 DEF SharesKnown, CallersKnown, GoalsKnown
  <2>2. gift.target <= highest'
    <3>1. gift.target \in Nat /\ highest \in Nat /\ highest' \in Nat
      BY TypeStep, GroupGiftsAssumption DEF TypeOK, Gift
    <3>2. QED  BY <1>2, <3>1
  <2>3. QED  BY <2>1, <2>2, KnowledgeStep DEF Knows, Paying
<1>4. QED  BY <1>1, <1>3 DEF SharesKnown, CallersKnown, GoalsKnown

-----------------------------------------------------------------------------
(***************************************************************************)
(* The money.                                                              *)
(***************************************************************************)
Settled == Rows({"SUCCESSFUL"})
Counted == Rows({"PENDING", "SUCCESSFUL"})

\* How each step changes the sets of rows that are summed.
LEMMA RowsStep ==
  ASSUME TypeOK, SharesKnown, CallersKnown, OpenRows, [Next]_vars
  PROVE  /\ AmountsKept
         /\ \/ Settled' = Settled /\ Counted' = Counted
               /\ gift'.raised = gift.raised
            \/ \E h \in Handler :
                 /\ proc[h].pc = "commit" /\ Committed + proc[h].amount <= proc[h].goal
                 /\ UNCHANGED <<gift, highest>>
                 /\ Settled' = Settled
                 /\ Len(shares) + 1 \notin DOMAIN shares
                 /\ DOMAIN shares' = DOMAIN shares \union {Len(shares) + 1}
                 /\ Counted' = Counted \union {Len(shares) + 1}
                 /\ AmountOf'[Len(shares) + 1] = proc[h].amount
            \/ \E i \in DOMAIN shares :
                 /\ Settled' = Settled \union {i} /\ i \notin Settled
                 /\ Counted' = Counted
                 /\ gift'.raised = gift.raised + shares[i].amount
                 /\ UNCHANGED highest
            \/ \E i \in DOMAIN shares :
                 /\ Settled' = Settled /\ Counted' = Counted \ {i}
                 /\ UNCHANGED <<gift, highest>>
<1> USE DEF Settled, Counted, Rows
<1>1. CASE Aside
  BY <1>1 DEF Aside, AmountsKept
<1>2. ASSUME NEW h \in Handler, CommitShare(h), Fresh(h),
             Committed + proc[h].amount <= proc[h].goal
      PROVE  /\ AmountsKept /\ proc[h].pc = "commit"
             /\ UNCHANGED <<gift, highest>>
             /\ Settled' = Settled
             /\ Len(shares) + 1 \notin DOMAIN shares
             /\ DOMAIN shares' = DOMAIN shares \union {Len(shares) + 1}
             /\ Counted' = Counted \union {Len(shares) + 1}
             /\ AmountOf'[Len(shares) + 1] = proc[h].amount
  <2>1. proc[h].by \in Person /\ proc[h].key \in Key
    BY <1>2 DEF CommitShare, At, CallersKnown
  <2> DEFINE n == Len(shares) + 1
  <2>2. /\ AmountsKept /\ n \notin DOMAIN shares
        /\ DOMAIN shares' = DOMAIN shares \union {n}
        /\ shares'[n] = Pending(h)
        /\ \A j \in DOMAIN shares : shares'[j] = shares[j]
    BY <1>2, <2>1, FreshStep
  <2>3. Pending(h).row = "PENDING" /\ Pending(h).amount = proc[h].amount
    BY DEF Pending
  <2> HIDE DEF n
  <2>4. Settled' = Settled /\ Counted' = Counted \union {n}
    BY <2>2, <2>3
  <2>5. AmountOf'[n] = proc[h].amount
    BY <2>2, <2>3 DEF AmountOf
  <2>6. QED  BY <1>2, <2>2, <2>4, <2>5 DEF n, CommitShare, At
<1>3. ASSUME NEW h \in Handler, CommitShare(h), UNCHANGED shares
      PROVE  /\ AmountsKept /\ Settled' = Settled /\ Counted' = Counted
             /\ gift'.raised = gift.raised
  BY <1>3 DEF CommitShare, AmountsKept
<1>4. ASSUME NEW h \in Handler, ProviderAccepts(h) \/ ProviderFails(h)
      PROVE  /\ AmountsKept /\ Settled' = Settled /\ Counted' = Counted
             /\ gift'.raised = gift.raised
  BY <1>4, ProviderStep
<1>5. ASSUME NEW i \in DOMAIN shares, SettleContribution(i)
      PROVE  /\ AmountsKept
             /\ Settled' = Settled \union {i} /\ i \notin Settled
             /\ Counted' = Counted
             /\ gift'.raised = gift.raised + shares[i].amount
             /\ UNCHANGED highest
  <2>1. shares[i].row = "PENDING"
    BY <1>5 DEF SettleContribution, Settleable, OpenRows
  <2>2. shares' = [shares EXCEPT ![i].payment = "SUCCESSFUL", ![i].row = "SUCCESSFUL"]
    BY <1>5 DEF SettleContribution
  <2>3. /\ AmountsKept /\ DOMAIN shares' = DOMAIN shares
        /\ shares'[i].row = "SUCCESSFUL"
        /\ \A j \in DOMAIN shares : j # i => shares'[j] = shares[j]
    BY <2>2, CloseStep
  <2>4. gift'.raised = gift.raised + shares[i].amount /\ UNCHANGED highest
    BY <1>5 DEF SettleContribution, TypeOK, Gift
  <2>5. QED  BY <2>1, <2>3, <2>4
<1>6. ASSUME NEW i \in DOMAIN shares, PaymentFails(i)
      PROVE  /\ AmountsKept
             /\ Settled' = Settled /\ Counted' = Counted \ {i}
             /\ UNCHANGED <<gift, highest>>
  <2>1. shares[i].row = "PENDING"
    BY <1>6 DEF PaymentFails, Settleable, OpenRows
  <2>2. shares' = [shares EXCEPT ![i].payment = "FAILED", ![i].row = "FAILED"]
    BY <1>6 DEF PaymentFails
  <2>3. /\ AmountsKept /\ DOMAIN shares' = DOMAIN shares
        /\ shares'[i].row = "FAILED"
        /\ \A j \in DOMAIN shares : j # i => shares'[j] = shares[j]
    BY <2>2, CloseStep
  <2>4. UNCHANGED <<gift, highest>>
    BY <1>6 DEF PaymentFails
  <2>5. QED  BY <2>1, <2>3, <2>4
<1> HIDE DEF Settled, Counted, Rows
<1>7. CASE \E h \in Handler : CommitShare(h)
  BY <1>2, <1>3, <1>7, CommitStep
<1>8. CASE \E h \in Handler : ProviderAccepts(h) \/ ProviderFails(h)
  BY <1>4, <1>8
<1>9. CASE \E i \in DOMAIN shares : SettleContribution(i) \/ PaymentFails(i)
  BY <1>5, <1>6, <1>9
<1>10. CASE Aside
  BY <1>1, <1>10 DEF Aside, Settled, Counted, Rows
<1>11. QED  BY <1>7, <1>8, <1>9, <1>10, AsideStep

LEMMA MoneyStep ==
  ASSUME IInv, [Next]_vars
  PROVE  RaisedIsSettled' /\ NeverOverTheGoals'
<1> DEFINE S(f, R) == SumFunctionOnSet(f, R)
<1>1. /\ TypeOK /\ SharesKnown /\ CallersKnown /\ OpenRows /\ GoalsKnown
      /\ gift.raised = S(AmountOf, Settled) /\ S(AmountOf, Counted) <= highest
  BY DEF IInv, RaisedIsSettled, NeverOverTheGoals, Committed, Worth, Settled, Counted
<1>2. SUFFICES gift'.raised = S(AmountOf', Settled') /\ S(AmountOf', Counted') <= highest'
  BY DEF RaisedIsSettled, NeverOverTheGoals, Committed, Worth, Settled, Counted
<1>3. TypeOK'
  BY <1>1, TypeStep
<1>4. Settled \in SUBSET (DOMAIN shares) /\ Counted \in SUBSET (DOMAIN shares)
  BY DEF Settled, Counted, Rows
<1>5. AmountsKept
  BY <1>1, RowsStep
<1>6. \A R \in SUBSET (DOMAIN shares) :
        /\ IsFiniteSet(R) /\ S(AmountOf, R) \in Nat
        /\ S(AmountOf', R) = S(AmountOf, R)
        /\ \A x \in R : AmountOf[x] \in Nat
  BY <1>1, <1>5, WorthKept, WorthType DEF Worth
<1>7. highest <= highest' /\ highest \in Nat /\ highest' \in Nat
  <2>1. highest \in Nat /\ highest' \in Nat
    BY <1>1, <1>3, GroupGiftsAssumption DEF TypeOK
  <2>2. Aside \/ UNCHANGED highest
    BY <1>1, AsideStep DEF CommitShare, ProviderAccepts, ProviderFails,
                           SettleContribution, PaymentFails
  <2>3. QED  BY <2>1, <2>2 DEF Aside
<1>8. CASE Settled' = Settled /\ Counted' = Counted /\ gift'.raised = gift.raised
  <2>1. S(AmountOf', Settled') = S(AmountOf, Settled)
        /\ S(AmountOf', Counted') = S(AmountOf, Counted)
    BY <1>4, <1>6, <1>8
  <2>2. QED  BY <1>1, <1>4, <1>6, <1>7, <1>8, <2>1
<1>9. ASSUME NEW h \in Handler,
             proc[h].pc = "commit", Committed + proc[h].amount <= proc[h].goal,
             UNCHANGED <<gift, highest>>,
             Settled' = Settled,
             Len(shares) + 1 \notin DOMAIN shares,
             DOMAIN shares' = DOMAIN shares \union {Len(shares) + 1},
             Counted' = Counted \union {Len(shares) + 1},
             AmountOf'[Len(shares) + 1] = proc[h].amount
      PROVE  gift'.raised = S(AmountOf', Settled') /\ S(AmountOf', Counted') <= highest'
  <2> DEFINE n == Len(shares) + 1
  <2>1. proc[h].amount \in Nat /\ proc[h].goal \in Nat /\ proc[h].goal <= highest
    BY <1>1, <1>9, GroupGiftsAssumption DEF GoalsKnown, TypeOK, Local
  <2>2. Committed = S(AmountOf, Counted)
    BY DEF Committed, Worth, Counted
  <2>3. \A x \in Counted \union {n} : AmountOf'[x] \in Int
    <3>1. ASSUME NEW x \in Counted  PROVE AmountOf'[x] \in Nat
      <4>1. x \in DOMAIN shares /\ x \in DOMAIN shares'
        BY <1>4, <1>9
      <4>2. AmountOf'[x] = shares[x].amount
        BY <1>5, <4>1 DEF AmountsKept, AmountOf
      <4>3. QED  BY <1>1, <4>1, <4>2, SharesFinite
    <3>2. AmountOf'[n] \in Nat
      BY <1>9, <2>1
    <3> HIDE DEF n
    <3>3. QED  BY <3>1, <3>2
  <2> HIDE DEF S
  <2>4. SumFunctionOnSet(AmountOf', Counted \union {n})
          = AmountOf'[n] + SumFunctionOnSet(AmountOf', Counted)
    BY <1>4, <1>6, <1>9, <2>3, SumAdd
  <2> USE DEF S
  <2>5. S(AmountOf', Counted') = proc[h].amount + S(AmountOf, Counted)
    BY <1>4, <1>6, <1>9, <2>4
  <2> HIDE DEF S
  <2>6. S(AmountOf', Counted') <= highest'
    BY <1>4, <1>6, <1>7, <1>9, <2>1, <2>2, <2>5
  <2>7. QED  BY <1>1, <1>4, <1>6, <1>9, <2>6
<1>10. ASSUME NEW i \in DOMAIN shares,
              Settled' = Settled \union {i}, i \notin Settled,
              Counted' = Counted,
              gift'.raised = gift.raised + shares[i].amount,
              UNCHANGED highest
       PROVE  gift'.raised = S(AmountOf', Settled') /\ S(AmountOf', Counted') <= highest'
  <2>1. {i} \union Settled \in SUBSET (DOMAIN shares)
    BY <1>4
  <2>2. SumFunctionOnSet(AmountOf, Settled \union {i})
          = AmountOf[i] + SumFunctionOnSet(AmountOf, Settled)
    BY <1>4, <1>6, <1>10, <2>1, SumAdd
  <2>3. AmountOf[i] = shares[i].amount /\ AmountOf[i] \in Nat
    BY <1>6, <1>10, <2>1 DEF AmountOf
  <2>4. S(AmountOf', Settled') = shares[i].amount + S(AmountOf, Settled)
    BY <1>6, <1>10, <2>1, <2>2, <2>3
  <2>5. S(AmountOf', Counted') = S(AmountOf, Counted)
    BY <1>4, <1>6, <1>10
  <2> HIDE DEF S
  <2>6. QED  BY <1>1, <1>4, <1>6, <1>10, <2>3, <2>4, <2>5
<1>11. ASSUME NEW i \in DOMAIN shares,
              Settled' = Settled, Counted' = Counted \ {i},
              UNCHANGED <<gift, highest>>
       PROVE  gift'.raised = S(AmountOf', Settled') /\ S(AmountOf', Counted') <= highest'
  <2>1. Counted \ {i} \in SUBSET Counted
    OBVIOUS
  <2>2. S(AmountOf, Counted \ {i}) <= S(AmountOf, Counted)
    BY <1>4, <1>6, <2>1, SumPart
  <2>3. Counted \ {i} \in SUBSET (DOMAIN shares)
    BY <1>4
  <2>4. S(AmountOf', Counted') = S(AmountOf, Counted \ {i})
    BY <1>6, <1>11, <2>3
  <2>5. S(AmountOf, Counted \ {i}) \in Nat
    BY <1>6, <2>3
  <2> HIDE DEF S
  <2>6. QED  BY <1>1, <1>4, <1>6, <1>7, <1>11, <2>2, <2>4, <2>5
<1>12. QED
  <2> HIDE DEF S
  <2>1. QED  BY <1>1, <1>8, <1>9, <1>10, <1>11, RowsStep

\* Rows keep their giver, what settled stays settled, and a gift that was
\* revealed stays so.
LEMMA GiversStep ==
  ASSUME TypeOK, SharesKnown, CallersKnown, OpenRows, [Next]_vars
  PROVE  /\ AmountsKept /\ Settled \subseteq Settled'
         /\ \A i \in DOMAIN shares : shares'[i].by = shares[i].by
         /\ gift.revealed => gift'.revealed
         /\ UNCHANGED <<history, received>> \/ WritesHistory
<1>1. AmountsKept /\ Settled \subseteq Settled'
  BY RowsStep
<1>2. CASE Aside
  BY <1>1, <1>2 DEF Aside
<1>3. ASSUME NEW h \in Handler, CommitShare(h)
      PROVE  /\ \A i \in DOMAIN shares : shares'[i].by = shares[i].by
             /\ UNCHANGED <<gift, history, received>>
  <2>1. proc[h].by \in Person /\ proc[h].key \in Key
    BY <1>3 DEF CommitShare, At, CallersKnown
  <2>2. UNCHANGED shares \/ Fresh(h)
    BY <1>3, CommitStep
  <2>3. UNCHANGED <<gift, history, received>>
    BY <1>3, CommitStep
  <2>4. QED  BY <2>1, <2>2, <2>3, FreshStep
<1>4. ASSUME NEW h \in Handler, ProviderAccepts(h) \/ ProviderFails(h)
      PROVE  /\ \A i \in DOMAIN shares : shares'[i].by = shares[i].by
             /\ UNCHANGED <<gift, history, received>>
  BY <1>4, ProviderStep
<1>5. ASSUME NEW j \in DOMAIN shares, SettleContribution(j) \/ PaymentFails(j)
      PROVE  /\ \A i \in DOMAIN shares : shares'[i].by = shares[i].by
             /\ gift'.revealed = gift.revealed
             /\ UNCHANGED <<history, received>>
  <2>1. PICK st \in {"SUCCESSFUL", "FAILED"} :
          shares' = [shares EXCEPT ![j].payment = st, ![j].row = st]
    BY <1>5 DEF SettleContribution, PaymentFails
  <2>2. \A i \in DOMAIN shares : shares'[i].by = shares[i].by
    BY <2>1, CloseStep
  <2>3. gift'.revealed = gift.revealed /\ UNCHANGED <<history, received>>
    BY <1>5 DEF SettleContribution, PaymentFails, TypeOK, Gift
  <2>4. QED  BY <2>2, <2>3
<1>6. QED  BY <1>1, <1>2, <1>3, <1>4, <1>5, AsideStep

\* The settled shares whose givers have the gift in their histories.
Told == {i \in Settled : HasRow(shares[i].by)}

\* They are worth no less after a step that takes no row from a history.
LEMMA ToldGrows ==
  ASSUME TypeOK, TypeOK', HistoryOfShares, AmountsKept, Settled \subseteq Settled',
         \A i \in DOMAIN shares : shares'[i].by = shares[i].by,
         \A i \in 1 .. MaxShares : history[i] > 0 => history'[i] > 0
  PROVE  Worth(Told) <= Worth(Told)'
<1> DEFINE f == AmountOf
           g == AmountOf'
           S == Told
           T == Told'
<1>1. S \in SUBSET (DOMAIN shares)
  BY DEF Told, Settled, Rows
<1>2. DOMAIN shares \subseteq DOMAIN shares' /\ DOMAIN shares \subseteq 1 .. MaxShares
  <2>1. /\ DOMAIN shares = 1 .. Len(shares) /\ Len(shares) \in Nat
        /\ Len(shares) <= MaxShares
    BY SharesFinite DEF TypeOK
  <2>2. QED  BY <2>1, GroupGiftsAssumption DEF AmountsKept
<1>3. ASSUME NEW i \in S  PROVE i \in T
  <2>1. i \in Settled' /\ i \in DOMAIN shares
    BY <1>1, <1>3 DEF Told
  <2>2. PICK j \in DOMAIN shares : shares[j].by = shares[i].by /\ history[j] > 0
    BY <1>3 DEF Told, HasRow
  <2>3. shares'[j].by = shares'[i].by /\ history'[j] > 0 /\ j \in DOMAIN shares'
    BY <1>2, <2>1, <2>2
  <2>4. QED  BY <2>1, <2>3 DEF Told, HasRow
<1>4. T \in SUBSET (DOMAIN shares')
  BY DEF Told, Settled, Rows
<1>5. IsFiniteSet(DOMAIN shares') /\ \A i \in T : g[i] \in Nat
  <2>1. /\ DOMAIN shares' = 1 .. Len(shares') /\ Len(shares') \in Nat
        /\ \A i \in DOMAIN shares' : shares'[i] \in Share
    BY DEF TypeOK
  <2>2. IsFiniteSet(DOMAIN shares')
    BY <2>1, FS_Interval
  <2>3. QED  BY <1>4, <2>1, <2>2, GroupGiftsAssumption DEF AmountOf, Share
<1>6. IsFiniteSet(T)
  BY <1>4, <1>5, FS_Subset
<1>7. SumFunctionOnSet(g, S) = Worth(S)
  <2> HIDE DEF S
  <2>1. QED  BY <1>1, WorthKept
<1>8. Worth(Told)' = SumFunctionOnSet(g, T)
  BY DEF Worth
<1> HIDE DEF f, g, S, T
<1>9. SumFunctionOnSet(g, S) <= SumFunctionOnSet(g, T)
  BY <1>3, <1>5, <1>6, SumPart
<1>10. QED  BY <1>7, <1>8, <1>9 DEF S

LEMMA HistoryStep ==
  ASSUME IInv, [Next]_vars
  PROVE  HistoryOfShares' /\ HistoryTellsTheTruth'
<1>1. /\ TypeOK /\ SharesKnown /\ CallersKnown /\ OpenRows /\ RaisedIsSettled
      /\ HistoryOfShares /\ HistoryTellsTheTruth
  BY DEF IInv
<1>2. TypeOK'
  BY <1>1, TypeStep
<1>3. /\ AmountsKept /\ Settled \subseteq Settled'
      /\ \A i \in DOMAIN shares : shares'[i].by = shares[i].by
      /\ gift.revealed => gift'.revealed
      /\ UNCHANGED <<history, received>> \/ WritesHistory
  BY <1>1, GiversStep
<1>4. /\ \A i \in DOMAIN shares : history[i] > 0 => gift.revealed /\ i \in Settled
      /\ \A i \in DOMAIN shares : history[i] <= 1
      /\ \A i, j \in DOMAIN shares :
           history[i] > 0 /\ history[j] > 0 /\ shares[i].by = shares[j].by => i = j
      /\ received <= Worth(Told)
  BY <1>1 DEF HistoryTellsTheTruth, Told, Settled
<1>5. /\ DOMAIN shares \subseteq DOMAIN shares'
      /\ DOMAIN shares \subseteq 1 .. MaxShares /\ DOMAIN shares' \subseteq 1 .. MaxShares
  <2>1. /\ DOMAIN shares = 1 .. Len(shares) /\ Len(shares) \in Nat
        /\ Len(shares) <= MaxShares
    BY <1>1, SharesFinite DEF TypeOK
  <2>2. /\ DOMAIN shares' = 1 .. Len(shares') /\ Len(shares') \in Nat
        /\ Len(shares') <= MaxShares
    BY <1>2 DEF TypeOK
  <2>3. QED  BY <1>3, <2>1, <2>2, GroupGiftsAssumption DEF AmountsKept
<1>6. /\ Worth(Told) \in Nat /\ received \in Nat
      /\ \A i \in 1 .. MaxShares : history[i] \in Nat /\ history'[i] \in Nat
  <2>1. Told \in SUBSET (DOMAIN shares)
    BY DEF Told, Settled, Rows
  <2>2. QED  BY <1>1, <1>2, <2>1, WorthType DEF TypeOK
<1>7. SUFFICES
        /\ \A i \in 1 .. MaxShares : history'[i] > 0 =>
             gift'.revealed /\ i \in DOMAIN shares /\ i \in Settled' /\ history'[i] <= 1
        /\ \A i, j \in DOMAIN shares :
             history'[i] > 0 /\ history'[j] > 0 /\ shares[i].by = shares[j].by => i = j
        /\ \/ received' <= Worth(Told)
           \/ received' <= Worth(Told)'
  <2>1. ASSUME \A i \in 1 .. MaxShares : history[i] > 0 => history'[i] > 0
        PROVE  Worth(Told) <= Worth(Told)'
    BY <1>1, <1>2, <1>3, <2>1, ToldGrows
  <2>2. \A i \in 1 .. MaxShares : history[i] > 0 => history'[i] > 0
    <3>1. CASE UNCHANGED <<history, received>>
      BY <3>1
    <3>2. CASE WritesHistory
      BY <1>6, <3>2 DEF WritesHistory
    <3>3. QED  BY <1>3, <3>1, <3>2
  <2>3. Worth(Told)' \in Nat
    <3>1. Told' \in SUBSET (DOMAIN shares')
      BY DEF Told, Settled, Rows
    <3>2. SumFunctionOnSet(AmountOf', Told') \in Nat
      BY <1>2, <3>1, WorthLater
    <3>3. QED  BY <3>2 DEF Worth
  <2>4. received' <= Worth(Told)'
    <3>1. received' \in Nat
      BY <1>2 DEF TypeOK
    <3>2. QED  BY <1>6, <1>7, <2>1, <2>2, <2>3, <3>1
  <2>5. HistoryOfShares'
    BY <1>5, <1>7 DEF HistoryOfShares
  <2>6. \A i \in DOMAIN shares' :
          /\ history'[i] > 0 => gift'.revealed /\ i \in Settled'
          /\ history'[i] <= 1
    BY <1>5, <1>6, <1>7
  <2>7. \A i, j \in DOMAIN shares' :
          history'[i] > 0 /\ history'[j] > 0 /\ shares'[i].by = shares'[j].by => i = j
    BY <1>3, <1>5, <1>7
  <2>8. QED  BY <2>4, <2>5, <2>6, <2>7 DEF HistoryTellsTheTruth, Told, Settled
<1>8. CASE UNCHANGED <<history, received>>
  BY <1>1, <1>3, <1>4, <1>8 DEF HistoryOfShares
<1>9. CASE WritesHistory
  <2>1. PICK new \in SUBSET DOMAIN shares :
          /\ RowsThatGetIn(new)
          /\ history' = [i \in 1 .. MaxShares |-> IF i \in new THEN history[i] + 1
                                                             ELSE history[i]]
    BY <1>9 DEF WritesHistory
  <2>2. /\ new \subseteq Settled
        /\ \A i \in new : ~HasRow(shares[i].by)
        /\ \A i, j \in new : shares[i].by = shares[j].by => i = j
        /\ \A i \in Settled :
             HasRow(shares[i].by) \/ \E j \in new : shares[j].by = shares[i].by
    BY <2>1 DEF RowsThatGetIn, Settled
  <2>3. \A i \in new : i \in DOMAIN shares /\ ~(history[i] > 0)
    BY <2>2 DEF HasRow
  <2>4. \A i \in 1 .. MaxShares :
          /\ i \in new => history'[i] = 1
          /\ i \notin new => history'[i] = history[i]
    <3>1. \A i \in new : history[i] = 0
      BY <1>5, <1>6, <2>3
    <3>2. QED  BY <2>1, <3>1
  <2>5. ASSUME NEW i \in 1 .. MaxShares, history'[i] > 0
        PROVE  gift'.revealed /\ i \in DOMAIN shares /\ i \in Settled' /\ history'[i] <= 1
    <3>1. CASE i \in new
      BY <1>3, <1>9, <2>2, <2>3, <2>4, <3>1 DEF WritesHistory
    <3>2. CASE i \notin new
      BY <1>1, <1>3, <1>4, <2>4, <2>5, <3>2 DEF HistoryOfShares
    <3>3. QED  BY <3>1, <3>2
  <2>6. ASSUME NEW i \in DOMAIN shares, NEW j \in DOMAIN shares,
               history'[i] > 0, history'[j] > 0, shares[i].by = shares[j].by
        PROVE  i = j
    <3>1. CASE i \in new /\ j \in new
      BY <2>2, <2>6, <3>1
    <3>2. CASE i \notin new /\ j \notin new
      BY <1>4, <1>5, <2>4, <2>6, <3>2
    <3>3. CASE i \in new /\ j \notin new
      BY <1>5, <2>2, <2>4, <2>6, <3>3 DEF HasRow
    <3>4. CASE i \notin new /\ j \in new
      BY <1>5, <2>2, <2>4, <2>6, <3>4 DEF HasRow
    <3>5. QED  BY <3>1, <3>2, <3>3, <3>4
  <2>7. CASE gift.revealed
    BY <1>4, <1>9, <2>5, <2>6, <2>7 DEF WritesHistory
  <2>8. CASE ~gift.revealed
    <3>1. received' = gift.raised /\ gift.raised = Worth(Settled)
      BY <1>1, <1>9, <2>8 DEF WritesHistory, RaisedIsSettled, Settled
    <3>2. \A i \in Settled : HasRow(shares[i].by)'
      <4>1. ASSUME NEW i \in Settled
            PROVE  \E j \in DOMAIN shares : shares[j].by = shares[i].by /\ history'[j] > 0
        <5>1. CASE HasRow(shares[i].by)
          BY <1>5, <2>4, <5>1, <1>6 DEF HasRow
        <5>2. CASE \E j \in new : shares[j].by = shares[i].by
          BY <1>5, <2>3, <2>4, <5>2
        <5>3. QED  BY <2>2, <5>1, <5>2
      <4>2. UNCHANGED shares
        BY <1>9 DEF WritesHistory
      <4>3. QED  BY <4>1, <4>2 DEF HasRow
    <3>3. UNCHANGED shares
      BY <1>9 DEF WritesHistory
    <3>4. Settled' = Settled /\ Told' = Settled
      BY <3>2, <3>3 DEF Told, Settled, Rows
    <3>5. Worth(Told)' = Worth(Settled)
      BY <3>3, <3>4 DEF Worth, AmountOf
    <3>6. gift.raised \in Nat
      BY <1>1 DEF TypeOK, Gift
    <3>7. received' <= Worth(Told)'
      BY <3>1, <3>5, <3>6
    <3>8. QED  BY <2>5, <2>6, <3>7
  <2>9. QED  BY <2>7, <2>8
<1>10. QED  BY <1>3, <1>8, <1>9

-----------------------------------------------------------------------------
LEMMA InvInit == Init => IInv
<1> SUFFICES ASSUME Init PROVE IInv
  OBVIOUS
<1>1. TypeOK
  BY TypeInit
<1>2. DOMAIN shares = {} /\ Idle.pc = "idle"
  BY DEF Init, Idle
<1>3. SharesKnown /\ CallersKnown /\ GoalsKnown /\ OpenRows
  BY <1>2 DEF Init, SharesKnown, CallersKnown, GoalsKnown, OpenRows, Paying
<1>4. Settled = {} /\ Counted = {}
  BY <1>2 DEF Settled, Counted, Rows
<1>5. Worth(Settled) = 0 /\ Worth(Counted) = 0
  BY <1>4, SumEmpty DEF Worth
<1>6. gift.raised = 0 /\ highest \in Nat
  BY <1>1, GroupGiftsAssumption DEF Init, TypeOK
<1>7. RaisedIsSettled /\ NeverOverTheGoals
  BY <1>5, <1>6 DEF RaisedIsSettled, NeverOverTheGoals, Committed, Settled, Counted
<1>8. HistoryOfShares
  BY DEF Init, HistoryOfShares
<1>9. HistoryTellsTheTruth
  <2>1. {i \in Rows({"SUCCESSFUL"}) : HasRow(shares[i].by)} = {}
    BY <1>4 DEF Settled
  <2>2. Worth({}) = 0
    BY SumEmpty DEF Worth
  <2>3. received = 0
    BY DEF Init
  <2>4. received <= Worth({i \in Rows({"SUCCESSFUL"}) : HasRow(shares[i].by)})
    <3>1. Worth({i \in Rows({"SUCCESSFUL"}) : HasRow(shares[i].by)}) = Worth({})
      BY <2>1, Zenon
    <3>2. 0 <= Worth({})
      <4> HIDE DEF Worth
      <4>1. QED  BY <2>2
    <3>3. QED  BY <2>3, <3>1, <3>2
  <2>5. QED  BY <1>2, <2>4 DEF HistoryTellsTheTruth
<1>10. QED  BY <1>1, <1>3, <1>7, <1>8, <1>9 DEF IInv

LEMMA InvStep == IInv /\ [Next]_vars => IInv'
<1> SUFFICES ASSUME IInv, [Next]_vars PROVE IInv'
  OBVIOUS
<1>1. /\ TypeOK /\ SharesKnown /\ CallersKnown /\ GoalsKnown /\ OpenRows
  BY DEF IInv
<1>2. TypeOK'
  BY <1>1, TypeStep
<1>3. SharesKnown' /\ CallersKnown' /\ GoalsKnown' /\ OpenRows'
  BY <1>1, BookkeepingStep
<1>4. QED  BY <1>2, <1>3, MoneyStep, HistoryStep DEF IInv

LEMMA Invariance == Spec => []IInv
BY InvInit, InvStep, PTL DEF Spec

(***************************************************************************)
(* The theorems.                                                           *)
(***************************************************************************)
\* Every variable of the group gift keeps its type, and no request pays for a
\* share that does not exist.
THEOREM TypeCorrect == Spec => [](TypeOK /\ SharesKnown)
<1>1. IInv => TypeOK /\ SharesKnown
  BY DEF IInv
<1>2. QED  BY <1>1, Invariance, PTL

\* settleContribution: the total shown is the sum of the contributions that
\* settled, however many payments settle, fail and are repeated.
THEOREM RaisedIsSettledHolds == Spec => []RaisedIsSettled
<1>1. IInv => RaisedIsSettled
  BY DEF IInv
<1>2. QED  BY <1>1, Invariance, PTL

\* contribute: what is promised and paid never exceeds the highest goal the
\* gift has had, for any number of simultaneous contributions.
THEOREM NeverOverTheGoalsHolds == Spec => []NeverOverTheGoals
<1>1. IInv => NeverOverTheGoals
  BY DEF IInv
<1>2. QED  BY <1>1, Invariance, PTL

\* writeGroupGiftHistory: however many organisers reveal at once while shares
\* settle, each giver has at most one row, of a share that settled, and what the
\* recipient's history says was raised was given by people who have one.
THEOREM HistoryTellsTheTruthHolds == Spec => []HistoryTellsTheTruth
<1>1. IInv => HistoryTellsTheTruth
  BY DEF IInv
<1>2. QED  BY <1>1, Invariance, PTL
=============================================================================
