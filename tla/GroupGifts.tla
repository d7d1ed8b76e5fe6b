----------------------------- MODULE GroupGifts -----------------------------
(***************************************************************************)
(* The money of one group gift (groupGift.service.ts): contributions made  *)
(* by requests that overlap, the payments they wait for, the goal, and     *)
(* what organisers do to the gift meanwhile.                               *)
(*                                                                         *)
(* The goal check of contribute and the settlement of a payment run in     *)
(* serializable transactions and are one step.  Everything else reads the  *)
(* gift first and writes it later.  Who may see the gift is the subject of *)
(* module Circles.                                                         *)
(***************************************************************************)
EXTENDS Integers, Sequences, FiniteSetsExt

CONSTANTS
  Person,     \* may contribute; neither organiser nor beneficiary
  Key,        \* idempotency keys a client chooses from
  Amount,     \* amounts of money that are contributed
  Goal,       \* goals an organiser chooses from
  MaxShares,  \* bound: rows of gift_contributions
  Handler,    \* requests that run concurrently
  Nobody      \* the person and the key of an idle handler

ASSUME GroupGiftsAssumption ==
  /\ Amount # {} /\ Amount \subseteq Nat \ {0}
  /\ Goal # {} /\ Goal \subseteq Nat \ {0}
  /\ MaxShares \in Nat
  /\ Nobody \notin Person

VARIABLES
  gift,     \* the group_gifts row
  shares,   \* rows of gift_contributions, each with its payment's status
  members,  \* rows of group_gift_members, the organiser's left out
  history,  \* how many SENT rows each share has in its contributor's gift history
  received, \* what the RECEIVED row of the beneficiary says was raised
  proc,     \* program counter and locals of every request
  highest   \* the highest goal the gift ever had

vars == <<gift, shares, members, history, received, proc, highest>>

GiftStatus == {"OPEN", "FUNDED", "PURCHASED", "REVEALED", "CANCELLED"}
PaymentStatus == {"PENDING", "SUCCESSFUL", "FAILED"}
Gift  == [status : GiftStatus, target : Goal, raised : Nat, revealed : BOOLEAN,
          late : BOOLEAN]
Share == [by : Person, key : Key, amount : Amount, row : PaymentStatus,
          payment : PaymentStatus, asked : BOOLEAN]
Local == [pc : {"idle", "commit", "pay", "provider", "update", "cancel",
                "reveal", "purchase", "leave"},
          by : Person \union {Nobody}, share : 0 .. MaxShares,
          key : Key \union {Nobody}, amount : Amount, goal : Goal]

Idle == [pc |-> "idle", by |-> Nobody, share |-> 0,
         key |-> Nobody, amount |-> CHOOSE a \in Amount : TRUE,
         goal |-> CHOOSE g \in Goal : TRUE]

TypeOK ==
  /\ gift \in Gift
  /\ shares \in Seq(Share) /\ Len(shares) <= MaxShares
  /\ members \subseteq Person
  /\ history \in [1 .. MaxShares -> Nat] /\ received \in Nat
  /\ proc \in [Handler -> Local]
  /\ highest \in Goal /\ gift.target <= highest

\* createGroupGift invites any number of friends.
Init ==
  /\ gift \in {[status |-> "OPEN", target |-> g, raised |-> 0,
                revealed |-> FALSE, late |-> FALSE] : g \in Goal}
  /\ shares = <<>>
  /\ members \in SUBSET Person
  /\ history = [i \in 1 .. MaxShares |-> 0] /\ received = 0
  /\ proc = [h \in Handler |-> Idle]
  /\ highest = gift.target

-----------------------------------------------------------------------------
Free(h) == proc[h].pc = "idle"
At(h, pc) == proc[h].pc = pc
Goto(h, l) == proc' = [proc EXCEPT ![h] = l]
Return(h) == Goto(h, Idle)

Rows(status) == {i \in DOMAIN shares : shares[i].row \in status}
AmountOf == [i \in DOMAIN shares |-> shares[i].amount]
Worth(rows) == SumFunctionOnSet(AmountOf, rows)

-----------------------------------------------------------------------------
(***************************************************************************)
(* contribute, by anyone but the beneficiary.                              *)
(***************************************************************************)
ReadForContribute(h, p, k, a) ==
  /\ Free(h)
  /\ gift.status = "OPEN" /\ ~gift.late
  /\ Goto(h, [Idle EXCEPT !.pc = "commit", !.by = p, !.key = k, !.amount = a,
                          !.goal = gift.target])
  /\ UNCHANGED <<gift, shares, members, history, received, highest>>

\* Slip: only settled money is held against the goal.
SettledOnly == Worth(Rows({"SUCCESSFUL"}))

Committed == Worth(Rows({"PENDING", "SUCCESSFUL"}))

\* The transaction: a key that was used returns its share; otherwise the share
\* must fit under the goal that was read before.
CommitShare(h) ==
  LET r == proc[h]
      same == {i \in DOMAIN shares : shares[i].by = r.by /\ shares[i].key = r.key}
  IN
  /\ At(h, "commit")
  /\ \/ \E i \in same : /\ Goto(h, [r EXCEPT !.pc = "pay", !.share = i])
                        /\ UNCHANGED shares
     \/ /\ same = {} /\ Committed + r.amount <= r.goal
        /\ Len(shares) < MaxShares
        /\ shares' = Append(shares,
             [by |-> r.by, key |-> r.key, amount |-> r.amount,
              row |-> "PENDING", payment |-> "PENDING", asked |-> FALSE])
        /\ Goto(h, [r EXCEPT !.pc = "pay", !.share = Len(shares) + 1])
     \/ /\ same = {} /\ Committed + r.amount > r.goal
        /\ Return(h) /\ UNCHANGED shares
  /\ UNCHANGED <<gift, members, history, received, highest>>

\* The payment is read back; initiateWithProvider leaves a settled one alone.
ReadPayment(h) ==
  /\ At(h, "pay")
  /\ IF shares[proc[h].share].payment = "PENDING"
       THEN Goto(h, [proc[h] EXCEPT !.pc = "provider"])
       ELSE Return(h)
  /\ UNCHANGED <<gift, shares, members, history, received, highest>>

ProviderAccepts(h) ==
  /\ At(h, "provider")
  /\ shares' = [shares EXCEPT ![proc[h].share].asked = TRUE]
  /\ Return(h)
  /\ UNCHANGED <<gift, members, history, received, highest>>

\* The provider call throws: the payment is FAILED whatever it is by now, and
\* the contribution row is left as it is.
ProviderFails(h) ==
  /\ At(h, "provider")
  /\ shares' = [shares EXCEPT ![proc[h].share].payment = "FAILED"]
  /\ Return(h)
  /\ UNCHANGED <<gift, members, history, received, highest>>

-----------------------------------------------------------------------------
(***************************************************************************)
(* applySettlement of a contribution's payment, from a callback, a poll or *)
(* the sweep.                                                              *)
(***************************************************************************)
\* Slip: a second callback settles again.
AskedFor(i) == shares[i].asked

Settleable(i) == shares[i].asked /\ shares[i].payment = "PENDING"

StatusAt(raised) ==
  IF raised >= gift.target /\ gift.status = "OPEN" THEN "FUNDED" ELSE gift.status

SettleContribution(i) ==
  LET raised == gift.raised + shares[i].amount IN
  /\ Settleable(i)
  /\ shares' = [shares EXCEPT ![i].payment = "SUCCESSFUL", ![i].row = "SUCCESSFUL"]
  /\ gift' = [gift EXCEPT !.raised = raised, !.status = StatusAt(raised)]
  /\ members' = members \union {shares[i].by}
  /\ UNCHANGED <<history, received, proc, highest>>

PaymentFails(i) ==
  /\ Settleable(i)
  /\ shares' = [shares EXCEPT ![i].payment = "FAILED", ![i].row = "FAILED"]
  /\ UNCHANGED <<gift, members, history, received, proc, highest>>

-----------------------------------------------------------------------------
(***************************************************************************)
(* Organisers: read and check, then write whatever the gift is by then.    *)
(***************************************************************************)
ReadForUpdate(h, g) ==
  /\ Free(h)
  /\ gift.status \notin {"CANCELLED", "REVEALED"}
  /\ g >= gift.raised
  /\ Goto(h, [Idle EXCEPT !.pc = "update", !.goal = g])
  /\ UNCHANGED <<gift, shares, members, history, received, highest>>

\* updateGroupGift writes the goal, and may move the deadline; the status is
\* not looked at again.
UpdateGroupGift(h) ==
  LET g == proc[h].goal IN
  /\ At(h, "update")
  /\ \E late \in {gift.late, FALSE} :
       gift' = [gift EXCEPT !.target = g, !.late = late]
  /\ highest' = IF g > highest THEN g ELSE highest
  /\ Return(h)
  /\ UNCHANGED <<shares, members, history, received>>

DeadlinePasses ==
  /\ ~gift.late
  /\ gift' = [gift EXCEPT !.late = TRUE]
  /\ UNCHANGED <<shares, members, history, received, proc, highest>>

ReadForClose(h, pc) ==
  /\ Free(h)
  /\ CASE pc = "cancel"   -> gift.raised = 0
       [] pc = "purchase" -> gift.status \in {"OPEN", "FUNDED"}
       [] pc = "reveal"   -> ~gift.revealed
  /\ Goto(h, [Idle EXCEPT !.pc = pc])
  /\ UNCHANGED <<gift, shares, members, history, received, highest>>

CancelGroupGift(h) ==
  /\ At(h, "cancel")
  /\ gift' = [gift EXCEPT !.status = "CANCELLED"]
  /\ Return(h)
  /\ UNCHANGED <<shares, members, history, received, highest>>

MarkGroupGiftPurchased(h) ==
  /\ At(h, "purchase")
  /\ gift' = [gift EXCEPT !.status = "PURCHASED"]
  /\ Return(h)
  /\ UNCHANGED <<shares, members, history, received, highest>>

\* Slip: no unique index.
EveryRow(new) == new = Rows({"SUCCESSFUL"})

HasRow(p) == \E i \in DOMAIN shares : shares[i].by = p /\ history[i] > 0

\* writeGroupGiftHistory inserts a row for every settled share and skips those
\* that the unique index (user, source, gift, direction) refuses: a contributor
\* who has a row gets no other, and of several of theirs one gets in.
RowsThatGetIn(new) ==
  /\ new \subseteq Rows({"SUCCESSFUL"})
  /\ \A i \in new : ~HasRow(shares[i].by)
  /\ \A i, j \in new : shares[i].by = shares[j].by => i = j
  /\ \A i \in Rows({"SUCCESSFUL"}) :
       HasRow(shares[i].by) \/ \E j \in new : shares[j].by = shares[i].by

\* revealGroupGift, its transaction.  Of two that overlap both come this far.
RevealGroupGift(h) ==
  /\ At(h, "reveal")
  /\ gift' = [gift EXCEPT !.status = "REVEALED", !.revealed = TRUE]
  /\ \E new \in SUBSET DOMAIN shares :
       /\ RowsThatGetIn(new)
       /\ history' = [i \in 1 .. MaxShares |-> IF i \in new THEN history[i] + 1
                                                          ELSE history[i]]
  /\ received' = IF gift.revealed THEN received ELSE gift.raised
  /\ Return(h)
  /\ UNCHANGED <<shares, members, highest>>

-----------------------------------------------------------------------------
(***************************************************************************)
(* Members.                                                                *)
(***************************************************************************)
InviteToGroupGift(h, p) ==
  /\ Free(h)
  /\ members' = members \union {p}
  /\ UNCHANGED <<gift, shares, history, received, proc, highest>>

ReadForLeave(h, p) ==
  /\ Free(h)
  /\ \A i \in Rows({"SUCCESSFUL"}) : shares[i].by # p
  /\ Goto(h, [Idle EXCEPT !.pc = "leave", !.by = p])
  /\ UNCHANGED <<gift, shares, members, history, received, highest>>

LeaveGroupGift(h) ==
  /\ At(h, "leave")
  /\ members' = members \ {proc[h].by}
  /\ Return(h)
  /\ UNCHANGED <<gift, shares, history, received, highest>>

Crash(h) ==
  /\ ~Free(h)
  /\ Return(h)
  /\ UNCHANGED <<gift, shares, members, history, received, highest>>

-----------------------------------------------------------------------------
Request(h) ==
  \/ \E p \in Person :
       \/ \E k \in Key, a \in Amount : ReadForContribute(h, p, k, a)
       \/ InviteToGroupGift(h, p) \/ ReadForLeave(h, p)
  \/ \E g \in Goal : ReadForUpdate(h, g)
  \/ \E pc \in {"cancel", "purchase", "reveal"} : ReadForClose(h, pc)

Continue(h) ==
  \/ CommitShare(h) \/ ReadPayment(h) \/ ProviderAccepts(h) \/ ProviderFails(h)
  \/ UpdateGroupGift(h) \/ CancelGroupGift(h) \/ MarkGroupGiftPurchased(h)
  \/ RevealGroupGift(h) \/ LeaveGroupGift(h)

Next ==
  \/ \E h \in Handler : Request(h) \/ Continue(h) \/ Crash(h)
  \/ \E i \in DOMAIN shares : SettleContribution(i) \/ PaymentFails(i)
  \/ DeadlinePasses

Spec == Init /\ [][Next]_vars

-----------------------------------------------------------------------------
(***************************************************************************)
(* Correctness.                                                            *)
(***************************************************************************)
\* settleContribution: the progress bar equals the sum of the settled rows,
\* however payments settle, fail and are started again.
RaisedIsSettled == gift.raised = Worth(Rows({"SUCCESSFUL"}))

\* contribute: simultaneous contributions do not exceed the goal between them,
\* even when the goal changes while they run.
NeverOverTheGoals == Committed <= highest

\* writeGroupGiftHistory: however often a gift is revealed, by organisers that
\* overlap, while contributions settle, fail and are repeated, nobody has it
\* twice in the history as given, whoever has it gave, and what the recipient's
\* history says was raised was given by people whose histories say so.
HistoryTellsTheTruth ==
  /\ \A i \in DOMAIN shares : history[i] > 0 => gift.revealed /\ i \in Rows({"SUCCESSFUL"})
  /\ \A i \in DOMAIN shares : history[i] <= 1
  /\ \A i, j \in DOMAIN shares :
       history[i] > 0 /\ history[j] > 0 /\ shares[i].by = shares[j].by => i = j
  /\ received <= Worth({i \in Rows({"SUCCESSFUL"}) : HasRow(shares[i].by)})
=============================================================================
